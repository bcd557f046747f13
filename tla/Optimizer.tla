----------------------------- MODULE Optimizer -----------------------------
(***************************************************************************)
(* A function on its way through the compiler: built instruction by        *)
(* instruction, written as a graph of blocks, or translated from BEAM      *)
(* code; then handed to the passes in any order, or to the pipeline's      *)
(* optimisation of a module.  The interpreter says what the function means *)
(* before and after.                                                       *)
(***************************************************************************)
EXTENDS Pipeline, Interp

CONSTANTS
    Menus,       \* what a function is built from: kinds with two operands, with
                 \* one, instructions without, instructions that name a value,
                 \* instructions without a result, and how many of all of them
    Graphs,      \* functions of several blocks
    Programs,    \* BEAM functions: [arity, code]
    Inputs       \* lists of arguments

\* Functions of several blocks are built with reachable blocks and an entry that
\* nobody jumps to, as the validator asks, and a jump ends its block.
WellBuilt(g) ==
    /\ IsFunction(g) /\ EdgesAgree(g) /\ g.blocks[0].preds = {}
    /\ \A b \in DOMAIN g.blocks :
        LET insts == g.blocks[b].insts
        IN  /\ g.blocks[b].reachable
            /\ \A i \in DOMAIN insts : i # Len(insts) => insts[i].kind \notin JumpKinds

\* The builder's menus have no jumps, what names a value is complete once it does, and
\* BEAM code, never a menu too, is opcodes with operands; arguments come in a list.
ASSUME OptimizerAssumption ==
    /\ \A g \in Graphs : WellBuilt(g)
    /\ \A m \in Menus :
        /\ \A kind \in m.two \union m.one : IsInst(Inst(kind))
        /\ \A inst \in m.none : IsInst(inst) /\ inst.kind \notin JumpKinds
        /\ \A inst \in m.naming \union m.effects :
               IsInst([inst EXCEPT !.ids = <<0>>]) /\ inst.kind \notin JumpKinds
        /\ \A inst \in m.effects : inst.kind = "ConsumeReductions" => IsInst(inst)
    /\ \A p \in Programs :
        /\ p \notin Menus /\ p # <<>> /\ p.arity \in Nat
        /\ p.code \in Seq([op : Nat, args : Seq([o : DOMAIN FirstId, n : Int])])
    /\ \A args \in Inputs : Len(args) \in Nat

VARIABLES menu, phase, f, source, promised, told
ovars == <<menu, phase, f, source, promised, told>>

-----------------------------------------------------------------------------
(* The functions the passes can be trusted with.  Each condition excludes    *)
(* one thing a pass gets wrong.                                              *)

Places(g) == {p \in Positions(g) : p[1] \in Live(g)}
Results_of(g) == {At(g, p).res : p \in Places(g)} \ {NoValue}

\* A value an instruction defines and another one names is in its operand
\* list: dead code elimination looks nowhere else.
OperandsListed(g) ==
    \A p \in Places(g) : Range(At(g, p).ids) \intersect Results_of(g) \subseteq Range(At(g, p).ops)

\* No expression is computed again for a result that is read.
NoRepeats(g) ==
    \A p, q \in Places(g) :
        /\ p # q /\ HasKey(At(g, p)) /\ At(g, p).kind = At(g, q).kind
        /\ Range(At(g, p).ops) = Range(At(g, q).ops)
        => \A r \in Places(g) : At(g, p).res \notin Reads(At(g, r))

\* No value is tested twice.
NoChains(g) ==
    \A p, q \in Places(g) :
        /\ p # q /\ At(g, p).kind \in Range(ChainTests) /\ At(g, q).kind \in Range(ChainTests)
        => Range(At(g, p).ops) \intersect Range(At(g, q).ops) = {}

NoFastAccess(g) == \A p \in Places(g) : At(g, p).kind = "TupleGet" => At(g, p).ns[1] >= FastIndex

\* Dead code elimination takes these for pure, so a result of theirs has to be read:
\* in its block, as the validator asks, and by an instruction that no pass removes.
Overlooked == {"Move", "Push", "Pop"}
Stays(inst) ==
    /\ inst.res = NoValue \/ has_side_effects(inst)
    /\ inst.kind # "Nop"
    /\ inst.kind \in JumpKinds => \E l, m \in Range(inst.to) : l # m
OverlookedRead(g) ==
    \A p \in Places(g) : At(g, p).kind \in Overlooked /\ At(g, p).res # NoValue =>
        \E q \in Places(g) : /\ q[1] = p[1] /\ Stays(At(g, q))
                             /\ At(g, p).res \in Range(At(g, q).ops)

\* No jump to the block after one that runs, and none to the entry.
NoFallThrough(g) ==
    LET reached == mark_reachable(g)
    IN  \A p \in Places(g) : At(g, p).kind = "Br" =>
            At(g, p).to[1] # 0 /\ At(g, p).to[1] - 1 \notin reached

\* No block with one successor jumps backwards: a chain of merges that does is
\* taken apart in the wrong order, into a block already emptied.
JumpsForward(g) ==
    \A b \in mark_reachable(g) : Len(g.blocks[b].succs) = 1 => g.blocks[b].succs[1] > b

Targets(block) == IF is_terminated(block) THEN Range(Last(block).to) ELSE {}
EdgesRecorded(g) == \A b \in mark_reachable(g) : Range(g.blocks[b].succs) = Targets(g.blocks[b])

Trusted(g) ==
    /\ OperandsListed(g) /\ NoRepeats(g) /\ NoChains(g) /\ NoFastAccess(g)
    /\ OverlookedRead(g) /\ NoFallThrough(g) /\ JumpsForward(g) /\ EdgesRecorded(g)

\* The outcomes the passes must keep: none for a function they break.
Promise(g) == IF Trusted(g) THEN [args \in Inputs |-> Outcome(g, args)] ELSE <<>>
Trusting == phase # "build" /\ promised # <<>>

-----------------------------------------------------------------------------
\* Every built function starts by reading its two arguments.
Front ==
    emit_with_result(emit_with_result(IRFunction(2), 0, GetReg(X(0)), 0), 0, GetReg(X(1)), 1)

Building(m) == /\ menu = m /\ phase = "build" /\ f = Front
               /\ source = Front /\ promised = <<>> /\ told = FALSE

Ready(g) == /\ phase = "optimise" /\ f = g /\ source = g
            /\ promised = Promise(g) /\ told = FALSE

OptimizerInit ==
    \/ \E m \in Menus : Building(m)
    \/ menu = <<>> /\ \E g \in Graphs : Ready(g)
    \/ \E p \in Programs : menu = p /\ Ready(translate_beam_function(p.arity, p.code))

next_value_id == Len(f.blocks[0].insts)
Defined == 0 .. next_value_id - 1

Emit(g) == /\ Len(f.blocks[0].insts) < menu.limit + 2
           /\ f' = g
           /\ UNCHANGED <<menu, phase, source, promised, told>>

EmitTwo == \E k \in menu.two, v, w \in Defined :
               Emit(emit_binary(f, 0, k, v, w, next_value_id))
EmitOne == \E k \in menu.one, v \in Defined :
               Emit(emit_with_result(f, 0, WithOperands(Inst(k), <<v>>), next_value_id))
EmitNone == \E inst \in menu.none : Emit(emit_with_result(f, 0, inst, next_value_id))

\* The builder leaves the operand list of these empty; a complete one has
\* every value the instruction names.
AsListed(inst) == {inst, Complete(inst)}
EmitNaming == \E inst \in menu.naming, v \in Defined :
    \E full \in AsListed([inst EXCEPT !.ids = <<v>>]) :
        Emit(emit_with_result(f, 0, full, next_value_id))
EmitEffect == \E inst \in menu.effects, v \in Defined :
    Emit(emit(f, 0, IF inst.kind = "ConsumeReductions" THEN inst
                    ELSE Complete([inst EXCEPT !.ids = <<v>>])))

Finish == \E v \in Defined : \E ret \in AsListed(Ret(v)) :
    /\ phase' = "optimise" /\ f' = emit(f, 0, ret)
    /\ source' = f' /\ promised' = Promise(f')
    /\ UNCHANGED <<menu, told>>

-----------------------------------------------------------------------------
Take(pass) == f' = pass.f /\ told' = pass.changed
RunPass(name) ==
    /\ phase = "optimise"
    /\ Take(run_pass(f, name))
    /\ UNCHANGED <<menu, phase, source, promised>>

OptimizeModule ==
    /\ phase = "optimise" /\ f = source
    /\ phase' = "optimised"
    /\ f' = optimize_module(<<f>>)[1]
    /\ UNCHANGED <<menu, source, promised, told>>

OptimizerNext ==
    \/ phase = "build" /\ \/ EmitTwo \/ EmitOne \/ EmitNone
                          \/ EmitNaming \/ EmitEffect \/ Finish
    \/ \E i \in DOMAIN PassNames : RunPass(PassNames[i])
    \/ OptimizeModule

OptimizerSpec == OptimizerInit /\ [][OptimizerNext]_ovars

-----------------------------------------------------------------------------
(* Properties.                                                               *)

(* Whatever passes have run, in whatever order, a function means what it     *)
(* meant: for the same arguments it ends the same way with the same word and *)
(* has the same effects on the process on the way.  A run that stops in a    *)
(* memory fault, or has not ended when the fuel has, promises nothing.       *)
Honours(got, due) == due.end \in {"ok", "throw"} => got = due
OutcomeKept ==
    Trusting => \A args \in Inputs : Honours(Outcome(f, args), promised[args])

WithoutNops(block) ==
    [block EXCEPT !.insts =
        Keeping(block.insts, {i \in DOMAIN block.insts : block.insts[i].kind # "Nop"})]
SameButNops(g, h) ==
    /\ DOMAIN h.blocks = DOMAIN g.blocks
    /\ \A b \in DOMAIN g.blocks : h.blocks[b] \in {g.blocks[b], WithoutNops(g.blocks[b])}

(* A pass that reports no change has left the function as it was, its code   *)
(* and its edges, on which the loop of optimize relies.  Nops do not count:  *)
(* cse drops them in silence.                                                *)
ChangesReported ==
    [][phase = "optimise" /\ phase' = "optimise" /\ ~told' => SameButNops(f, f')]_ovars

\* Links[n]: the results at the end of a chain of n + 1 values, each read by the
\* instruction that defines the next.
ShortChains(g) ==
    LET Links[n \in 0 .. MaxRounds] ==
            IF n = 0 THEN Results_of(g)
            ELSE LET before == Links[n - 1]
                 IN  {At(g, p).res : p \in {q \in Places(g) : Reads(At(g, q)) \intersect before # {}}}
                     \ {NoValue}
    IN  Links[MaxRounds] = {}

Settled == f = optimize(source) /\ optimize(f) = f

(* One optimize of a function whose chains of values are no longer than its  *)
(* ten rounds finds everything: the rounds on the module, which only the     *)
(* number of instructions drives, find nothing more, and what they leave     *)
(* cannot be optimised further.  A round removes one link of a dead chain,   *)
(* so that a chain of ten is the most it can promise.                        *)
OptimizeSettles == phase = "optimised" /\ Trusting /\ ShortChains(source) => Settled

(* The recorded edges of a block that runs are those of its last             *)
(* instruction: the next pass follows the edges, the interpreter the code.   *)
EdgesFollowCode ==
    Trusting => EdgesRecorded(f)

\* The values of a run.
EnvOf(g, args) == execute(g, args).env

Aliasing == {"SetReg", "Move", "TupleSet", "Narrow", "Send", "Store"}

\* The words others get to see.
Shown(out) ==
    LET seen(e) == CASE e[1] = "push" -> {e[2]}
                     [] e[1] = "bif"  -> Range(e[3])
                     [] OTHER         -> {}
    IN  {out.val} \union UNION {seen(e) : e \in Range(out.effects)}

(* An allocation that the escape analysis calls local is not in the result   *)
(* of the function nor in anything it passes to others, as long as nothing   *)
(* gives the object a second name.                                           *)
EscapeSound ==
    phase = "optimise" /\ f = source /\ Trusting
    /\ (\A p \in Places(f) : At(f, p).kind \notin Aliasing) =>
        \A p \in Places(f), args \in Inputs :
            LET v == At(f, p).res
                env == EnvOf(f, args)
            IN  At(f, p).kind = "Alloc" /\ check_escape(f, v) = NoEscape /\ v \in DOMAIN env =>
                    env[v] \notin Shown(promised[args])

\* BEAM code that only moves X registers and throws what one holds.
Plainly(p) ==
    \A i \in DOMAIN p.code :
        LET op == p.code[i].op  args == p.code[i].args
        IN  /\ op \in {0, 1, 40} /\ \A j \in DOMAIN args : args[j].o = "X" /\ args[j].n \in Nat
            /\ op = 0 => Len(args) = 2
            /\ op = 40 => Len(args) = 1

\* What it means: the first registers hold the arguments.
AtEntry(p, args) ==
    [x |-> [n \in Nat |-> IF n < p.arity /\ n < Len(args) THEN args[n + 1] ELSE nil],
     end |-> "ok", val |-> nil]
Does(s, i) ==
    CASE s.end # "ok" -> s
      [] s.end = "ok" /\ i.op = 0  -> [s EXCEPT !.x[i.args[2].n] = s.x[i.args[1].n]]
      [] s.end = "ok" /\ i.op = 40 -> [s EXCEPT !.end = "throw", !.val = s.x[i.args[1].n]]
      [] OTHER -> s
Thrown(p, args) ==
    LET after[n \in 0 .. Len(p.code)] ==
            IF n = 0 THEN AtEntry(p, args) ELSE Does(after[n - 1], p.code[n])
    IN  after[Len(p.code)]

(* A translated function throws what the BEAM code throws, the contents the  *)
(* register has at that point, also after every optimisation.                *)
ThrowsAsWritten ==
    menu \in Programs /\ Plainly(menu) /\ Len(menu.code) < Fuel =>
        \A args \in Inputs :
            LET r == Thrown(menu, args)
                out == Outcome(f, args)
            IN  r.end = out.end /\ (r.end = "throw" => r.val = out.val)

(* What the validator accepts before a pass it accepts after it.             *)
PassesKeepValid == phase # "build" /\ validate(source) => validate(f)
=============================================================================
