------------------------------- MODULE Interp -------------------------------
(***************************************************************************)
(* The interpreter of the IR (dala_codegen, interpreter.rs): one function  *)
(* run in a process to its return, its exception or the end of the fuel,   *)
(* by Operations for what it computes and IR for the instructions.         *)
(*                                                                         *)
(* What a run shows to others is its outcome: how it ended, the word it    *)
(* ended with, and what it did to the process on the way (built-in calls,  *)
(* stack, allocation, reductions).                                         *)
(***************************************************************************)
EXTENDS IR, Operations

CONSTANT Fuel      \* bound on the instructions of one run
ASSUME FuelAssumption == Fuel \in Nat

-----------------------------------------------------------------------------
(* Values and registers.  A register that was never written holds nil, a    *)
(* float register zero.                                                    *)

Start(f, args) ==
    LET given == 0 .. (IF Len(args) < f.arity THEN Len(args) ELSE f.arity) - 1
    IN  [blk |-> 0, pc |-> 1, env |-> [i \in given |-> args[i + 1]],
         regs |-> [r \in {X(i) : i \in given} |-> args[r[2] + 1]],
         stack |-> <<>>, words |-> 0, effects |-> <<>>, end |-> "running", val |-> nil]

Insert(table, key, w) == [k \in {key} \union DOMAIN table |-> IF k = key THEN w ELSE table[k]]

read_reg(s, r) ==
    IF r \in DOMAIN s.regs THEN s.regs[r] ELSE IF r[1] = "F" THEN raw(0) ELSE nil

\* Writing an X register also defines the value of that number.
write_reg(s, r, w) ==
    [s EXCEPT !.regs = Insert(@, r, w), !.env = IF r[1] = "X" THEN Insert(@, r[2], w) ELSE @]

\* An undefined value is read from the X register of that number.
resolve_value(s, v) ==
    IF v \in DOMAIN s.env THEN s.env[v]
    ELSE IF v = 0 THEN nil ELSE read_reg(s, X(v))

resolve_op(s, inst, i) == IF i \in DOMAIN inst.ops THEN resolve_value(s, inst.ops[i]) ELSE nil
named(s, inst, i) == resolve_value(s, inst.ids[i])

-----------------------------------------------------------------------------
(* Results computed from operands.                                         *)

Results == [ConstNil |-> nil, ConstTrue |-> true, ConstFalse |-> false,
            Recv |-> nil, MakeFun |-> nil, BinaryNew |-> nil, BinaryExtract |-> nil,
            Load |-> nil, GetStackPtr |-> nil, BinarySize |-> small(0)]

\* The kinds whose result is the last value they name.
Passing == {"TupleSet", "Send", "Store", "Narrow"}

Evaluated == ArithmeticKinds \union ComparisonKinds \union TestKinds
             \union DOMAIN Results \union Passing
             \union {"ConstSmallInt", "ConstAtom", "LoadLiteral", "GetReg", "TupleGet"}

Result(s, inst) ==
    LET k == inst.kind  a == resolve_op(s, inst, 1)  b == resolve_op(s, inst, 2)
    IN  CASE k \in ArithmeticKinds              -> Arith(k, a, b)
          [] k \in ComparisonKinds              -> bool(Compare(k, a, b))
          [] k \in TestKinds                    -> bool(Test(k, a))
          [] k \in DOMAIN Results               -> Results[k]
          [] k \in {"ConstSmallInt", "LoadLiteral"} -> small(inst.ns[1])
          [] k = "ConstAtom"                    -> atom(inst.ns[1])
          [] k = "GetReg"                       -> read_reg(s, inst.regs[1])
          [] k = "TupleGet"                     -> TupleGet(named(s, inst, 1), inst.ns[1])
          [] k \in Passing                      -> named(s, inst, Len(inst.ids))

Stops(s, inst) ==
    \/ Dereferences(inst.kind) /\ Faults(Heap, resolve_op(s, inst, 1))
    \/ inst.kind = "TupleGet" /\ Faults(Heap, named(s, inst, 1))

-----------------------------------------------------------------------------
(* One instruction.                                                        *)

Next1(s)         == [s EXCEPT !.pc = @ + 1]
Define(s, inst, w) == IF inst.res = NoValue THEN s
                      ELSE [s EXCEPT !.env = Insert(@, inst.res, w)]
Effect(s, e)     == [s EXCEPT !.effects = Append(@, e)]
End(s, how, w)   == [s EXCEPT !.end = how, !.val = w]

\* A label no block carries leads to the entry.
Goto(f, s, l) == [s EXCEPT !.blk = IF l \in DOMAIN f.blocks THEN l ELSE 0, !.pc = 1]

SwitchTarget(s, inst) ==
    LET cases == {i \in DOMAIN inst.ns : raw(inst.ns[i]) = named(s, inst, 1)}
    IN  IF cases = {} THEN inst.to[Len(inst.to)] ELSE inst.to[Min(cases)]

\* A call of a function the table does not hold, or that raises, gives nil.
CallBif(s, inst) ==
    LET name(i) == LET w == named(s, inst, i) IN IF is_atom(w) THEN w ELSE atom(0)
        args == [i \in 1 .. Len(inst.ids) - 2 |-> named(s, inst, i + 2)]
        known == {b \in BifTable : AtomOf(b[1]) = name(2) /\ b[2] = Len(args)}
        r == IF name(1) # AtomOf("erlang") \/ known = {} THEN Ok(nil)
             ELSE Bif(Heap, Pid, (CHOOSE b \in known : TRUE)[1], args)
    IN  IF r.how = "fault" THEN End(s, "fault", nil)
        ELSE Effect(Define(s, inst, IF r.how = "ok" THEN r.val ELSE nil),
                    <<"bif", name(2), args>>)

Step(f, s, inst) ==
    LET k == inst.kind
    IN  CASE k = "Ret" ->
                 End(s, "ok", IF inst.ops = <<>> /\ inst.ids[1] = 0 THEN nil ELSE named(s, inst, 1))
          [] k = "Throw"  -> End(s, "throw", named(s, inst, 1))
          [] k = "Br"     -> Goto(f, s, inst.to[1])
          [] k = "BrIf"   -> Goto(f, s, inst.to[IF truthy(named(s, inst, 1)) THEN 1 ELSE 2])
          [] k = "Switch" -> Goto(f, s, SwitchTarget(s, inst))
          [] k = "Move"   -> Next1(write_reg(s, inst.regs[2], read_reg(s, inst.regs[1])))
          [] k = "SetReg" -> Next1(write_reg(s, inst.regs[1], named(s, inst, 1)))
          [] k = "CallBif" -> Next1(CallBif(s, inst))
          [] k = "Push"   -> Next1(Effect([s EXCEPT !.stack = <<named(s, inst, 1)>> \o @],
                                          <<"push", named(s, inst, 1)>>))
          [] k = "Pop"    -> IF s.stack = <<>> THEN End(s, "fault", nil)
                             ELSE Next1(Define([s EXCEPT !.stack = Tail(@)], inst, Head(s.stack)))
          [] k = "Alloc"  -> Next1(Effect(Define([s EXCEPT !.words = @ + inst.ns[1]], inst,
                                                 Word(1, 0, 0, s.words, 0)), <<"alloc", inst.ns[1]>>))
          [] k = "ConsumeReductions" -> Next1(Effect(s, <<"reductions", inst.ns[1]>>))
          [] k \in Evaluated -> IF Stops(s, inst) THEN End(s, "fault", nil)
                                ELSE Next1(Define(s, inst, Result(s, inst)))
          [] OTHER        -> Next1(s)     \* Nop, calls, bitwise, typed actors ...

Stepped(f, s) ==
    LET insts == f.blocks[s.blk].insts
    IN  IF s.end # "running" THEN s
        ELSE IF s.pc > Len(insts) THEN End(s, "ok", nil) ELSE Step(f, s, insts[s.pc])

execute(f, args) ==
    LET after[n \in 0 .. Fuel] == IF n = 0 THEN Start(f, args) ELSE Stepped(f, after[n - 1])
    IN  after[Fuel]
Outcome(f, args) == LET s == execute(f, args)
                    IN  [end |-> s.end, val |-> s.val, effects |-> s.effects]

compile_function(f) == DOMAIN f.blocks # {}
=============================================================================
