------------------------------ MODULE Pipeline ------------------------------
(***************************************************************************)
(* From BEAM code to IR (dala_aot, pipeline.rs).  A BEAM instruction is an *)
(* opcode with operands; the whole function becomes one block, and none of *)
(* its instructions gets a result or an operand list.                      *)
(***************************************************************************)
EXTENDS Passes

XR(n)     == [o |-> "X", n |-> n]
YR(n)     == [o |-> "Y", n |-> n]
FR(n)     == [o |-> "F", n |-> n]
IntOp(n)  == [o |-> "Integer", n |-> n]
AtomIx(n) == [o |-> "AtomIndex", n |-> n]
LabelOp(n) == [o |-> "Label", n |-> n]
Beam(opcode, operands) == [op |-> opcode, args |-> operands]

\* The operand, numbered from 0 as in the code, as a value of the IR.  Only
\* X registers keep a meaning: the other numbers are defined by nothing.
FirstId == [X |-> 0, Y |-> 256, F |-> 1280, Integer |-> 2000, AtomIndex |-> 3000,
            Label |-> 4000]
\* Seeded fault: operands counted from 1.
X_operand(inst, i) ==
    IF i \notin DOMAIN inst.args THEN 0
    ELSE LET a == inst.args[i]
         IN  FirstId[a.o] + (IF a.o = "Integer" THEN i ELSE a.n)

operand(inst, i) ==
    IF i + 1 \notin DOMAIN inst.args THEN 0
    ELSE LET a == inst.args[i + 1]
         IN  FirstId[a.o] + (IF a.o = "Integer" THEN i ELSE a.n)
operands(inst, first) == [j \in 1 .. Len(inst.args) - first |-> operand(inst, first + j - 1)]

\* An operand of another form than the one asked for counts as zero.
field(inst, i, forms) ==
    IF i + 1 \in DOMAIN inst.args /\ inst.args[i + 1].o \in forms
    THEN inst.args[i + 1].n ELSE 0
reg(inst, i) ==
    IF i + 1 \in DOMAIN inst.args /\ inst.args[i + 1].o \in {"X", "Y", "F"}
    THEN <<inst.args[i + 1].o, inst.args[i + 1].n>> ELSE X(0)
int_op(inst, i)   == field(inst, i, {"Integer"})
label_op(inst, i) == field(inst, i, {"Label"})

\* The opcodes that become an instruction of a kind and nothing else.
PlainOpcodes ==
    [IsSmallInt |-> {3, 36, 85, 86} \union 55 .. 59,
     IsAtom     |-> {4},
     IsTuple    |-> {5},
     IsList     |-> {6, 53},
     IsFloat    |-> {7},
     IsNil      |-> {8, 62},
     IsBinary   |-> {9, 54, 63, 64, 124} \union 137 .. 139,
     IsFun      |-> {10, 35, 51, 88},
     IsPid      |-> {11, 60, 61},
     IsTrue     |-> {48, 50},
     IsMap      |-> {52, 129, 145, 146} \union 162 .. 165,
     Add        |-> {12, 67, 103, 105, 159} \union 89 .. 98,
     Sub        |-> {13, 68, 99, 160},
     Mul        |-> {14, 69, 100, 161},
     Div        |-> {15, 70, 101},
     Rem        |-> {16},
     Neg        |-> {66, 71, 102} \union 106 .. 110,
     Eq         |-> {17, 29, 147, 151, 153, 156, 158},
     Ne         |-> {30, 148, 152, 157},
     Lt         |-> {18, 31, 149, 154},
     Gt         |-> {19, 33},
     Ge         |-> {32, 150, 155},
     Le         |-> {34},
     GcSafe     |-> {22},
     Recv       |-> {42, 44, 46, 47, 49, 144},
     Catch      |-> {73, 74, 182, 183},
     CatchPop   |-> {75}]
Plain(opcode) == {k \in DOMAIN PlainOpcodes : opcode \in PlainOpcodes[k]}
PlainKind(opcode) == CHOOSE k \in Plain(opcode) : TRUE

Throwing     == {40, 76, 77, 135}
Calling      == {26, 39} \union 169 .. 173
TailCalling  == {27, 114} \union 174 .. 178
BifCalling   == {23, 24, 25, 79, 80, 81, 127}
GcBifCalling == {82, 83, 84}
Extracting   == 116 .. 123 \union {131, 132}
FirstElement == {133, 141, 166}

callee(inst) == <<operand(inst, 0), operand(inst, 1)>>

\* The instructions one BEAM instruction becomes.
translate_beam_instruction(inst) ==
    LET n == inst.op  at(i) == operand(inst, i)
    IN  CASE Plain(n) # {}            -> <<Inst(PlainKind(n))>>
          [] n \in {0, 65, 179}       -> <<Move(reg(inst, 0), reg(inst, 1))>>
          [] n = 2                    -> <<Ret(0)>>
          [] n \in {20, 104}          -> <<Numbered("Alloc", int_op(inst, 0))>>
          [] n \in BifCalling         -> <<Naming("CallBif", callee(inst) \o operands(inst, 2))>>
          [] n = 78                   -> <<Naming("CallBif", callee(inst))>>
          [] n \in GcBifCalling       -> <<Inst("GcSafe"),
                                           Naming("CallBif", callee(inst) \o operands(inst, 3))>>
          [] n \in Calling            -> <<Naming("Call", <<at(0)>> \o operands(inst, 1))>>
          [] n \in TailCalling        -> <<Naming("TailCall", <<at(0)>> \o operands(inst, 1))>>
          [] n = 28                   -> <<Br(label_op(inst, 0))>>
          [] n \in {111, 112}         -> <<Switch(at(0), <<>>, <<>>, label_op(inst, 1))>>
          [] n = 37                   -> <<[Naming("TupleGet", <<at(1)>>) EXCEPT !.ns = <<int_op(inst, 2)>>]>>
          [] n \in FirstElement       -> <<[Naming("TupleGet", <<at(0)>>) EXCEPT !.ns = <<0>>]>>
          [] n \in {38, 167, 168}     -> <<Naming("TupleSet", <<at(0), at(1)>>)>>
          [] n = 113                  -> <<Naming("TupleSet", <<at(0), at(2)>>)>>
          [] n \in Throwing           -> <<Throw(at(0))>>
          [] n = 41                   -> <<Naming("Send", <<at(0), at(1)>>)>>
          [] n = 43                   -> <<Numbered("ConsumeReductions", 1)>>
          [] n \in {72, 134}          -> <<Naming("MakeFun", callee(inst) \o operands(inst, 3))>>
          [] n \in {115, 125, 126, 128} -> <<Naming("BinaryNew", <<at(0)>>)>>
          [] n \in Extracting         -> <<Naming("BinaryExtract", <<at(0), at(1), at(2)>>)>>
          [] n \in {130, 142, 143}    -> <<Naming("BinaryExtract", <<at(0), 0, at(1)>>)>>
          [] n = 140                  -> <<Naming("BinarySize", <<at(0)>>)>>
          [] OTHER                    -> <<Inst("Nop")>>

\* A body that does not end in a terminator gets a return.
translate_beam_function(arity, code) ==
    LET made[n \in 0 .. Len(code)] ==
            IF n = 0 THEN <<>> ELSE made[n - 1] \o translate_beam_instruction(code[n])
        body == made[Len(code)]
        ends == body # <<>> /\ is_terminator(body[Len(body)])
    IN  [IRFunction(arity) EXCEPT
            !.blocks[0].insts = IF ends THEN body ELSE Append(body, Ret(0))]

count_function_instructions(f) == Cardinality(Positions(f))

-----------------------------------------------------------------------------
(* Optimisation of a function (opt/mod.rs) and of a module.                *)

MaxRounds == 10

\* A step again and again as long as it asks for more, so many times at most.
Again(x, step(_), limit) ==
    LET after[n \in 0 .. limit] ==
            IF n = 0 THEN [of |-> x, more |-> TRUE]
            ELSE LET before == after[n - 1]
                 IN  IF before.more THEN step(before.of) ELSE before
    IN  after[limit].of

\* Rounds until one reports no change.  A round that leaves the function as it
\* was would only repeat itself.
round(f) == LET r == optimize_round(f) IN [of |-> r.f, more |-> r.changed /\ r.f # f]

\* Seeded fault: one round too few.
X_optimize(f) == Again(f, round, MaxRounds - 1)

optimize(f) == Again(f, round, MaxRounds)

MaxIter(fs) == IF Len(fs) = 0 THEN 0 ELSE IF Len(fs) > 100 THEN 5 ELSE 10

\* Whether a function is optimised again is judged by its instruction count.
shrunk(f, g) == count_function_instructions(f) # count_function_instructions(g)

module_round(fs) ==
    LET gs == [i \in DOMAIN fs |-> optimize(fs[i])]
    IN  [of |-> gs, more |-> \E i \in DOMAIN fs : shrunk(fs[i], gs[i])]

optimize_module(fs) == Again(fs, module_round, MaxIter(fs))
=============================================================================
