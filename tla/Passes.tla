------------------------------- MODULE Passes -------------------------------
(***************************************************************************)
(* The optimisation passes (dala_ir, opt/).  A pass maps a function to the *)
(* function it leaves and to what it returns: did anything change?         *)
(***************************************************************************)
EXTENDS IR

LOCAL SX == INSTANCE SequencesExt

Pass(f, reported) == [f |-> f, changed |-> reported]
Report(before, after) == Pass(after, after # before)

\* One pass after another.
Combine(p, q)    == Pass(q.f, p.changed \/ q.changed)
Then(p, q(_)) == Combine(p, q(p.f))

Live(f) == {b \in DOMAIN f.blocks : f.blocks[b].reachable}
LiveInsts(f) == UNION {{f.blocks[b].insts[i] : i \in DOMAIN f.blocks[b].insts} : b \in Live(f)}
Last(block) == block.insts[Len(block.insts)]

\* What is at these positions of a sequence, in order.
Keeping(seq, at) ==
    LET kept[n \in 0 .. Len(seq)] ==
            IF n = 0 THEN <<>>
            ELSE IF n \in at THEN Append(kept[n - 1], seq[n]) ELSE kept[n - 1]
    IN  kept[Len(seq)]

\* A pass that rewrites each reachable block on its own.
Blockwise(f, rewrite(_, _)) ==
    LET after == [b \in DOMAIN f.blocks |->
                     IF b \in Live(f) THEN rewrite(b, f.blocks[b]) ELSE f.blocks[b]]
    IN  [f EXCEPT !.blocks = after]

-----------------------------------------------------------------------------
(* Dead code elimination (dce.rs).                                         *)

\* The smallest set with the entry that no edge leads out of.
mark_reachable(f) ==
    LET closed == {S \in SUBSET DOMAIN f.blocks :
                      0 \in S /\ \A b \in S : Range(f.blocks[b].succs) \subseteq S}
    IN  {b \in DOMAIN f.blocks : \A S \in closed : b \in S}

remove_unreachable(f) ==
    LET dead == Live(f) \ mark_reachable(f)
        swept(b, block) ==
            IF b \in dead THEN [block EXCEPT !.reachable = FALSE, !.insts = <<>>, !.succs = <<>>]
            ELSE block
    IN  Pass(Blockwise(f, swept), dead # {})

\* Values that only a kind names, and no operand list, do not count.
used_values(f) ==
    UNION {Range(inst.ops) : inst \in LiveInsts(f)}
    \union {inst.res : inst \in {i \in LiveInsts(f) : is_terminator(i)}}

has_side_effects(inst) ==
    inst.kind \in {"Alloc", "Store", "SetReg", "SetStackPtr", "Br", "BrIf", "Switch",
                   "Ret", "Call", "TailCall", "CallBif", "Throw", "Catch", "CatchPop",
                   "Send", "Recv", "GcSafe", "ConsumeReductions"}

Kept(inst, used) == inst.res = NoValue \/ inst.res \in used \/ has_side_effects(inst)

remove_unused_instructions(f) ==
    LET used == used_values(f)
        swept(b, block) ==
            [block EXCEPT !.insts = Keeping(@, {i \in DOMAIN @ : Kept(@[i], used)})]
    IN  Report(f, Blockwise(f, swept))

\* Seeded fault: the second half of the pass is not asked whether it changed.
X_eliminate_dead_code(f) ==
    [Then(remove_unreachable(f), remove_unused_instructions)
        EXCEPT !.changed = remove_unreachable(f).changed]

eliminate_dead_code(f) == Then(remove_unreachable(f), remove_unused_instructions)

-----------------------------------------------------------------------------
(* Constant propagation and folding (const_prop.rs).                       *)

\* Both passes keep a table of the values known to be constants.  It starts
\* empty, a constant instruction does not enter it, and an instruction folds
\* only when all its operands are in it: neither pass ever changes anything.
propagate_constants(f) == Pass(f, FALSE)
fold_constants(f)      == Pass(f, FALSE)

-----------------------------------------------------------------------------
(* Common subexpressions, block by block (cse.rs).                         *)

Commutative == {"Add", "Mul", "BitAnd", "BitOr", "BitXor", "Eq"}
KeyedTwo    == Commutative \union {"Sub", "Div", "Rem", "ShiftLeft", "ShiftRight"}
KeyedOne    == (TestKinds \ {"IsFloat"}) \union {"Neg", "BitNot"}

HasKey(inst) == \/ inst.kind \in KeyedTwo /\ Len(inst.ops) = 2
                \/ inst.kind \in KeyedOne /\ Len(inst.ops) = 1

expr_key(inst) ==
    IF inst.kind \in Commutative
    THEN <<inst.kind, Min(Range(inst.ops)), Max(Range(inst.ops))>>
    ELSE <<inst.kind>> \o inst.ops

\* An expression with a key and a result that an earlier one has had.
keyed(inst) == HasKey(inst) /\ inst.res # NoValue
repeated(insts, i) ==
    keyed(insts[i]) /\ \E j \in 1 .. i - 1 :
        keyed(insts[j]) /\ expr_key(insts[j]) = expr_key(insts[i])

\* A repeated expression turns into a Nop, and all Nops leave.  What the
\* removed instruction defined is not redirected to the first result, and
\* Nops that were there before are not reported.
cse_block(b, block) ==
    LET stays(i) == block.insts[i].kind # "Nop" /\ ~repeated(block.insts, i)
    IN  [block EXCEPT !.insts = Keeping(block.insts, {i \in DOMAIN block.insts : stays(i)})]

eliminate_common_subexprs(f) ==
    Pass(Blockwise(f, cse_block),
         \E b \in Live(f) : \E i \in DOMAIN f.blocks[b].insts : repeated(f.blocks[b].insts, i))

-----------------------------------------------------------------------------
(* Control flow (simplify_cfg.rs).                                         *)

\* A last jump to the block that comes next is removed, and its edge too:
\* the block then ends without a terminator.
falls_through(b, block) ==
    block.insts # <<>> /\ Last(block).kind = "Br" /\ Last(block).to[1] = b + 1

eliminate_fallthrough_branches(f) ==
    LET cut(b, block) ==
            IF falls_through(b, block)
            THEN [block EXCEPT !.insts = SubSeq(@, 1, Len(@) - 1),
                               !.succs = Keeping(@, {i \in DOMAIN @ : @[i] # b + 1})]
            ELSE block
    IN  Pass(Blockwise(f, cut), \E b \in Live(f) : falls_through(b, f.blocks[b]))

MaxBlock == 1000
\* Seeded fault: any only successor is merged, whoever else jumps to it.
X_Mergeable(f) == {b \in Live(f) : Len(f.blocks[b].succs) = 1}
Mergeable(f) ==
    {b \in X_Mergeable(f) :
        \A c \in DOMAIN f.blocks \ {b} : f.blocks[b].succs[1] \notin Range(f.blocks[c].succs)}

\* Seeded fault: src keeps its own successors.
X_merge(blocks, src, dst) ==
    LET head == IF blocks[src].insts = <<>> THEN <<>> ELSE SubSeq(blocks[src].insts, 1, Len(blocks[src].insts) - 1)
    IN  [blocks EXCEPT ![src].insts = head \o blocks[dst].insts,
                       ![dst].insts = <<>>, ![dst].succs = <<>>, ![dst].reachable = FALSE]

\* Two blocks are not merged into one that is too long.
fits(blocks, src, dst) == Len(blocks[src].insts) + Len(blocks[dst].insts) <= MaxBlock

\* The last instruction of src, whatever it is, makes room for those of dst.
merge(blocks, src, dst) ==
    LET head == IF blocks[src].insts = <<>> THEN <<>> ELSE SubSeq(blocks[src].insts, 1, Len(blocks[src].insts) - 1)
        body == head \o (IF src = dst THEN <<>> ELSE blocks[dst].insts)
        last == Len(body)
        aimed == IF last > 0 /\ body[last].kind = "Br" /\ body[last].to[1] = dst
                 THEN [body EXCEPT ![last].to = <<src>>] ELSE body
        emptied == [blocks EXCEPT ![dst].insts = <<>>, ![dst].succs = <<>>]
    IN  IF ~fits(blocks, src, dst) THEN blocks
        ELSE [emptied EXCEPT ![src].insts = aimed,
                             ![src].succs = blocks[dst].succs,
                             ![dst].reachable = FALSE]

\* The pairs are found first and then merged, the last one first.
merge_blocks(f) ==
    LET count == Cardinality(DOMAIN f.blocks)
        pairs == Mergeable(f)
        dst(b) == f.blocks[b].succs[1]
        merged[n \in 0 .. count] ==
            IF n = 0 THEN f.blocks
            ELSE IF count - n \in pairs THEN merge(merged[n - 1], count - n, dst(count - n))
            ELSE merged[n - 1]
    IN  Pass([f EXCEPT !.blocks = merged[count]],
             \E n \in 1 .. count : count - n \in pairs
                                  /\ fits(merged[n - 1], count - n, dst(count - n)))

simplify(f) ==
    Then(Then(eliminate_fallthrough_branches(f), merge_blocks), remove_unreachable)

-----------------------------------------------------------------------------
(* Calls in tail position (tail_call.rs).                                  *)

\* The last instruction before the terminator that is no Nop.
BeforeEnd(insts) == Max({0} \union {i \in 1 .. Len(insts) - 1 : insts[i].kind # "Nop"})
tail_position(block) ==
    LET i == BeforeEnd(block.insts)
    IN  is_terminated(block) /\ i > 0 /\ block.insts[i].kind = "Call"

\* Whatever the terminator is, and whether or not it returns the result.
mark_tail_call(b, block) ==
    IF tail_position(block)
    THEN [block EXCEPT !.insts[BeforeEnd(block.insts)].kind = "TailCall"] ELSE block

analyze_tail_calls(f) ==
    Pass(Blockwise(f, mark_tail_call), \E b \in Live(f) : tail_position(f.blocks[b]))

-----------------------------------------------------------------------------
(* Pattern matching (pattern_match.rs).                                    *)

\* The tests of a chain, in the order of their tags 0, 1, ...
ChainTests == <<"IsTuple", "IsAtom", "IsList", "IsMap", "IsBinary", "IsPid", "IsFloat",
                "IsFun", "IsSmallInt", "IsNil", "IsStableTuple", "IsMessage", "IsActor",
                "IsTensor", "IsCapability">>
Tag(kind) == (CHOOSE i \in DOMAIN ChainTests : ChainTests[i] = kind) - 1

Tests(inst, v) ==
    inst.kind \in Range(ChainTests) /\ inst.ops # <<>> /\ inst.ops[1] = v

\* How many instructions from i on test the value the i-th one tests.
chain_length(insts, i) ==
    IF insts[i].ops = <<>> THEN 0
    ELSE LET v == insts[i].ops[1]
         IN  Min({n \in 0 .. Len(insts) - i + 1 :
                     i + n > Len(insts) \/ ~Tests(insts[i + n], v)})

\* The chain, with the values its tests define, becomes a jump to the blocks
\* numbered by the positions in the chain.
dispatch(insts, i, n) ==
    LET cases == [j \in 1 .. n |-> Tag(insts[i + j - 1].kind)]
    IN  Switch(insts[i].ops[1], cases, [j \in 1 .. n |-> j - 1], n)

\* A tuple access with a small index becomes a move between registers.
fast_access(inst) ==
    WithOperands(WithResult(Move(X(inst.ns[1]), X(0)), inst.res), inst.ids)
FastIndex == 8

\* The instructions after as many steps along them as there are at first: a
\* step leaves no more than it found.
optimize_insts(all) ==
    LET chained(insts, i, n) == SubSeq(insts, 1, i - 1) \o <<dispatch(insts, i, n)>>
                                \o SubSeq(insts, i + n, Len(insts))
        step(insts, i) ==
            IF i > Len(insts) THEN insts
            ELSE IF chain_length(insts, i) >= 2 THEN chained(insts, i, chain_length(insts, i))
            ELSE IF insts[i].kind = "TupleGet" /\ insts[i].ns[1] < FastIndex
            THEN [insts EXCEPT ![i] = fast_access(@)]
            ELSE insts
        after[i \in 0 .. Len(all)] == IF i = 0 THEN all ELSE step(after[i - 1], i)
    IN  after[Len(all)]

optimize_patterns(f) ==
    LET rewrite(b, block) == [block EXCEPT !.insts = optimize_insts(@)]
    IN  Report(f, Blockwise(f, rewrite))

-----------------------------------------------------------------------------
(* Type inference (type_inference.rs).                                     *)

TestedType == [IsTuple |-> Tuple(0), IsAtom |-> T("Atom"), IsSmallInt |-> T("SmallInt"),
               IsList |-> T("List"), IsMap |-> T("Map"), IsFloat |-> T("Float"),
               IsNil |-> T("Nil")]
ConstantType == [ConstNil |-> T("Nil"), ConstTrue |-> T("Boolean"),
                 ConstFalse |-> T("Boolean"), ConstAtom |-> T("Atom")]

Must(v, t) == <<v, t>>
OfResult(inst, t) == IF inst.res = NoValue THEN <<>> ELSE <<Must(inst.res, t)>>

\* Seeded fault: the result is taken for an index.
X_constrain_arithmetic(inst) ==
    IF Len(inst.ops) < 2 THEN <<>>
    ELSE [i \in DOMAIN inst.ops |-> Must(inst.ops[i], T("SmallInt"))]
         \o OfResult(inst, T("NonNegInt"))
constrain_arithmetic(inst) ==
    IF Len(inst.ops) < 2 THEN <<>>
    ELSE [i \in DOMAIN inst.ops |-> Must(inst.ops[i], T("SmallInt"))]
         \o OfResult(inst, T("SmallInt"))

\* A test constrains the tested value whether or not it succeeds.
constrain_instruction(inst) ==
    CASE inst.kind \in DOMAIN TestedType ->
             IF inst.ops = <<>> \/ inst.res = NoValue THEN <<>>
             ELSE <<Must(inst.ops[1], TestedType[inst.kind]), Must(inst.res, T("Boolean"))>>
      [] inst.kind \in {"Add", "Sub", "Mul"} -> constrain_arithmetic(inst)
      [] inst.kind \in ComparisonKinds      -> OfResult(inst, T("Boolean"))
      [] inst.kind = "Narrow"               ->
             IF inst.res = NoValue THEN <<>>
             ELSE <<Must(inst.ids[1], inst.ty), Must(inst.res, inst.ty)>>
      [] inst.kind = "ConstSmallInt"        -> OfResult(inst, Constant(IntC(inst.ns[1])))
      [] inst.kind \in DOMAIN ConstantType  -> OfResult(inst, ConstantType[inst.kind])
      [] inst.kind = "BrIf"                 -> <<Must(inst.ids[1], T("Boolean"))>>
      [] OTHER                              -> <<>>

generate_constraints(f) ==
    LET block(b) == IF f.blocks[b].reachable
                    THEN SX!FlattenSeq([i \in DOMAIN f.blocks[b].insts |->
                                           constrain_instruction(f.blocks[b].insts[i])])
                    ELSE <<>>
    IN  SX!FlattenSeq([i \in 1 .. Cardinality(DOMAIN f.blocks) |-> block(i - 1)])

MaxIterations == 100

\* A value that is taken from the worklist gets the meet of its constraints,
\* which is Any only if each of them is: see Inference.
infer_and_annotate(f) ==
    LET all == generate_constraints(f)
    IN  Pass(f, \E i, j \in DOMAIN all :
                    /\ i <= MaxIterations
                    /\ all[i][1] = all[j][1] /\ all[j][2] # T("Any"))

-----------------------------------------------------------------------------
(* Escape analysis (escape_analysis.rs): does anything but the block that  *)
(* makes an object see it?  The ranks are those of EscapeStatus::join.     *)

NoEscape    == 0
Conditional == 1
Escapes     == 2

Allocating == {"Alloc", "AllocStable", "MakeFun", "BinaryNew", "TensorNew", "CapNew"}
find_allocations(f) ==
    {inst.res : inst \in {i \in LiveInsts(f) : i.kind \in Allocating}} \ {NoValue}

Harmless == {"Load", "TupleGet", "TupleSet", "GetReg", "SetReg", "Move", "Narrow"}
            \union (TestKinds \ {"IsTrue", "IsFalse"})

\* Seeded fault: what is returned or pushed stays local.
X_check_instruction_escape(v, inst) ==
    IF v \notin Range(inst.ops) THEN NoEscape
    ELSE IF inst.kind \in {"Store", "Send", "SendTyped", "Call", "SpawnActor"} THEN Escapes
    ELSE IF inst.kind \in Harmless \union {"Ret", "Push"} THEN NoEscape
    ELSE Conditional

check_instruction_escape(v, inst) ==
    IF v \notin Range(inst.ops) THEN NoEscape
    ELSE IF \/ inst.kind \in {"Store", "Send", "SendTyped", "Call", "SpawnActor"}
            \/ inst.kind = "Ret" /\ inst.ids[1] = v
         THEN Escapes
    ELSE IF inst.kind \in Harmless THEN NoEscape
    ELSE Conditional

check_escape(f, v) == Max({NoEscape} \union {check_instruction_escape(v, i) : i \in LiveInsts(f)})

\* Nothing is moved to the stack yet: the pass only reports that it could be.
optimize_escapes(f) ==
    Pass(f, \E i \in LiveInsts(f) : /\ i.kind = "Alloc" /\ i.res # NoValue
                                    /\ check_escape(f, i.res) = NoEscape)

-----------------------------------------------------------------------------
(* Layouts and speculation (native_specialize.rs, speculative.rs): both    *)
(* only report.  A speculation always pays by its fixed benefit and cost.  *)

specialize(f) == Pass(f, \E i \in LiveInsts(f) : i.kind = "AllocStable" /\ i.res # NoValue)

Speculated == {"IsSmallInt", "IsTuple", "IsAtom", "IsFloat", "IsList", "IsMap",
               "IsStableTuple", "IsNil"}
speculate(f) ==
    Pass(f, \E i, d \in LiveInsts(f) :
                /\ i.kind \in Speculated /\ i.ops # <<>>
                /\ d.res = i.ops[1])

-----------------------------------------------------------------------------
(* run_pass, by name.                                                      *)

PassNames == <<"dce", "const-prop", "fold", "cse", "simplify-cfg", "tail-call",
               "pattern-match", "type-inference", "escape-analysis",
               "native-specialize", "speculative">>

run_pass(f, name) ==
    CASE name = "dce"               -> eliminate_dead_code(f)
      [] name = "const-prop"        -> propagate_constants(f)
      [] name = "fold"              -> fold_constants(f)
      [] name = "cse"               -> eliminate_common_subexprs(f)
      [] name = "simplify-cfg"      -> simplify(f)
      [] name = "tail-call"         -> analyze_tail_calls(f)
      [] name = "pattern-match"     -> optimize_patterns(f)
      [] name = "type-inference"    -> infer_and_annotate(f)
      [] name = "escape-analysis"   -> optimize_escapes(f)
      [] name = "native-specialize" -> specialize(f)
      [] name = "speculative"       -> speculate(f)

\* One round of optimize: every pass in this order.
optimize_round(f) ==
    LET after[n \in 0 .. Len(PassNames)] ==
            IF n = 0 THEN Pass(f, FALSE)
            ELSE LET before == after[n - 1]
                 IN  Combine(before, run_pass(before.f, PassNames[n]))
    IN  after[Len(PassNames)]
=============================================================================
