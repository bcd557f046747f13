-------------------------- MODULE OptimizerProofs --------------------------
(***************************************************************************)
(* Proofs about Optimizer, for any menus, graphs, programs and inputs.     *)
(***************************************************************************)
EXTENDS Optimizer, SeqLemmas, FiniteSetTheorems

\* A function has an arity and finitely many blocks.
HasBlocks(g) == {"arity", "blocks"} \subseteq DOMAIN g /\ IsFiniteSet(DOMAIN g.blocks)

(* The same blocks, which is what a pass without a change leaves.          *)
SameBlocks(g, h) ==
    /\ HasBlocks(h)
    /\ DOMAIN h.blocks = DOMAIN g.blocks
    /\ \A b \in DOMAIN g.blocks : h.blocks[b] = g.blocks[b]

LEMMA SameBlocksChain ==
    ASSUME NEW f1, NEW f2, NEW f3, SameBlocks(f1, f2), SameBlocks(f2, f3)
    PROVE  SameBlocks(f1, f3)
  BY DEF SameBlocks

LEMMA SameBlocksBut ==
    ASSUME NEW g, NEW h, SameBlocks(g, h)
    PROVE  SameButNops(g, h)
  BY DEF SameBlocks, SameButNops

(* Replacing the blocks of a function leaves it its other fields, and it   *)
(* has the blocks it was given.                                            *)
LEMMA WithBlocks ==
    ASSUME NEW g, HasBlocks(g), NEW blocks, DOMAIN blocks = DOMAIN g.blocks
    PROVE  /\ HasBlocks([g EXCEPT !.blocks = blocks])
           /\ [g EXCEPT !.blocks = blocks].blocks = blocks
  BY DEF HasBlocks

(* What is asked of a pass: without a report the blocks are the same.       *)
Reports(g, p) == HasBlocks(p.f) /\ (~p.changed => SameBlocks(g, p.f))

LEMMA SameBlocksSelf == ASSUME NEW g, HasBlocks(g) PROVE SameBlocks(g, g)
  BY DEF SameBlocks

LEMMA CombineReports ==
    ASSUME NEW g, NEW p, NEW q, Reports(g, p), Reports(p.f, q)
    PROVE  Reports(g, Combine(p, q))
<1>1. Combine(p, q).f = q.f /\ (~Combine(p, q).changed => ~p.changed /\ ~q.changed)
  BY DEF Combine, Pass
<1> QED
  BY <1>1, SameBlocksChain DEF Reports

(* A pass that rewrites each block on its own leaves those alone that the   *)
(* rewriting does not touch.                                               *)
LEMMA BlocksReplaced ==
    ASSUME NEW g, HasBlocks(g), NEW blocks, NEW changed,
           DOMAIN blocks = DOMAIN g.blocks,
           ~changed => \A b \in DOMAIN blocks : blocks[b] = g.blocks[b]
    PROVE  Reports(g, Pass([g EXCEPT !.blocks = blocks], changed))
<1> DEFINE h == [g EXCEPT !.blocks = blocks]
<1>1. HasBlocks(h) /\ h.blocks = blocks
  BY WithBlocks
<1>2. Pass(h, changed).f = h /\ Pass(h, changed).changed = changed
  BY Zenon DEF Pass
<1> HIDE DEF h
<1>3. ~changed => SameBlocks(g, h)
  BY <1>1 DEF SameBlocks
<1>4. Reports(g, Pass(h, changed))
  BY <1>1, <1>2, <1>3 DEF Reports
<1> QED
  BY <1>4 DEF h

LEMMA RemoveUnreachable ==
    ASSUME NEW g, HasBlocks(g)
    PROVE  Reports(g, remove_unreachable(g))
<1> DEFINE dead == Live(g) \ mark_reachable(g)
           changed == dead # {}
           swept(b, block) ==
               IF b \in dead THEN [block EXCEPT !.reachable = FALSE, !.insts = <<>>, !.succs = <<>>]
               ELSE block
           blocks == [b \in DOMAIN g.blocks |->
                         IF b \in Live(g) THEN swept(b, g.blocks[b]) ELSE g.blocks[b]]
<1>1. remove_unreachable(g) = Pass([g EXCEPT !.blocks = blocks], changed)
  BY Zenon DEF remove_unreachable, Blockwise
<1>2. /\ DOMAIN blocks = DOMAIN g.blocks
      /\ ~changed => \A b \in DOMAIN blocks : blocks[b] = g.blocks[b]
  OBVIOUS
<1> HIDE DEF blocks, changed
<1>3. Reports(g, Pass([g EXCEPT !.blocks = blocks], changed))
  BY <1>2, BlocksReplaced
<1> QED
  BY <1>1, <1>3

LEMMA RemoveUnused ==
    ASSUME NEW g, HasBlocks(g)
    PROVE  Reports(g, remove_unused_instructions(g))
<1> DEFINE h == remove_unused_instructions(g).f
<1>1. HasBlocks(h) /\ remove_unused_instructions(g) = Report(g, h)
  BY DEF remove_unused_instructions, Blockwise, Report, Pass, HasBlocks
<1> HIDE DEF h
<1>2. Reports(g, Report(g, h))
  BY <1>1, SameBlocksSelf DEF Reports, Report, Pass
<1> QED
  BY <1>1, <1>2

LEMMA CutFallthrough ==
    ASSUME NEW g, HasBlocks(g)
    PROVE  Reports(g, eliminate_fallthrough_branches(g))
<1> DEFINE changed == \E b \in Live(g) : falls_through(b, g.blocks[b])
           p == eliminate_fallthrough_branches(g)
<1>1. HasBlocks(p.f) /\ p.changed = changed
  BY Zenon, WithBlocks DEF eliminate_fallthrough_branches, Blockwise, Pass
<1>2. ASSUME ~changed
      PROVE  /\ DOMAIN p.f.blocks = DOMAIN g.blocks
             /\ \A b \in DOMAIN g.blocks : p.f.blocks[b] = g.blocks[b]
  BY <1>2 DEF eliminate_fallthrough_branches, Blockwise, Pass, HasBlocks
<1> HIDE DEF p, changed
<1>3. ~p.changed => ~changed
  BY <1>1, Zenon
<1>4. ~p.changed => SameBlocks(g, p.f)
  BY <1>1, <1>2, <1>3 DEF SameBlocks
<1>5. Reports(g, p)
  BY <1>1, <1>4 DEF Reports
<1> QED
  BY <1>5 DEF p

\* The blocks after n steps down their numbers.
MergeStep(g, n, blocks) ==
    LET b == Cardinality(DOMAIN g.blocks) - n
    IN  IF b \in Mergeable(g) THEN merge(blocks, b, g.blocks[b].succs[1]) ELSE blocks
Merging(g, n, p) == p[0] = g.blocks /\ \A k \in 1 .. n : p[k] = MergeStep(g, k, p[k - 1])

LEMMA MergingExists ==
    ASSUME NEW g, NEW n \in Nat
    PROVE  \E p : Merging(g, n, p)
<1> DEFINE S == {m \in Nat : \E p : Merging(g, m, p)}
<1>1. 0 \in S
  <2>1. Merging(g, 0, [i \in {0} |-> g.blocks])
    BY DEF Merging
  <2> QED
    BY <2>1
<1>2. ASSUME NEW m \in 1 .. n, m - 1 \in S PROVE m \in S
  <2>1. PICK p : Merging(g, m - 1, p)
    BY <1>2
  <2> DEFINE q == [i \in 0 .. m |-> IF i = m THEN MergeStep(g, m, p[m - 1]) ELSE p[i]]
  <2>2. q[0] = g.blocks
    BY <2>1 DEF Merging
  <2>3. ASSUME NEW i \in 1 .. m PROVE q[i] = MergeStep(g, i, q[i - 1])
    <3>1. q[i - 1] = p[i - 1]
      OBVIOUS
    <3>2. i # m => i \in 1 .. m - 1 /\ q[i] = p[i]
      OBVIOUS
    <3> QED
      BY <2>1, <3>1, <3>2 DEF Merging
  <2>4. Merging(g, m, q)
    BY <2>2, <2>3 DEF Merging
  <2> QED
    BY <2>4
<1> HIDE DEF S
<1>3. 0 .. n \subseteq S
  BY <1>1, <1>2, CountUp
<1>4. n \in 0 .. n
  OBVIOUS
<1> QED
  BY <1>3, <1>4 DEF S

LEMMA Merged ==
    ASSUME NEW g, HasBlocks(g)
    PROVE  LET n == Cardinality(DOMAIN g.blocks)
           IN  /\ n \in Nat
               /\ \E p : /\ Merging(g, n, p)
                        /\ merge_blocks(g) =
                               Pass([g EXCEPT !.blocks = p[n]],
                                    \E k \in 1 .. n :
                                        /\ n - k \in Mergeable(g)
                                        /\ fits(p[k - 1], n - k, g.blocks[n - k].succs[1]))
<1> DEFINE n == Cardinality(DOMAIN g.blocks)
           run(p) == [k \in 0 .. n |->
                         IF k = 0 THEN g.blocks
                         ELSE IF n - k \in Mergeable(g)
                         THEN merge(p[k - 1], n - k, g.blocks[n - k].succs[1])
                         ELSE p[k - 1]]
           merged == CHOOSE p : p = run(p)
<1>1. n \in Nat
  BY FS_CardinalityType DEF HasBlocks
<1> HIDE DEF n
<1>2. PICK p : Merging(g, n, p)
  BY <1>1, MergingExists
<1> DEFINE q == [k \in 0 .. n |-> p[k]]
<1>3. q = run(q)
  <2>1. ASSUME NEW k \in 0 .. n PROVE q[k] = run(q)[k]
    <3>1. CASE k = 0
      BY <1>1, <1>2, <3>1 DEF Merging
    <3>2. CASE k # 0
      <4>1. k \in 1 .. n /\ k - 1 \in 0 .. n
        BY <1>1, <3>2
      <4>2. q[k] = MergeStep(g, k, q[k - 1])
        BY <1>2, <4>1 DEF Merging
      <4> QED
        BY <3>2, <4>2 DEF MergeStep, n
    <3> QED
      BY <3>1, <3>2
  <2> QED
    BY <2>1
<1>4. merged = run(merged)
  BY <1>3, Zenon
<1> HIDE DEF merged
<1>5. Merging(g, n, merged)
  <2>1. merged[0] = g.blocks
    BY <1>1, <1>4
  <2>2. ASSUME NEW k \in 1 .. n PROVE merged[k] = MergeStep(g, k, merged[k - 1])
    <3>1. k # 0 /\ k \in 0 .. n
      BY <1>1
    <3>2. merged[k] = run(merged)[k]
      BY <1>4
    <3> QED
      BY <3>1, <3>2 DEF MergeStep, n
  <2> QED
    BY <2>1, <2>2 DEF Merging
<1>6. merge_blocks(g) =
          Pass([g EXCEPT !.blocks = merged[n]],
               \E k \in 1 .. n : /\ n - k \in Mergeable(g)
                                /\ fits(merged[k - 1], n - k, g.blocks[n - k].succs[1]))
  BY Zenon DEF merge_blocks, merged, n
<1> QED
  BY <1>1, <1>5, <1>6 DEF n

LEMMA MergeDomain ==
    ASSUME NEW blocks, NEW src, NEW dst
    PROVE  DOMAIN merge(blocks, src, dst) = DOMAIN blocks
  BY DEF merge

LEMMA MergeBlocks ==
    ASSUME NEW g, HasBlocks(g)
    PROVE  Reports(g, merge_blocks(g))
<1> DEFINE n == Cardinality(DOMAIN g.blocks)
<1>1. PICK p : /\ Merging(g, n, p)
               /\ merge_blocks(g) =
                      Pass([g EXCEPT !.blocks = p[n]],
                           \E k \in 1 .. n : /\ n - k \in Mergeable(g)
                                            /\ fits(p[k - 1], n - k, g.blocks[n - k].succs[1]))
  BY Merged, Zenon
<1>2. n \in Nat
  BY Merged, Zenon
<1> DEFINE changed == \E k \in 1 .. n : /\ n - k \in Mergeable(g)
                                        /\ fits(p[k - 1], n - k, g.blocks[n - k].succs[1])
           Fine(k) == DOMAIN p[k] = DOMAIN g.blocks /\ (~changed => p[k] = g.blocks)
           Fines == {k \in 0 .. n : Fine(k)}
<1> HIDE DEF n
<1>3. ASSUME NEW k \in 1 .. n, Fine(k - 1) PROVE Fine(k)
  <2>1. p[k] = MergeStep(g, k, p[k - 1])
    BY <1>1, <1>3 DEF Merging
  <2>2. DOMAIN p[k] = DOMAIN g.blocks
    BY <1>3, <2>1, MergeDomain DEF MergeStep
  <2>3. ASSUME ~changed, n - k \in Mergeable(g) PROVE p[k] = g.blocks
    <3>1. ~fits(p[k - 1], n - k, g.blocks[n - k].succs[1])
      BY <1>3, <2>3
    <3>2. p[k] = merge(p[k - 1], n - k, g.blocks[n - k].succs[1])
      BY <2>1, <2>3 DEF MergeStep, n
    <3> QED
      BY <1>3, <2>3, <3>1, <3>2 DEF merge
  <2>4. ASSUME ~changed, n - k \notin Mergeable(g) PROVE p[k] = g.blocks
    BY <1>3, <2>1, <2>4 DEF MergeStep, n
  <2> QED
    BY <2>2, <2>3, <2>4
<1>4. /\ DOMAIN p[n] = DOMAIN g.blocks
      /\ ~changed => \A b \in DOMAIN p[n] : p[n][b] = g.blocks[b]
  <2>1. Fine(0)
    BY <1>1 DEF Merging
  <2> HIDE DEF Fine
  <2>2. 0 \in Fines /\ \A k \in 1 .. n : k - 1 \in Fines => k \in Fines
    BY <1>2, <1>3, <2>1
  <2> HIDE DEF Fines
  <2>3. n \in Fines
    BY <1>2, <2>2, CountUp
  <2>4. Fine(n)
    BY <2>3 DEF Fines
  <2> QED
    BY <2>4 DEF Fine
<1>5. merge_blocks(g) = Pass([g EXCEPT !.blocks = p[n]], changed)
  BY <1>1, Zenon
<1> HIDE DEF changed
<1>6. Reports(g, Pass([g EXCEPT !.blocks = p[n]], changed))
  BY <1>4, BlocksReplaced
<1> QED
  BY <1>5, <1>6

LEMMA Tails ==
    ASSUME NEW g, HasBlocks(g)
    PROVE  Reports(g, analyze_tail_calls(g))
<1> DEFINE changed == \E b \in Live(g) : tail_position(g.blocks[b])
           blocks == [b \in DOMAIN g.blocks |->
                         IF b \in Live(g) THEN mark_tail_call(b, g.blocks[b]) ELSE g.blocks[b]]
<1>1. analyze_tail_calls(g) = Pass([g EXCEPT !.blocks = blocks], changed)
  BY Zenon DEF analyze_tail_calls, Blockwise
<1>2. /\ DOMAIN blocks = DOMAIN g.blocks
      /\ ~changed => \A b \in DOMAIN blocks : blocks[b] = g.blocks[b]
  BY DEF mark_tail_call
<1> HIDE DEF blocks, changed
<1>3. Reports(g, Pass([g EXCEPT !.blocks = blocks], changed))
  BY <1>2, BlocksReplaced
<1> QED
  BY <1>1, <1>3

LEMMA Patterns ==
    ASSUME NEW g, HasBlocks(g)
    PROVE  Reports(g, optimize_patterns(g))
<1> DEFINE h == optimize_patterns(g).f
<1>1. HasBlocks(h) /\ optimize_patterns(g) = Report(g, h)
  BY DEF optimize_patterns, Blockwise, Report, Pass, HasBlocks
<1> HIDE DEF h
<1>2. Reports(g, Report(g, h))
  BY <1>1, SameBlocksSelf DEF Reports, Report, Pass
<1> QED
  BY <1>1, <1>2

(* The passes that only look.                                              *)
LEMMA Annotations ==
    ASSUME NEW g, HasBlocks(g),
           NEW p \in {propagate_constants(g), fold_constants(g), infer_and_annotate(g),
                      optimize_escapes(g), specialize(g), speculate(g)}
    PROVE  Reports(g, p)
<1>1. p.f = g
  BY DEF propagate_constants, fold_constants, infer_and_annotate, optimize_escapes,
         specialize, speculate, Pass
<1> QED
  BY <1>1, SameBlocksSelf DEF Reports

LEMMA DeadCode ==
    ASSUME NEW g, HasBlocks(g)
    PROVE  Reports(g, eliminate_dead_code(g))
<1>1. Reports(g, remove_unreachable(g)) /\ HasBlocks(remove_unreachable(g).f)
  BY RemoveUnreachable DEF Reports
<1>2. Reports(remove_unreachable(g).f, remove_unused_instructions(remove_unreachable(g).f))
  BY <1>1, RemoveUnused
<1> QED
  BY <1>1, <1>2, CombineReports DEF eliminate_dead_code, Then

LEMMA Simplify ==
    ASSUME NEW g, HasBlocks(g)
    PROVE  Reports(g, simplify(g))
<1> DEFINE p == eliminate_fallthrough_branches(g)
           q == Combine(p, merge_blocks(p.f))
<1>1. Reports(g, p) /\ HasBlocks(p.f)
  BY CutFallthrough DEF Reports
<1>2. Reports(p.f, merge_blocks(p.f))
  BY <1>1, MergeBlocks
<1>3. Reports(g, q) /\ HasBlocks(q.f)
  BY <1>1, <1>2, CombineReports DEF Reports
<1>4. Reports(q.f, remove_unreachable(q.f))
  BY <1>3, RemoveUnreachable
<1>5. simplify(g) = Combine(q, remove_unreachable(q.f))
  BY DEF simplify, Then
<1> HIDE DEF q
<1> QED
  BY <1>3, <1>4, <1>5, CombineReports

(* The one pass that changes what it does not report.                      *)
LEMMA CommonSubexprs ==
    ASSUME NEW g, HasBlocks(g)
    PROVE  LET p == eliminate_common_subexprs(g)
           IN  HasBlocks(p.f) /\ (~p.changed => SameButNops(g, p.f))
<1> DEFINE changed == \E b \in Live(g) :
               \E i \in DOMAIN g.blocks[b].insts : repeated(g.blocks[b].insts, i)
           blocks == [b \in DOMAIN g.blocks |->
                         IF b \in Live(g) THEN cse_block(b, g.blocks[b]) ELSE g.blocks[b]]
           h == [g EXCEPT !.blocks = blocks]
<1>1. eliminate_common_subexprs(g) = Pass(h, changed)
  BY Zenon DEF eliminate_common_subexprs, Blockwise
<1>2. HasBlocks(h) /\ h.blocks = blocks
  BY WithBlocks
<1>3. ASSUME ~changed, NEW b \in Live(g)
      PROVE  cse_block(b, g.blocks[b]) = WithoutNops(g.blocks[b])
  <2> DEFINE insts == g.blocks[b].insts
             staying == {i \in DOMAIN insts : insts[i].kind # "Nop" /\ ~repeated(insts, i)}
             meant == {i \in DOMAIN insts : insts[i].kind # "Nop"}
  <2>1. staying = meant
    BY <1>3
  <2>2. cse_block(b, g.blocks[b]) = [g.blocks[b] EXCEPT !.insts = Keeping(insts, staying)]
    BY Zenon DEF cse_block
  <2>3. WithoutNops(g.blocks[b]) = [g.blocks[b] EXCEPT !.insts = Keeping(insts, meant)]
    BY Zenon DEF WithoutNops
  <2> HIDE DEF staying, meant
  <2> QED
    BY <2>1, <2>2, <2>3
<1>4. ASSUME ~changed, NEW b \in DOMAIN g.blocks
      PROVE  blocks[b] \in {g.blocks[b], WithoutNops(g.blocks[b])}
  <2>1. blocks[b] = IF b \in Live(g) THEN cse_block(b, g.blocks[b]) ELSE g.blocks[b]
    OBVIOUS
  <2> QED
    BY <1>3, <1>4, <2>1
<1>5. DOMAIN blocks = DOMAIN g.blocks
  OBVIOUS
<1> HIDE DEF changed, blocks, h
<1>6. ~changed => SameButNops(g, h)
  BY <1>2, <1>4, <1>5 DEF SameButNops
<1> QED
  BY <1>1, <1>2, <1>6 DEF Pass

LEMMA EveryPass ==
    ASSUME NEW g, HasBlocks(g), NEW i \in DOMAIN PassNames
    PROVE  LET p == run_pass(g, PassNames[i])
           IN  HasBlocks(p.f) /\ (~p.changed => SameButNops(g, p.f))
<1> DEFINE p == run_pass(g, PassNames[i])
           Told(q) == HasBlocks(q.f) /\ (~q.changed => SameButNops(g, q.f))
<1>1. ASSUME NEW q, Reports(g, q) PROVE Told(q)
  BY <1>1, SameBlocksBut DEF Reports
<1>2. PassNames[i] \in {"dce", "const-prop", "fold", "cse", "simplify-cfg", "tail-call",
          "pattern-match", "type-inference", "escape-analysis", "native-specialize", "speculative"}
  BY DEF PassNames
<1>3. p \in {eliminate_dead_code(g), propagate_constants(g), fold_constants(g),
             eliminate_common_subexprs(g), simplify(g), analyze_tail_calls(g),
             optimize_patterns(g), infer_and_annotate(g), optimize_escapes(g),
             specialize(g), speculate(g)}
  BY <1>2 DEF run_pass
<1>4. Told(eliminate_common_subexprs(g))
  BY CommonSubexprs
<1>5. p = eliminate_common_subexprs(g) \/ Reports(g, p)
  BY <1>3, DeadCode, Simplify, Tails, Patterns, Annotations
<1> QED
  BY <1>1, <1>4, <1>5

-----------------------------------------------------------------------------
(* Every function on its way has blocks.                                   *)
BlocksInv == phase # "optimised" => HasBlocks(f)

LEMMA EmitKeepsBlocks ==
    ASSUME NEW g, NEW b, NEW inst, HasBlocks(g)
    PROVE  HasBlocks(emit(g, b, inst))
  BY DEF emit, HasBlocks

LEMMA InitBlocks == OptimizerInit => BlocksInv
<1>1. ASSUME NEW n PROVE HasBlocks(IRFunction(n))
  <2>1. IRFunction(n).blocks = [b \in {0} |-> BasicBlock]
    BY DEF IRFunction
  <2> QED
    BY <2>1, FS_Singleton DEF HasBlocks, IRFunction
<1>2. HasBlocks(Front)
  BY <1>1, EmitKeepsBlocks DEF Front, emit_with_result
<1>3. ASSUME NEW n, NEW code PROVE HasBlocks(translate_beam_function(n, code))
  BY <1>1 DEF translate_beam_function, HasBlocks
<1>4. \A g \in Graphs : HasBlocks(g)
  BY OptimizerAssumption DEF HasBlocks, WellBuilt, IsFunction
<1> QED
  BY <1>2, <1>3, <1>4 DEF OptimizerInit, Building, Ready, BlocksInv

LEMMA StepBlocks == BlocksInv /\ [OptimizerNext]_ovars => BlocksInv'
<1> SUFFICES ASSUME BlocksInv, [OptimizerNext]_ovars PROVE BlocksInv'
  OBVIOUS
<1>1. ASSUME NEW g, HasBlocks(g), Emit(g) PROVE BlocksInv'
  BY <1>1 DEF Emit, BlocksInv
<1>2. ASSUME phase = "build", EmitTwo PROVE BlocksInv'
  BY <1>1, <1>2, EmitKeepsBlocks DEF EmitTwo, emit_binary, BlocksInv
<1>3. ASSUME phase = "build", EmitOne \/ EmitNone \/ EmitNaming PROVE BlocksInv'
  BY <1>1, <1>3, EmitKeepsBlocks DEF EmitOne, EmitNone, EmitNaming, emit_with_result, BlocksInv
<1>4. ASSUME phase = "build", EmitEffect PROVE BlocksInv'
  BY <1>1, <1>4, EmitKeepsBlocks DEF EmitEffect, BlocksInv
<1>5. ASSUME phase = "build", Finish PROVE BlocksInv'
  BY <1>5, EmitKeepsBlocks DEF Finish, BlocksInv
<1>6. ASSUME NEW i \in DOMAIN PassNames, RunPass(PassNames[i]) PROVE BlocksInv'
  BY <1>6, EveryPass DEF RunPass, Take, BlocksInv
<1>7. ASSUME OptimizeModule PROVE BlocksInv'
  BY <1>7 DEF OptimizeModule, BlocksInv
<1>8. ASSUME UNCHANGED ovars PROVE BlocksInv'
  BY <1>8 DEF ovars, BlocksInv
<1> QED
  BY <1>2, <1>3, <1>4, <1>5, <1>6, <1>7, <1>8 DEF OptimizerNext

THEOREM OptimizerBlocks == OptimizerSpec => []BlocksInv
  BY InitBlocks, StepBlocks, PTL DEF OptimizerSpec

(* No pass changes a function and keeps silent, but for the Nops cse drops. *)
THEOREM OptimizerChangesReported == OptimizerSpec => ChangesReported
<1>1. ASSUME BlocksInv, OptimizerNext
      PROVE  phase = "optimise" /\ phase' = "optimise" /\ ~told' => SameButNops(f, f')
  <2> SUFFICES ASSUME phase = "optimise", phase' = "optimise", ~told' PROVE SameButNops(f, f')
    OBVIOUS
  <2>1. PICK i \in DOMAIN PassNames : RunPass(PassNames[i])
    BY <1>1 DEF OptimizerNext, OptimizeModule
  <2>2. HasBlocks(f)
    BY <1>1 DEF BlocksInv
  <2> QED
    BY <2>1, <2>2, EveryPass DEF RunPass, Take
<1>2. BlocksInv /\ [OptimizerNext]_ovars =>
        [phase = "optimise" /\ phase' = "optimise" /\ ~told' => SameButNops(f, f')]_ovars
  BY <1>1
<1> QED
  BY <1>2, OptimizerBlocks, PTL DEF OptimizerSpec, ChangesReported

-----------------------------------------------------------------------------
(* Keeping: what it returns are elements of the sequence, in their order.  *)

Keeps(s, at, n, q) ==
    q[0] = <<>> /\ \A k \in 1 .. n : q[k] = IF k \in at THEN Append(q[k - 1], s[k]) ELSE q[k - 1]

LEMMA KeepsExist ==
    ASSUME NEW s, NEW at, NEW n \in Nat
    PROVE  \E q : Keeps(s, at, n, q)
<1> DEFINE S == {m \in Nat : \E q : Keeps(s, at, m, q)}
<1>1. 0 \in S
  <2>1. Keeps(s, at, 0, [i \in {0} |-> <<>>])
    BY DEF Keeps
  <2> QED
    BY <2>1
<1>2. ASSUME NEW m \in 1 .. n, m - 1 \in S PROVE m \in S
  <2>1. PICK q : Keeps(s, at, m - 1, q)
    BY <1>2
  <2> DEFINE one == IF m \in at THEN Append(q[m - 1], s[m]) ELSE q[m - 1]
             r == [i \in 0 .. m |-> IF i = m THEN one ELSE q[i]]
  <2>2. r[0] = <<>>
    BY <2>1 DEF Keeps
  <2>3. ASSUME NEW i \in 1 .. m
        PROVE  r[i] = IF i \in at THEN Append(r[i - 1], s[i]) ELSE r[i - 1]
    <3>1. r[i - 1] = q[i - 1]
      OBVIOUS
    <3>2. i # m => i \in 1 .. m - 1 /\ r[i] = q[i]
      OBVIOUS
    <3>3. r[m] = one
      OBVIOUS
    <3> QED
      BY <2>1, <3>1, <3>2, <3>3 DEF Keeps
  <2>4. Keeps(s, at, m, r)
    BY <2>2, <2>3 DEF Keeps
  <2> QED
    BY <2>4
<1> HIDE DEF S
<1>3. 0 .. n \subseteq S
  BY <1>1, <1>2, CountUp
<1>4. n \in 0 .. n
  OBVIOUS
<1> QED
  BY <1>3, <1>4 DEF S

LEMMA KeepingRuns ==
    ASSUME NEW s, NEW at, Len(s) \in Nat
    PROVE  \E q : Keeps(s, at, Len(s), q) /\ Keeping(s, at) = q[Len(s)]
<1> DEFINE n == Len(s)
           run(q) == [k \in 0 .. n |->
                         IF k = 0 THEN <<>>
                         ELSE IF k \in at THEN Append(q[k - 1], s[k]) ELSE q[k - 1]]
           kept == CHOOSE q : q = run(q)
<1>1. n \in Nat
  OBVIOUS
<1>2. Keeping(s, at) = kept[n]
  BY Zenon DEF Keeping
<1> HIDE DEF n
<1>3. PICK p : Keeps(s, at, n, p)
  BY <1>1, KeepsExist
<1> DEFINE q == [k \in 0 .. n |-> p[k]]
<1>4. q = run(q)
  <2>1. ASSUME NEW k \in 0 .. n PROVE q[k] = run(q)[k]
    <3>1. k # 0 => k \in 1 .. n /\ k - 1 \in 0 .. n
      BY <1>1
    <3> QED
      BY <1>3, <3>1 DEF Keeps
  <2> QED
    BY <2>1
<1>5. kept = run(kept)
  BY <1>4, Zenon
<1> HIDE DEF kept
<1>6. Keeps(s, at, n, kept)
  <2>1. kept[0] = <<>>
    BY <1>1, <1>5
  <2>2. ASSUME NEW k \in 1 .. n
        PROVE  kept[k] = IF k \in at THEN Append(kept[k - 1], s[k]) ELSE kept[k - 1]
    <3>1. k # 0 /\ k \in 0 .. n
      BY <1>1
    <3>2. kept[k] = run(kept)[k]
      BY <1>5
    <3> QED
      BY <3>1, <3>2
  <2> QED
    BY <2>1, <2>2 DEF Keeps
<1> QED
  BY <1>2, <1>6 DEF n

\* Position i of t is position p[i] of s, among the first n.
Picks(s, t, p, n) ==
    /\ t \in Seq(Range(s))
    /\ p \in [1 .. Len(t) -> 1 .. n]
    /\ \A i \in 1 .. Len(t) : t[i] = s[p[i]]
    /\ \A i, j \in 1 .. Len(t) : i < j => p[i] < p[j]

LEMMA KeepingPicks ==
    ASSUME NEW s, s \in Seq(Range(s)), NEW at
    PROVE  \E p : /\ Picks(s, Keeping(s, at), p, Len(s))
                  /\ \A i \in 1 .. Len(Keeping(s, at)) : p[i] \in at
                  /\ Len(s) \in at /\ s # <<>> =>
                        /\ Keeping(s, at) # <<>>
                        /\ p[Len(Keeping(s, at))] = Len(s)
<1>1. Len(s) \in Nat /\ DOMAIN s = 1 .. Len(s)
  BY LenProperties
<1>2. PICK q : Keeps(s, at, Len(s), q) /\ Keeping(s, at) = q[Len(s)]
  BY <1>1, KeepingRuns
<1> DEFINE Picked(t, p, n) ==
               /\ Picks(s, t, p, n)
               /\ \A i \in 1 .. Len(t) : p[i] \in at
               /\ n \in at /\ n # 0 => t # <<>> /\ p[Len(t)] = n
           S == {n \in 0 .. Len(s) : \E p : Picked(q[n], p, n)}
<1>3. 0 \in S
  <2>1. q[0] = <<>> /\ Len(<<>>) = 0 /\ <<>> \in Seq(Range(s))
    BY <1>2 DEF Keeps
  <2>2. Picked(<<>>, [i \in {} |-> 0], 0)
    BY <2>1 DEF Picks
  <2> QED
    BY <1>1, <2>1, <2>2
<1>4. ASSUME NEW n \in 1 .. Len(s), n - 1 \in S PROVE n \in S
  <2>1. PICK p : Picked(q[n - 1], p, n - 1)
    BY <1>4
  <2>2. n \in 0 .. Len(s) /\ n \in Nat \ {0} /\ n - 1 \in Nat
    BY <1>1
  <2> DEFINE t == q[n - 1]
  <2>3. t \in Seq(Range(s)) /\ Len(t) \in Nat
    BY <2>1, LenProperties DEF Picks
  <2>4. CASE n \notin at
    <3>1. q[n] = t
      BY <1>2, <2>4 DEF Keeps
    <3>2. Picks(s, t, p, n)
      BY <1>1, <2>1, <2>2, <2>3 DEF Picks
    <3>3. Picked(q[n], p, n)
      BY <2>1, <2>4, <3>1, <3>2
    <3> QED
      BY <2>2, <3>3
  <2>5. CASE n \in at
    <3>1. q[n] = Append(t, s[n])
      BY <1>2, <2>5 DEF Keeps
    <3>2. s[n] \in Range(s)
      BY <1>1 DEF Range
    <3> DEFINE u == Append(t, s[n])
               r == [i \in 1 .. Len(t) + 1 |-> IF i = Len(t) + 1 THEN n ELSE p[i]]
    <3>3. /\ u \in Seq(Range(s)) /\ Len(u) = Len(t) + 1 /\ u # <<>>
          /\ \A i \in 1 .. Len(t) : u[i] = t[i]
          /\ u[Len(t) + 1] = s[n]
      BY <2>3, <3>2, AppendProperties
    <3> HIDE DEF t, u
    <3>4. /\ p \in [1 .. Len(t) -> 1 .. n - 1]
          /\ \A i \in 1 .. Len(t) : t[i] = s[p[i]] /\ p[i] \in at
          /\ \A i, j \in 1 .. Len(t) : i < j => p[i] < p[j]
      BY <2>1 DEF Picks, t
    <3>5. r \in [1 .. Len(u) -> 1 .. n]
      BY <2>2, <2>3, <3>3, <3>4
    <3>6. ASSUME NEW i \in 1 .. Len(u) PROVE u[i] = s[r[i]] /\ r[i] \in at
      <4>1. i # Len(t) + 1 => i \in 1 .. Len(t)
        BY <2>3, <3>3
      <4> QED
        BY <2>5, <3>3, <3>4, <4>1
    <3>7. ASSUME NEW i \in 1 .. Len(u), NEW j \in 1 .. Len(u), i < j PROVE r[i] < r[j]
      <4>1. i \in 1 .. Len(t) /\ r[i] = p[i] /\ p[i] < n
        BY <2>2, <2>3, <3>3, <3>4, <3>7
      <4>2. j # Len(t) + 1 => j \in 1 .. Len(t) /\ r[j] = p[j]
        BY <2>3, <3>3
      <4> QED
        BY <3>3, <3>4, <3>7, <4>1, <4>2
    <3>8. Picks(s, u, r, n)
      BY <3>3, <3>5, <3>6, <3>7 DEF Picks
    <3>9. r[Len(u)] = n
      BY <2>3, <3>3
    <3>10. Picked(u, r, n)
      BY <3>3, <3>6, <3>8, <3>9
    <3> QED
      BY <2>2, <3>1, <3>10 DEF u
  <2> QED
    BY <2>4, <2>5
<1> HIDE DEF S
<1>5. Len(s) \in S
  <2>1. 0 .. Len(s) \subseteq S
    BY <1>1, <1>3, <1>4, CountUp
  <2> QED
    BY <1>1, <2>1
<1>6. PICK p : Picked(q[Len(s)], p, Len(s))
  BY <1>5 DEF S
<1>7. s # <<>> => Len(s) # 0
  BY EmptySeq
<1> QED
  BY <1>2, <1>6, <1>7

-----------------------------------------------------------------------------
(* Functions whose reached blocks the passes can be trusted with: what the *)
(* edges say is what the code does, and nothing there can be turned into a *)
(* jump or fall through.                                                   *)

IsFramed(blocks) ==
    /\ \E m \in Nat : DOMAIN blocks = 0 .. m
    /\ \A b \in DOMAIN blocks : /\ DOMAIN blocks[b] = DOMAIN BasicBlock
                                /\ blocks[b].succs \in Seq(DOMAIN blocks \ {0})

\* Only the end of a block jumps, unless it leaves the function anyway.
JumpsLast(insts) ==
    \/ \A i \in DOMAIN insts : i # Len(insts) => insts[i].to = <<>>
    \/ insts # <<>> /\ is_terminator(insts[Len(insts)]) /\ insts[Len(insts)].to = <<>>
TidyBlock(block) ==
    IsCode(block.insts) /\ JumpsLast(block.insts) /\ Range(block.succs) = Targets(block)

Lasting(inst, R) ==
    /\ inst.kind = "TupleGet" => inst.ns[1] >= FastIndex
    /\ inst.kind = "Br" => inst.to[1] - 1 \notin R
Apart(x, y) ==
    x.kind \in Range(ChainTests) /\ y.kind \in Range(ChainTests)
        => Range(x.ops) \intersect Range(y.ops) = {}

\* R has the blocks that can be reached.
Closed(blocks, R) ==
    /\ 0 \in R /\ R \subseteq DOMAIN blocks
    /\ \A b \in R : Range(blocks[b].succs) \subseteq R
Good(blocks, R) ==
    /\ IsFramed(blocks) /\ Closed(blocks, R)
    /\ \A b \in R : /\ TidyBlock(blocks[b])
                    /\ Len(blocks[b].succs) = 1 => blocks[b].succs[1] > b
                    /\ \A i \in DOMAIN blocks[b].insts : Lasting(blocks[b].insts[i], R)
    /\ \A b, c \in R : \A i \in DOMAIN blocks[b].insts, j \in DOMAIN blocks[c].insts :
           b # c \/ i # j => Apart(blocks[b].insts[i], blocks[c].insts[j])

LEMMA ReachedLeast ==
    ASSUME NEW g, NEW S, Closed(g.blocks, S)
    PROVE  mark_reachable(g) \subseteq S
  BY DEF mark_reachable, Closed

LEMMA ReachedClosed ==
    ASSUME NEW g, IsFramed(g.blocks)
    PROVE  Closed(g.blocks, mark_reachable(g))
<1> DEFINE R == mark_reachable(g)
           all == {S \in SUBSET DOMAIN g.blocks :
                      0 \in S /\ \A b \in S : Range(g.blocks[b].succs) \subseteq S}
<1>1. R = {b \in DOMAIN g.blocks : \A S \in all : b \in S}
  BY DEF mark_reachable
<1>2. 0 \in DOMAIN g.blocks
  BY DEF IsFramed
<1>3. \A b \in DOMAIN g.blocks : Range(g.blocks[b].succs) \subseteq DOMAIN g.blocks
  BY RangeType DEF IsFramed
<1> HIDE DEF R
<1>4. 0 \in R /\ R \subseteq DOMAIN g.blocks
  BY <1>1, <1>2
<1>5. ASSUME NEW b \in R, NEW c \in Range(g.blocks[b].succs) PROVE c \in R
  <2>1. c \in DOMAIN g.blocks
    BY <1>3, <1>4, <1>5
  <2>2. ASSUME NEW S \in all PROVE c \in S
    BY <1>1, <1>5, <2>2
  <2> QED
    BY <1>1, <2>1, <2>2
<1> QED
  BY <1>4, <1>5 DEF R, Closed

(* Every reached block but the entry is reached from a reached one.        *)
LEMMA ReachedFrom ==
    ASSUME NEW g, IsFramed(g.blocks), NEW b \in mark_reachable(g), b # 0
    PROVE  \E c \in mark_reachable(g) : b \in Range(g.blocks[c].succs)
<1> DEFINE R == mark_reachable(g)
<1> HIDE DEF R
<1> SUFFICES ASSUME \A c \in R : b \notin Range(g.blocks[c].succs) PROVE FALSE
  BY DEF R
<1>1. Closed(g.blocks, R)
  BY ReachedClosed DEF R
<1>2. Closed(g.blocks, R \ {b})
  BY <1>1 DEF Closed
<1>3. R \subseteq R \ {b}
  BY <1>2, ReachedLeast DEF R
<1> QED
  BY <1>3 DEF R

LEMMA GoodReached ==
    ASSUME NEW g, NEW S, Good(g.blocks, S)
    PROVE  Good(g.blocks, mark_reachable(g))
<1> DEFINE R == mark_reachable(g)
<1>1. R \subseteq S
  BY ReachedLeast DEF Good
<1>2. IsFramed(g.blocks) /\ Closed(g.blocks, R)
  BY ReachedClosed DEF Good
<1> HIDE DEF R
<1>3. \A inst : Lasting(inst, S) => Lasting(inst, R)
  BY <1>1 DEF Lasting
<1>4. Good(g.blocks, R)
  BY <1>1, <1>2, <1>3 DEF Good
<1> QED
  BY <1>4 DEF R

LEMMA CodeFacts ==
    ASSUME NEW s, IsCode(s)
    PROVE  /\ Len(s) \in Nat /\ DOMAIN s = 1 .. Len(s)
           /\ s = <<>> <=> Len(s) = 0
           /\ \A i \in 1 .. Len(s) : IsInst(s[i])
           /\ s \in Seq(Range(s))
  BY LenProperties, EmptySeq DEF IsCode

-----------------------------------------------------------------------------
(* Passes that take instructions away, or mark calls as tail calls.        *)

Marked(x, y) == x.kind = "Call" /\ y = [x EXCEPT !.kind = "TailCall"]

\* t is s without some instructions, but for a last one that ends the block.
Thinned(s, t) ==
    /\ IsCode(t)
    /\ \E p \in [1 .. Len(t) -> 1 .. Len(s)] :
        /\ \A i, j \in 1 .. Len(t) : i < j => p[i] < p[j]
        /\ \A i \in 1 .. Len(t) :
               t[i] = s[p[i]] \/ (p[i] # Len(s) /\ Marked(s[p[i]], t[i]))
        /\ s # <<>> /\ is_terminator(s[Len(s)]) => t # <<>> /\ p[Len(t)] = Len(s)

LEMMA MarkedInst ==
    ASSUME NEW x, IsInst(x), NEW y, Marked(x, y)
    PROVE  /\ IsInst(y) /\ y.kind = "TailCall"
           /\ y.res = x.res /\ y.ops = x.ops /\ y.ids = x.ids /\ y.to = x.to
<1>1. DOMAIN x = {"kind", "res", "ops", "ids", "ns", "to", "regs", "ty"}
  BY DEF IsInst, Inst
<1>2. /\ DOMAIN y = DOMAIN x /\ y.kind = "TailCall" /\ y.res = x.res /\ y.ops = x.ops
      /\ y.ids = x.ids /\ y.to = x.to
  BY <1>1 DEF Marked
<1>3. x.kind = "Call"
  BY DEF Marked
<1>4. IsInst(y)
  BY <1>2, <1>3 DEF IsInst, JumpKinds, NamingKinds
<1> QED
  BY <1>2, <1>4

LEMMA ThinnedSelf ==
    ASSUME NEW s, IsCode(s)
    PROVE  Thinned(s, s)
<1> DEFINE p == [i \in 1 .. Len(s) |-> i]
<1>1. Len(s) \in Nat /\ (s # <<>> => Len(s) # 0)
  BY CodeFacts
<1>2. p \in [1 .. Len(s) -> 1 .. Len(s)] /\ (s # <<>> => p[Len(s)] = Len(s))
  BY <1>1
<1> QED
  BY <1>1, <1>2 DEF Thinned

LEMMA KeepingThins ==
    ASSUME NEW s, IsCode(s), NEW at,
           s # <<>> /\ is_terminator(s[Len(s)]) => Len(s) \in at
    PROVE  Thinned(s, Keeping(s, at))
<1> DEFINE t == Keeping(s, at)
<1>1. /\ Len(s) \in Nat /\ DOMAIN s = 1 .. Len(s)
      /\ \A i \in 1 .. Len(s) : IsInst(s[i])
      /\ s \in Seq(Range(s))
  BY CodeFacts
<1>2. PICK p : /\ Picks(s, t, p, Len(s))
               /\ Len(s) \in at /\ s # <<>> => t # <<>> /\ p[Len(t)] = Len(s)
  BY <1>1, KeepingPicks
<1> HIDE DEF t
<1>3. t \in Seq(Range(s)) /\ Len(t) \in Nat /\ DOMAIN t = 1 .. Len(t)
  BY <1>2, LenProperties DEF Picks
<1>4. IsCode(t)
  BY <1>1, <1>2, <1>3, SeqOfRange DEF IsCode, Picks
<1> QED
  BY <1>2, <1>4 DEF Thinned, Picks, t

LEMMA ThinnedTidy ==
    ASSUME NEW block, NEW thin, TidyBlock(block), thin.succs = block.succs,
           Thinned(block.insts, thin.insts)
    PROVE  TidyBlock(thin)
<1> DEFINE s == block.insts
           t == thin.insts
<1>1. IsCode(s) /\ JumpsLast(s) /\ Range(block.succs) = Targets(block)
  BY DEF TidyBlock
<1>2. /\ IsCode(t)
      /\ Len(s) \in Nat /\ Len(t) \in Nat /\ DOMAIN s = 1 .. Len(s) /\ DOMAIN t = 1 .. Len(t)
      /\ (s = <<>> <=> Len(s) = 0) /\ (t = <<>> <=> Len(t) = 0)
  BY <1>1, CodeFacts DEF Thinned
<1>3. PICK p \in [1 .. Len(t) -> 1 .. Len(s)] :
        /\ \A i, j \in 1 .. Len(t) : i < j => p[i] < p[j]
        /\ \A i \in 1 .. Len(t) :
               t[i] = s[p[i]] \/ (p[i] # Len(s) /\ Marked(s[p[i]], t[i]))
        /\ s # <<>> /\ is_terminator(s[Len(s)]) => t # <<>> /\ p[Len(t)] = Len(s)
  BY Zenon DEF Thinned
<1>4. /\ Targets(block) = IF s # <<>> /\ is_terminator(s[Len(s)]) THEN Range(s[Len(s)].to) ELSE {}
      /\ Targets(thin) = IF t # <<>> /\ is_terminator(t[Len(t)]) THEN Range(t[Len(t)].to) ELSE {}
  BY Zenon DEF Targets, is_terminated, Last
<1>5. TidyBlock(thin) <=> JumpsLast(t) /\ Range(block.succs) = Targets(thin)
  BY <1>2 DEF TidyBlock
<1> HIDE DEF s, t
<1>6. ASSUME NEW i \in 1 .. Len(t) PROVE t[i].to = s[p[i]].to
  <2>1. IsInst(s[p[i]])
    BY <1>1, <1>2 DEF IsCode
  <2> QED
    BY <1>3, <2>1, MarkedInst
<1>7. ASSUME NEW i \in 1 .. Len(t), NEW j \in 1 .. Len(t), i < j
      PROVE  p[i] \in DOMAIN s /\ p[i] # Len(s)
  <2>1. p[i] \in 1 .. Len(s) /\ p[j] \in 1 .. Len(s)
    OBVIOUS
  <2>2. p[i] < p[j]
    BY <1>3, <1>7
  <2> QED
    BY <1>2, <2>1, <2>2
<1>8. CASE s # <<>> /\ is_terminator(s[Len(s)])
  <2>1. t # <<>> /\ Len(t) \in 1 .. Len(t) /\ p[Len(t)] = Len(s) /\ t[Len(t)] = s[Len(s)]
    BY <1>2, <1>3, <1>8
  <2>2. JumpsLast(t)
    <3>1. CASE \A i \in DOMAIN s : i # Len(s) => s[i].to = <<>>
      <4>1. ASSUME NEW i \in 1 .. Len(t), i # Len(t) PROVE t[i].to = <<>>
        <5>1. i < Len(t)
          <6> DEFINE m == Len(t)
          <6>1. m \in Nat /\ i \in 1 .. m /\ i # m
            BY <1>2, <4>1
          <6> HIDE DEF m
          <6>2. i < m
            BY <6>1
          <6> QED
            BY <6>2 DEF m
        <5>2. p[i] \in DOMAIN s /\ p[i] # Len(s)
          BY <1>7, <2>1, <5>1
        <5>3. t[i].to = s[p[i]].to
          BY <1>6
        <5> QED
          BY <3>1, <5>2, <5>3
      <4> QED
        BY <1>2, <4>1 DEF JumpsLast
    <3>2. CASE s[Len(s)].to = <<>>
      BY <1>8, <2>1, <3>2 DEF JumpsLast
    <3> QED
      BY <1>1, <3>1, <3>2 DEF JumpsLast
  <2> QED
    BY <1>1, <1>4, <1>5, <1>8, <2>1, <2>2
<1>9. CASE ~(s # <<>> /\ is_terminator(s[Len(s)]))
  <2>1. \A i \in DOMAIN s : i # Len(s) => s[i].to = <<>>
    BY <1>1, <1>9 DEF JumpsLast
  <2>2. ASSUME NEW i \in 1 .. Len(t), i # Len(t) PROVE t[i].to = <<>>
    <3>1. Len(t) \in Nat
      BY <1>2
    <3>2. Len(t) \in 1 .. Len(t) /\ i < Len(t)
      BY <2>2, <3>1
    <3>3. p[i] \in DOMAIN s /\ p[i] # Len(s)
      BY <1>7, <3>2
    <3>4. t[i].to = s[p[i]].to
      BY <1>6
    <3> QED
      BY <2>1, <3>3, <3>4
  <2>3. ASSUME t # <<>>, is_terminator(t[Len(t)]) PROVE t[Len(t)].to = <<>>
    <3>1. Len(t) \in 1 .. Len(t) /\ p[Len(t)] \in 1 .. Len(s) /\ s # <<>>
      BY <1>2, <1>3, <2>3
    <3>2. p[Len(t)] # Len(s)
      BY <1>3, <1>9, <2>3, <3>1
    <3> QED
      BY <1>2, <1>6, <2>1, <3>1, <3>2
  <2>4. Targets(thin) = {}
    BY <1>4, <2>3, RangeEmpty
  <2>5. JumpsLast(t)
    BY <1>2, <2>2 DEF JumpsLast
  <2> QED
    BY <1>1, <1>4, <1>5, <1>9, <2>4, <2>5
<1> QED
  BY <1>8, <1>9

(* A pass that thins the reached blocks and keeps their edges.             *)
LEMMA ThinnedGood ==
    ASSUME NEW old, NEW new, NEW R, Good(old, R),
           DOMAIN new = DOMAIN old, IsFramed(new),
           \A b \in R : new[b].succs = old[b].succs /\ Thinned(old[b].insts, new[b].insts)
    PROVE  Good(new, R)
<1>1. Closed(new, R)
  BY DEF Good, Closed
<1>2. ASSUME NEW b \in R
      PROVE  TidyBlock(new[b]) /\ (Len(new[b].succs) = 1 => new[b].succs[1] > b)
  BY <1>2, ThinnedTidy DEF Good
<1>3. ASSUME NEW b \in R
      PROVE  /\ DOMAIN new[b].insts = 1 .. Len(new[b].insts)
             /\ DOMAIN old[b].insts = 1 .. Len(old[b].insts)
             /\ Len(new[b].insts) \in Nat
             /\ \E p \in [DOMAIN new[b].insts -> DOMAIN old[b].insts] :
                    /\ \A i, j \in DOMAIN new[b].insts : i < j => p[i] < p[j]
                    /\ \A i \in DOMAIN new[b].insts :
                           \/ new[b].insts[i] = old[b].insts[p[i]]
                           \/ new[b].insts[i].kind = "TailCall"
  <2>1. DOMAIN new[b].insts = 1 .. Len(new[b].insts) /\ Len(new[b].insts) \in Nat
    BY <1>3, CodeFacts DEF Thinned
  <2>2. DOMAIN old[b].insts = 1 .. Len(old[b].insts)
    BY <1>3, CodeFacts DEF Good, TidyBlock
  <2> DEFINE s == old[b].insts
             t == new[b].insts
  <2>3. PICK p \in [1 .. Len(t) -> 1 .. Len(s)] :
            /\ \A i, j \in 1 .. Len(t) : i < j => p[i] < p[j]
            /\ \A i \in 1 .. Len(t) :
                   t[i] = s[p[i]] \/ (p[i] # Len(s) /\ Marked(s[p[i]], t[i]))
    BY <1>3, Zenon DEF Thinned
  <2>4. \A i \in 1 .. Len(s) : IsInst(s[i])
    BY <1>3, CodeFacts DEF Good, TidyBlock
  <2> HIDE DEF s, t
  <2>5. /\ p \in [DOMAIN t -> DOMAIN s]
        /\ \A i, j \in DOMAIN t : i < j => p[i] < p[j]
        /\ \A i \in DOMAIN t : t[i] = s[p[i]] \/ t[i].kind = "TailCall"
    BY <2>1, <2>2, <2>3, <2>4, MarkedInst DEF s, t
  <2> QED
    BY <2>1, <2>2, <2>5 DEF s, t
<1>4. ASSUME NEW b \in R, NEW i \in DOMAIN new[b].insts PROVE Lasting(new[b].insts[i], R)
  <2>1. PICK j \in DOMAIN old[b].insts :
            new[b].insts[i] = old[b].insts[j] \/ new[b].insts[i].kind = "TailCall"
    BY <1>3, <1>4
  <2> QED
    BY <2>1 DEF Good, Lasting
<1>5. "TailCall" \notin Range(ChainTests)
  BY DEF ChainTests, Range
<1>6. ASSUME NEW b \in R, NEW c \in R,
             NEW i \in DOMAIN new[b].insts, NEW j \in DOMAIN new[c].insts,
             b # c \/ i # j
      PROVE  Apart(new[b].insts[i], new[c].insts[j])
  <2>1. CASE new[b].insts[i].kind = "TailCall" \/ new[c].insts[j].kind = "TailCall"
    BY <1>5, <2>1 DEF Apart
  <2>2. CASE ~(new[b].insts[i].kind = "TailCall" \/ new[c].insts[j].kind = "TailCall")
    <3>1. PICK p \in [DOMAIN new[b].insts -> DOMAIN old[b].insts] :
              /\ \A k, l \in DOMAIN new[b].insts : k < l => p[k] < p[l]
              /\ \A k \in DOMAIN new[b].insts :
                     \/ new[b].insts[k] = old[b].insts[p[k]]
                     \/ new[b].insts[k].kind = "TailCall"
      BY <1>3
    <3>2. PICK q \in [DOMAIN new[c].insts -> DOMAIN old[c].insts] :
              /\ \A k, l \in DOMAIN new[c].insts : k < l => q[k] < q[l]
              /\ \A k \in DOMAIN new[c].insts :
                     \/ new[c].insts[k] = old[c].insts[q[k]]
                     \/ new[c].insts[k].kind = "TailCall"
      BY <1>3
    <3>3. CASE b # c
      <4>1. Apart(old[b].insts[p[i]], old[c].insts[q[j]])
        BY <1>6, <3>3 DEF Good
      <4> QED
        BY <2>2, <3>1, <3>2, <4>1
    <3>4. CASE b = c
      <4>1. i < j \/ j < i
        BY <1>3, <1>6, <3>4
      <4>2. p[i] # p[j] /\ p[i] \in DOMAIN old[b].insts /\ p[j] \in DOMAIN old[b].insts
        BY <1>3, <1>6, <3>1, <3>4, <4>1
      <4>3. Apart(old[b].insts[p[i]], old[b].insts[p[j]])
        BY <4>2 DEF Good
      <4> QED
        BY <2>2, <3>1, <3>4, <4>3
    <3> QED
      BY <3>3, <3>4
  <2> QED
    BY <2>1, <2>2
<1> QED
  BY <1>1, <1>2, <1>4, <1>6 DEF Good

-----------------------------------------------------------------------------
(* What every pass keeps.                                                  *)

Tidy(g) == HasBlocks(g) /\ Good(g.blocks, mark_reachable(g))

LEMMA FramedAgain ==
    ASSUME NEW old, NEW new, IsFramed(old), DOMAIN new = DOMAIN old,
           \A b \in DOMAIN old : /\ DOMAIN new[b] = DOMAIN old[b]
                                 /\ new[b].succs \in {<<>>, old[b].succs}
    PROVE  IsFramed(new)
<1>1. \A b \in DOMAIN old : <<>> \in Seq(DOMAIN old \ {0})
  BY EmptySeq
<1> QED
  BY <1>1 DEF IsFramed

(* A pass that thins the blocks keeps them tidy.                           *)
LEMMA ThinnedPass ==
    ASSUME NEW g, Tidy(g), NEW blocks, DOMAIN blocks = DOMAIN g.blocks,
           \A b \in DOMAIN g.blocks : /\ DOMAIN blocks[b] = DOMAIN g.blocks[b]
                                      /\ blocks[b].succs \in {<<>>, g.blocks[b].succs},
           \A b \in mark_reachable(g) :
               /\ blocks[b].succs = g.blocks[b].succs
               /\ Thinned(g.blocks[b].insts, blocks[b].insts)
    PROVE  Tidy([g EXCEPT !.blocks = blocks])
<1> DEFINE h == [g EXCEPT !.blocks = blocks]
           R == mark_reachable(g)
<1>1. HasBlocks(h) /\ h.blocks = blocks
  BY WithBlocks DEF Tidy
<1> HIDE DEF h, R
<1>2. Good(g.blocks, R)
  BY DEF Tidy, R
<1>3. IsFramed(blocks)
  BY <1>2, FramedAgain DEF Good
<1>4. Good(blocks, R)
  BY <1>2, <1>3, ThinnedGood DEF R
<1>5. Tidy(h)
  BY <1>1, <1>4, GoodReached DEF Tidy
<1> QED
  BY <1>5 DEF h

LEMMA ReachedTidy ==
    ASSUME NEW g, Tidy(g), NEW b \in mark_reachable(g)
    PROVE  b \in DOMAIN g.blocks /\ TidyBlock(g.blocks[b]) /\ IsCode(g.blocks[b].insts)
  BY DEF Tidy, Good, Closed, TidyBlock

LEMMA UnreachableTidy ==
    ASSUME NEW g, Tidy(g)
    PROVE  Tidy(remove_unreachable(g).f)
<1> DEFINE R == mark_reachable(g)
           dead == Live(g) \ R
           changed == dead # {}
           swept(b, block) ==
               IF b \in dead THEN [block EXCEPT !.reachable = FALSE, !.insts = <<>>, !.succs = <<>>]
               ELSE block
           blocks == [b \in DOMAIN g.blocks |->
                         IF b \in Live(g) THEN swept(b, g.blocks[b]) ELSE g.blocks[b]]
<1>1. remove_unreachable(g).f = [g EXCEPT !.blocks = blocks]
  BY Zenon DEF remove_unreachable, Blockwise, Pass
<1>2. DOMAIN blocks = DOMAIN g.blocks
  OBVIOUS
<1>3. ASSUME NEW b \in DOMAIN g.blocks
      PROVE  /\ DOMAIN blocks[b] = DOMAIN g.blocks[b]
             /\ blocks[b].succs \in {<<>>, g.blocks[b].succs}
  <2>1. "succs" \in DOMAIN g.blocks[b]
    BY <1>3 DEF Tidy, Good, IsFramed, BasicBlock
  <2> QED
    BY <1>3, <2>1
<1>4. ASSUME NEW b \in R
      PROVE  /\ blocks[b].succs = g.blocks[b].succs
             /\ Thinned(g.blocks[b].insts, blocks[b].insts)
  <2>1. b \in DOMAIN g.blocks /\ IsCode(g.blocks[b].insts)
    BY <1>4, ReachedTidy
  <2>2. blocks[b] = g.blocks[b]
    BY <2>1, <1>4
  <2> QED
    BY <2>1, <2>2, ThinnedSelf
<1> HIDE DEF blocks
<1>5. Tidy([g EXCEPT !.blocks = blocks])
  BY <1>2, <1>3, <1>4, ThinnedPass
<1> QED
  BY <1>1, <1>5

(* A pass that keeps some of the instructions of a block, the terminator   *)
(* among them.                                                             *)
LEMMA SweptTidy ==
    ASSUME NEW g, Tidy(g), NEW blocks, NEW at,
           DOMAIN blocks = DOMAIN g.blocks,
           \A b \in DOMAIN g.blocks :
               blocks[b] = IF b \in Live(g)
                           THEN [g.blocks[b] EXCEPT !.insts = Keeping(@, at[b])]
                           ELSE g.blocks[b],
           \A b \in mark_reachable(g) :
               LET insts == g.blocks[b].insts
               IN  insts # <<>> /\ is_terminator(insts[Len(insts)]) => Len(insts) \in at[b]
    PROVE  Tidy([g EXCEPT !.blocks = blocks])
<1>1. ASSUME NEW b \in DOMAIN g.blocks
      PROVE  /\ DOMAIN blocks[b] = DOMAIN g.blocks[b]
             /\ blocks[b].succs = g.blocks[b].succs
             /\ blocks[b].insts = IF b \in Live(g) THEN Keeping(g.blocks[b].insts, at[b])
                                  ELSE g.blocks[b].insts
  <2>1. DOMAIN g.blocks[b] = {"insts", "preds", "succs", "reachable"}
    BY <1>1 DEF Tidy, Good, IsFramed, BasicBlock
  <2> QED
    BY <1>1, <2>1
<1>2. ASSUME NEW b \in mark_reachable(g)
      PROVE  Thinned(g.blocks[b].insts, blocks[b].insts)
  <2>1. b \in DOMAIN g.blocks /\ IsCode(g.blocks[b].insts)
    BY <1>2, ReachedTidy
  <2>2. Thinned(g.blocks[b].insts, g.blocks[b].insts)
    BY <2>1, ThinnedSelf
  <2>3. Thinned(g.blocks[b].insts, Keeping(g.blocks[b].insts, at[b]))
    BY <1>2, <2>1, KeepingThins
  <2> QED
    BY <1>1, <2>1, <2>2, <2>3
<1>3. \A b \in mark_reachable(g) : blocks[b].succs = g.blocks[b].succs
  BY <1>1, ReachedTidy
<1> QED
  BY <1>1, <1>2, <1>3, ThinnedPass

LEMMA UnusedTidy ==
    ASSUME NEW g, Tidy(g)
    PROVE  Tidy(remove_unused_instructions(g).f)
<1> DEFINE used == used_values(g)
           swept(b, block) ==
               [block EXCEPT !.insts = Keeping(@, {i \in DOMAIN @ : Kept(@[i], used)})]
           blocks == [b \in DOMAIN g.blocks |->
                         IF b \in Live(g) THEN swept(b, g.blocks[b]) ELSE g.blocks[b]]
           at == [b \in DOMAIN g.blocks |->
                     {i \in DOMAIN g.blocks[b].insts : Kept(g.blocks[b].insts[i], used)}]
<1>1. remove_unused_instructions(g).f = [g EXCEPT !.blocks = blocks]
  BY Zenon DEF remove_unused_instructions, Blockwise, Report, Pass
<1>2. ASSUME NEW b \in DOMAIN g.blocks
      PROVE  blocks[b] = IF b \in Live(g)
                         THEN [g.blocks[b] EXCEPT !.insts = Keeping(@, at[b])]
                         ELSE g.blocks[b]
  BY <1>2
<1>3. ASSUME NEW b \in mark_reachable(g), g.blocks[b].insts # <<>>,
             is_terminator(g.blocks[b].insts[Len(g.blocks[b].insts)])
      PROVE  Len(g.blocks[b].insts) \in at[b]
  <2>1. b \in DOMAIN g.blocks /\ Len(g.blocks[b].insts) \in DOMAIN g.blocks[b].insts
    BY <1>3, ReachedTidy, CodeFacts
  <2>2. \A inst : is_terminator(inst) => Kept(inst, used)
    BY DEF is_terminator, Terminators, Kept, has_side_effects
  <2> HIDE DEF used
  <2> QED
    BY <1>3, <2>1, <2>2
<1>4. DOMAIN blocks = DOMAIN g.blocks
  OBVIOUS
<1> HIDE DEF blocks, at
<1>5. Tidy([g EXCEPT !.blocks = blocks])
  BY <1>2, <1>3, <1>4, SweptTidy
<1> QED
  BY <1>1, <1>5

LEMMA DeadCodeTidy ==
    ASSUME NEW g, Tidy(g)
    PROVE  Tidy(eliminate_dead_code(g).f)
<1>1. Tidy(remove_unreachable(g).f)
  BY UnreachableTidy
<1>2. Tidy(remove_unused_instructions(remove_unreachable(g).f).f)
  BY <1>1, UnusedTidy
<1> QED
  BY <1>2, Zenon DEF eliminate_dead_code, Then, Combine, Pass

LEMMA SubexprsTidy ==
    ASSUME NEW g, Tidy(g)
    PROVE  Tidy(eliminate_common_subexprs(g).f)
<1> DEFINE stays(insts, i) == insts[i].kind # "Nop" /\ ~repeated(insts, i)
           blocks == [b \in DOMAIN g.blocks |->
                         IF b \in Live(g) THEN cse_block(b, g.blocks[b]) ELSE g.blocks[b]]
           at == [b \in DOMAIN g.blocks |->
                     {i \in DOMAIN g.blocks[b].insts : stays(g.blocks[b].insts, i)}]
<1>1. eliminate_common_subexprs(g).f = [g EXCEPT !.blocks = blocks]
  BY Zenon DEF eliminate_common_subexprs, Blockwise, Pass
<1>2. ASSUME NEW b \in DOMAIN g.blocks
      PROVE  blocks[b] = IF b \in Live(g)
                         THEN [g.blocks[b] EXCEPT !.insts = Keeping(@, at[b])]
                         ELSE g.blocks[b]
  BY <1>2 DEF cse_block
<1>3. ASSUME NEW b \in mark_reachable(g), g.blocks[b].insts # <<>>,
             is_terminator(g.blocks[b].insts[Len(g.blocks[b].insts)])
      PROVE  Len(g.blocks[b].insts) \in at[b]
  <2>1. b \in DOMAIN g.blocks /\ Len(g.blocks[b].insts) \in DOMAIN g.blocks[b].insts
    BY <1>3, ReachedTidy, CodeFacts
  <2>2. \A inst : is_terminator(inst) => inst.kind # "Nop" /\ ~HasKey(inst)
    BY DEF is_terminator, Terminators, HasKey, KeyedTwo, KeyedOne, Commutative, TestKinds
  <2> QED
    BY <1>3, <2>1, <2>2 DEF repeated, keyed
<1>4. DOMAIN blocks = DOMAIN g.blocks
  OBVIOUS
<1> HIDE DEF blocks, at
<1>5. Tidy([g EXCEPT !.blocks = blocks])
  BY <1>2, <1>3, <1>4, SweptTidy
<1> QED
  BY <1>1, <1>5

-----------------------------------------------------------------------------
(* Calls that become tail calls, and patterns that are not there.          *)

LEMMA BeforeEndIs ==
    ASSUME NEW insts, Len(insts) \in Nat
    PROVE  BeforeEnd(insts) \in {0} \union (1 .. Len(insts) - 1)
<1> DEFINE Ends == {0} \union {i \in 1 .. Len(insts) - 1 : insts[i].kind # "Nop"}
<1>1. Ends \subseteq Nat /\ 0 \in Ends /\ \A x \in Ends : x <= Len(insts)
  OBVIOUS
<1>2. Ends \subseteq {0} \union (1 .. Len(insts) - 1)
  OBVIOUS
<1>3. BeforeEnd(insts) = Max(Ends)
  BY Zenon DEF BeforeEnd
<1> HIDE DEF Ends
<1>4. \E x \in Ends : \A y \in Ends : x >= y
  BY <1>1, GreatestNat
<1>5. Max(Ends) \in Ends
  BY <1>4 DEF Max
<1> QED
  BY <1>2, <1>3, <1>5

LEMMA MarkedTail ==
    ASSUME NEW s, IsCode(s), NEW e \in 1 .. Len(s) - 1, s[e].kind = "Call"
    PROVE  LET t == [s EXCEPT ![e].kind = "TailCall"]
           IN  /\ Thinned(s, t) /\ Len(t) = Len(s)
               /\ \A i \in 1 .. Len(s) : t[i] = s[i] \/ Marked(s[i], t[i])
<1> DEFINE t == [s EXCEPT ![e].kind = "TailCall"]
           p == [i \in 1 .. Len(s) |-> i]
<1>1. /\ Len(s) \in Nat /\ DOMAIN s = 1 .. Len(s)
      /\ \A i \in 1 .. Len(s) : IsInst(s[i])
      /\ s \in Seq(Range(s))
  BY CodeFacts
<1>2. IsInst(s[e]) /\ e \in DOMAIN s /\ e # Len(s) /\ e \in 1 .. Len(s)
  <2> DEFINE n == Len(s)
  <2>1. n \in Nat /\ e \in 1 .. n - 1
    BY <1>1
  <2> HIDE DEF n
  <2>2. e # n /\ e \in 1 .. n
    BY <2>1
  <2> QED
    BY <1>1, <2>2 DEF n
<1>3. /\ DOMAIN t = DOMAIN s /\ t \in Seq(Range(t)) /\ Len(t) = Len(s)
      /\ \A i \in DOMAIN s : i # e => t[i] = s[i]
      /\ t[e] = [s[e] EXCEPT !.kind = "TailCall"]
  <2>1. DOMAIN t = 1 .. Len(s)
    BY <1>1
  <2>2. \A i \in 1 .. Len(s) : t[i] \in Range(t)
    BY <2>1 DEF Range
  <2>3. t = [i \in 1 .. Len(s) |-> t[i]]
    BY <2>1
  <2> DEFINE u == t
  <2> HIDE DEF u
  <2>4. u \in [1 .. Len(s) -> Range(u)]
    BY <2>1, <2>2, <2>3 DEF u
  <2>5. u \in Seq(Range(u)) /\ Len(u) = Len(s)
    BY <1>1, <2>4, SeqDef, LenProperties
  <2> QED
    BY <1>1, <1>2, <2>1, <2>5 DEF u
<1> HIDE DEF t
<1>4. Marked(s[e], t[e]) /\ IsInst(t[e])
  BY <1>2, <1>3, MarkedInst DEF Marked
<1>5. IsCode(t)
  BY <1>1, <1>3, <1>4 DEF IsCode
<1>6. \A i \in 1 .. Len(s) : t[i] = s[i] \/ (i # Len(s) /\ Marked(s[i], t[i]))
  BY <1>1, <1>2, <1>3, <1>4
<1>7. /\ p \in [1 .. Len(t) -> 1 .. Len(s)]
      /\ \A i, j \in 1 .. Len(t) : i < j => p[i] < p[j]
      /\ \A i \in 1 .. Len(t) : p[i] = i
  BY <1>1, <1>3
<1>8. t # <<>> /\ p[Len(t)] = Len(s)
  BY <1>1, <1>2, <1>3, <1>7
<1>9. Thinned(s, t)
  BY <1>3, <1>5, <1>6, <1>7, <1>8 DEF Thinned
<1> QED
  BY <1>3, <1>6, <1>9 DEF t

(* What becomes of a block in which the last call is marked.               *)
LEMMA TailBlock ==
    ASSUME NEW b, NEW block, DOMAIN block = DOMAIN BasicBlock, IsCode(block.insts)
    PROVE  LET s == block.insts
               t == mark_tail_call(b, block).insts
           IN  /\ Thinned(s, t) /\ Len(t) = Len(s)
               /\ \A i \in 1 .. Len(s) : t[i] = s[i] \/ Marked(s[i], t[i])
<1> DEFINE s == block.insts
           e == BeforeEnd(s)
           t == [s EXCEPT ![e].kind = "TailCall"]
<1>1. CASE ~tail_position(block)
  <2>1. mark_tail_call(b, block) = block
    BY <1>1 DEF mark_tail_call
  <2> QED
    BY <2>1, ThinnedSelf
<1>2. CASE tail_position(block)
  <2>1. mark_tail_call(b, block).insts = t
    BY <1>2 DEF mark_tail_call, BasicBlock
  <2>2. Len(s) \in Nat
    BY CodeFacts
  <2>3. e \in 1 .. Len(s) - 1 /\ s[e].kind = "Call"
    BY <1>2, <2>2, BeforeEndIs DEF tail_position
  <2> HIDE DEF e
  <2> QED
    BY <2>1, <2>3, MarkedTail
<1> QED
  BY <1>1, <1>2

LEMMA TailsTidy ==
    ASSUME NEW g, Tidy(g)
    PROVE  Tidy(analyze_tail_calls(g).f)
<1> DEFINE blocks == [b \in DOMAIN g.blocks |->
                         IF b \in Live(g) THEN mark_tail_call(b, g.blocks[b]) ELSE g.blocks[b]]
<1>1. analyze_tail_calls(g).f = [g EXCEPT !.blocks = blocks]
  BY Zenon DEF analyze_tail_calls, Blockwise, Pass
<1>2. ASSUME NEW b \in DOMAIN g.blocks
      PROVE  /\ DOMAIN blocks[b] = DOMAIN g.blocks[b]
             /\ blocks[b].succs = g.blocks[b].succs
  <2>1. DOMAIN g.blocks[b] = {"insts", "preds", "succs", "reachable"}
    BY <1>2 DEF Tidy, Good, IsFramed, BasicBlock
  <2> QED
    BY <1>2, <2>1 DEF mark_tail_call
<1>3. ASSUME NEW b \in mark_reachable(g)
      PROVE  Thinned(g.blocks[b].insts, blocks[b].insts)
  <2>1. b \in DOMAIN g.blocks /\ IsCode(g.blocks[b].insts)
    BY <1>3, ReachedTidy
  <2>2. DOMAIN g.blocks[b] = DOMAIN BasicBlock
    BY <2>1 DEF Tidy, Good, IsFramed
  <2> QED
    BY <2>1, <2>2, ThinnedSelf, TailBlock
<1>4. DOMAIN blocks = DOMAIN g.blocks
  OBVIOUS
<1>5. \A b \in mark_reachable(g) : blocks[b].succs = g.blocks[b].succs
  BY <1>2, ReachedTidy
<1> HIDE DEF blocks
<1>6. Tidy([g EXCEPT !.blocks = blocks])
  BY <1>2, <1>3, <1>4, <1>5, ThinnedPass
<1> QED
  BY <1>1, <1>6

(* Where no value is tested twice there is no chain.                       *)
LEMMA NoChainLeft ==
    ASSUME NEW s, IsCode(s), \A i, j \in DOMAIN s : i # j => Apart(s[i], s[j]),
           NEW i \in 1 .. Len(s)
    PROVE  chain_length(s, i) \in {0, 1}
<1> DEFINE v == s[i].ops[1]
           S == {n \in 0 .. Len(s) - i + 1 : i + n > Len(s) \/ ~Tests(s[i + n], v)}
<1>1. /\ Len(s) \in Nat /\ DOMAIN s = 1 .. Len(s)
      /\ \A k \in 1 .. Len(s) : IsInst(s[k])
  BY CodeFacts
<1>2. chain_length(s, i) = IF s[i].ops = <<>> THEN 0 ELSE Min(S)
  BY Zenon DEF chain_length
<1>3. CASE s[i].ops # <<>>
  <2>1. 0 \in S \/ 1 \in S
    <3>1. CASE i + 1 > Len(s)
      BY <1>1, <3>1
    <3>2. CASE i + 1 <= Len(s)
      <4>1. i + 1 \in 1 .. Len(s) /\ i + 0 = i /\ i # i + 1
        BY <1>1, <3>2
      <4>2. Apart(s[i], s[i + 1])
        BY <1>1, <4>1
      <4>3. IsInst(s[i]) /\ IsInst(s[i + 1])
        BY <1>1, <4>1
      <4>4. \A x : Tests(x, v) /\ IsInst(x) => v \in Range(x.ops) /\ x.kind \in Range(ChainTests)
        <5>1. ASSUME NEW t, t \in Seq(Int), t # <<>> PROVE t[1] \in Range(t)
          <6>1. 1 \in 1 .. Len(t) /\ DOMAIN t = 1 .. Len(t)
            BY <5>1, EmptySeq, LenProperties
          <6> QED
            BY <6>1 DEF Range
        <5> QED
          BY <5>1 DEF Tests, IsInst
      <4>5. ~Tests(s[i], v) \/ ~Tests(s[i + 1], v)
        BY <4>2, <4>3, <4>4 DEF Apart
      <4> HIDE DEF v
      <4> QED
        BY <1>1, <4>1, <4>5
    <3> QED
      BY <1>1, <3>1, <3>2
  <2>2. S \subseteq Nat
    BY <1>1
  <2> HIDE DEF S
  <2>3. \E x \in S : \A y \in S : x <= y
    BY <2>1, <2>2, LeastNat
  <2>4. Min(S) \in S /\ \A y \in S : Min(S) <= y
    BY <2>3 DEF Min
  <2> DEFINE m == Min(S)
  <2>5. m \in Nat /\ (m <= 0 \/ m <= 1)
    BY <2>1, <2>2, <2>4
  <2> HIDE DEF m
  <2>6. m \in {0, 1}
    BY <2>5
  <2> QED
    BY <1>2, <1>3, <2>6 DEF m
<1> QED
  BY <1>2, <1>3

LEMMA PatternsIdle ==
    ASSUME NEW s, IsCode(s), \A i, j \in DOMAIN s : i # j => Apart(s[i], s[j]),
           \A i \in DOMAIN s : s[i].kind = "TupleGet" => s[i].ns[1] >= FastIndex
    PROVE  optimize_insts(s) = s
<1> DEFINE n == Len(s)
           chained(insts, i, k) == SubSeq(insts, 1, i - 1) \o <<dispatch(insts, i, k)>>
                                   \o SubSeq(insts, i + k, Len(insts))
           step(insts, i) ==
               IF i > Len(insts) THEN insts
               ELSE IF chain_length(insts, i) >= 2 THEN chained(insts, i, chain_length(insts, i))
               ELSE IF insts[i].kind = "TupleGet" /\ insts[i].ns[1] < FastIndex
               THEN [insts EXCEPT ![i] = fast_access(@)]
               ELSE insts
           run(q) == [i \in 0 .. n |-> IF i = 0 THEN s ELSE step(q[i - 1], i)]
           after == CHOOSE q : q = run(q)
<1>1. n \in Nat /\ DOMAIN s = 1 .. n /\ \A i \in 1 .. n : IsInst(s[i])
  BY CodeFacts
<1>2. optimize_insts(s) = after[n]
  BY Zenon DEF optimize_insts
<1>3. ASSUME NEW i \in 1 .. n PROVE step(s, i) = s
  <2>1. chain_length(s, i) \in {0, 1}
    BY <1>3, NoChainLeft
  <2>2. ~(chain_length(s, i) >= 2)
    BY <2>1
  <2>3. s[i].kind = "TupleGet" => ~(s[i].ns[1] < FastIndex)
    <3>1. s[i].kind = "TupleGet" => s[i].ns[1] \in Int /\ s[i].ns[1] >= FastIndex
      BY <1>1 DEF IsInst
    <3> QED
      BY <3>1 DEF FastIndex
  <2> QED
    BY <2>2, <2>3
<1> HIDE DEF step, n
<1>4. [i \in 0 .. n |-> s] = run([i \in 0 .. n |-> s])
  <2> DEFINE q == [i \in 0 .. n |-> s]
  <2>1. ASSUME NEW i \in 0 .. n PROVE q[i] = run(q)[i]
    <3>1. i # 0 => i \in 1 .. n /\ i - 1 \in 0 .. n
      BY <1>1
    <3>2. i # 0 => q[i - 1] = s
      BY <3>1
    <3> QED
      BY <1>3, <3>1, <3>2
  <2> QED
    BY <2>1
<1>5. after = run(after)
  BY <1>4, Zenon
<1> HIDE DEF after
<1> DEFINE S == {i \in 0 .. n : after[i] = s}
<1>6. 0 \in S
  BY <1>1, <1>5
<1>7. ASSUME NEW i \in 1 .. n, i - 1 \in S PROVE i \in S
  <2>1. i # 0 /\ i \in 0 .. n
    BY <1>1
  <2>2. after[i] = step(after[i - 1], i)
    BY <1>5, <2>1
  <2> QED
    BY <1>3, <1>7, <2>1, <2>2
<1> HIDE DEF S
<1>8. 0 .. n \subseteq S
  BY <1>1, <1>6, <1>7, CountUp
<1>9. n \in S
  BY <1>1, <1>8
<1> QED
  BY <1>2, <1>9 DEF S

LEMMA PatternsTidy ==
    ASSUME NEW g, Tidy(g)
    PROVE  Tidy(optimize_patterns(g).f)
<1> DEFINE blocks == [b \in DOMAIN g.blocks |->
                         IF b \in Live(g) THEN [g.blocks[b] EXCEPT !.insts = optimize_insts(@)]
                         ELSE g.blocks[b]]
<1>1. optimize_patterns(g).f = [g EXCEPT !.blocks = blocks]
  BY Zenon DEF optimize_patterns, Blockwise, Report, Pass
<1>2. ASSUME NEW b \in DOMAIN g.blocks
      PROVE  /\ DOMAIN blocks[b] = DOMAIN g.blocks[b]
             /\ blocks[b].succs = g.blocks[b].succs
             /\ blocks[b].insts = IF b \in Live(g) THEN optimize_insts(g.blocks[b].insts)
                                  ELSE g.blocks[b].insts
  <2>1. DOMAIN g.blocks[b] = {"insts", "preds", "succs", "reachable"}
    BY <1>2 DEF Tidy, Good, IsFramed, BasicBlock
  <2> QED
    BY <1>2, <2>1
<1>3. ASSUME NEW b \in mark_reachable(g)
      PROVE  Thinned(g.blocks[b].insts, blocks[b].insts)
  <2>1. b \in DOMAIN g.blocks /\ IsCode(g.blocks[b].insts)
    BY <1>3, ReachedTidy
  <2>2. /\ \A i, j \in DOMAIN g.blocks[b].insts :
               i # j => Apart(g.blocks[b].insts[i], g.blocks[b].insts[j])
        /\ \A i \in DOMAIN g.blocks[b].insts :
               g.blocks[b].insts[i].kind = "TupleGet" => g.blocks[b].insts[i].ns[1] >= FastIndex
    BY <1>3 DEF Tidy, Good, Lasting
  <2>3. optimize_insts(g.blocks[b].insts) = g.blocks[b].insts
    BY <2>1, <2>2, PatternsIdle
  <2> QED
    BY <1>2, <2>1, <2>3, ThinnedSelf
<1>4. DOMAIN blocks = DOMAIN g.blocks
  OBVIOUS
<1>5. \A b \in mark_reachable(g) : blocks[b].succs = g.blocks[b].succs
  BY <1>2, ReachedTidy
<1> HIDE DEF blocks
<1>6. Tidy([g EXCEPT !.blocks = blocks])
  BY <1>2, <1>3, <1>4, <1>5, ThinnedPass
<1> QED
  BY <1>1, <1>6

-----------------------------------------------------------------------------
(* A block that runs does not fall through.                                *)

LEMMA NoFall ==
    ASSUME NEW g, Tidy(g), NEW b \in mark_reachable(g)
    PROVE  ~falls_through(b, g.blocks[b])
<1> DEFINE R == mark_reachable(g)
           s == g.blocks[b].insts
<1>1. b \in DOMAIN g.blocks /\ IsCode(s) /\ Good(g.blocks, R) /\ IsFramed(g.blocks)
  BY ReachedTidy DEF Tidy, Good
<1>2. b \in Nat
  BY <1>1 DEF IsFramed
<1> HIDE DEF R
<1>3. ASSUME s # <<>>, s[Len(s)].kind = "Br" PROVE s[Len(s)].to[1] # b + 1
  <2>1. Len(s) \in DOMAIN s
    BY <1>1, <1>3, CodeFacts
  <2>2. s[Len(s)].to[1] - 1 \notin R
    BY <1>1, <1>3, <2>1 DEF Good, Lasting, R
  <2> QED
    BY <1>2, <2>2 DEF R
<1> QED
  BY <1>3 DEF falls_through, Last

LEMMA CutTidy ==
    ASSUME NEW g, Tidy(g)
    PROVE  Tidy(eliminate_fallthrough_branches(g).f)
<1> DEFINE cut(b, block) ==
               IF falls_through(b, block)
               THEN [block EXCEPT !.insts = SubSeq(@, 1, Len(@) - 1),
                                  !.succs = Keeping(@, {i \in DOMAIN @ : @[i] # b + 1})]
               ELSE block
           blocks == [b \in DOMAIN g.blocks |->
                         IF b \in Live(g) THEN cut(b, g.blocks[b]) ELSE g.blocks[b]]
           h == [g EXCEPT !.blocks = blocks]
           R == mark_reachable(g)
<1>1. eliminate_fallthrough_branches(g).f = h
  BY Zenon DEF eliminate_fallthrough_branches, Blockwise, Pass
<1>2. Good(g.blocks, R) /\ IsFramed(g.blocks) /\ DOMAIN blocks = DOMAIN g.blocks
  BY DEF Tidy, Good
<1>3. ASSUME NEW b \in R PROVE blocks[b] = g.blocks[b] /\ IsCode(g.blocks[b].insts)
  BY <1>3, ReachedTidy, NoFall
<1>4. ASSUME NEW b \in DOMAIN g.blocks
      PROVE  /\ DOMAIN blocks[b] = DOMAIN BasicBlock
             /\ blocks[b].succs \in Seq(DOMAIN g.blocks \ {0})
  <2> DEFINE succs == g.blocks[b].succs
             D == DOMAIN g.blocks \ {0}
             at == {i \in DOMAIN succs : succs[i] # b + 1}
  <2>1. DOMAIN g.blocks[b] = DOMAIN BasicBlock /\ succs \in Seq(D)
    BY <1>2, <1>4 DEF IsFramed
  <2>2. DOMAIN blocks[b] = DOMAIN BasicBlock /\ blocks[b].succs \in {succs, Keeping(succs, at)}
    BY <1>4, <2>1 DEF BasicBlock
  <2> HIDE DEF succs, at, D
  <2>3. Range(succs) \subseteq D /\ succs \in Seq(Range(succs))
    BY <2>1, RangeType, SeqOfRange
  <2>4. Keeping(succs, at) \in Seq(Range(succs))
    BY <2>3, KeepingPicks DEF Picks
  <2>5. Keeping(succs, at) \in Seq(D)
    BY <2>3, <2>4, SeqMonotonic
  <2> QED
    BY <2>1, <2>2, <2>5 DEF D
<1>5. HasBlocks(h) /\ h.blocks = blocks
  BY WithBlocks DEF Tidy
<1> HIDE DEF blocks, h, R
<1>6. IsFramed(blocks)
  BY <1>2, <1>4 DEF IsFramed
<1>7. Good(blocks, R)
  BY <1>2, <1>3, <1>6, ThinnedSelf, ThinnedGood
<1> QED
  BY <1>1, <1>5, <1>7, GoodReached DEF Tidy

-----------------------------------------------------------------------------
(* Merging blocks.                                                         *)

\* The code of two blocks, the first without its last instruction.
Join(s, t) == SubSeq(s, 1, Len(s) - 1) \o t

LEMMA JoinedCode ==
    ASSUME NEW s, NEW t, IsCode(s), IsCode(t), s # <<>>,
           \A i \in DOMAIN s : i # Len(s) => s[i].to = <<>>, JumpsLast(t)
    PROVE  /\ IsCode(Join(s, t)) /\ JumpsLast(Join(s, t))
           /\ Len(Join(s, t)) = Len(s) - 1 + Len(t)
           /\ \A i \in 1 .. Len(s) - 1 : Join(s, t)[i] = s[i]
           /\ \A i \in 1 .. Len(t) : Join(s, t)[Len(s) - 1 + i] = t[i]
           /\ t # <<>> => Join(s, t) # <<>> /\ Join(s, t)[Len(Join(s, t))] = t[Len(t)]
           /\ t = <<>> => \A i \in DOMAIN Join(s, t) : Join(s, t)[i].to = <<>>
<1> DEFINE m == Len(s) - 1
           head == SubSeq(s, 1, m)
           body == head \o t
           S == Range(s) \union Range(t)
<1>1. /\ Len(s) \in Nat /\ Len(t) \in Nat /\ Len(s) # 0
      /\ DOMAIN s = 1 .. Len(s) /\ DOMAIN t = 1 .. Len(t)
      /\ t = <<>> <=> Len(t) = 0
  BY CodeFacts
<1>2. m \in Nat /\ Len(s) = m + 1
  BY <1>1
<1>3. s \in Seq(S) /\ t \in Seq(S)
  BY CodeFacts, SeqMonotonic
<1> HIDE DEF m, S
<1>4. head \in Seq(S) /\ Len(head) = m /\ \A i \in 1 .. m : head[i] = s[i]
  BY <1>1, <1>2, <1>3, SubSeqProperties
<1> HIDE DEF head
<1>5. /\ body \in Seq(S) /\ Len(body) = m + Len(t)
      /\ \A i \in 1 .. m : body[i] = s[i]
      /\ \A i \in 1 .. Len(t) : body[m + i] = t[i]
  <2>1. /\ body \in Seq(S) /\ Len(body) = m + Len(t)
        /\ \A i \in 1 .. m + Len(t) : body[i] = IF i <= m THEN head[i] ELSE t[i - m]
    BY <1>3, <1>4, ConcatProperties
  <2> HIDE DEF body
  <2>2. ASSUME NEW i \in 1 .. m PROVE body[i] = s[i]
    BY <1>1, <1>2, <1>4, <2>1
  <2>3. ASSUME NEW i \in 1 .. Len(t) PROVE body[m + i] = t[i]
    <3> DEFINE k == m + i
    <3>1. k \in 1 .. m + Len(t) /\ ~(k <= m) /\ k - m = i
      BY <1>1, <1>2
    <3> HIDE DEF k
    <3>2. body[k] = t[k - m]
      BY <2>1, <3>1
    <3> QED
      BY <3>1, <3>2 DEF k
  <2> QED
    BY <2>1, <2>2, <2>3
<1> HIDE DEF body
<1>6. DOMAIN body = 1 .. m + Len(t) /\ body \in Seq(Range(body)) /\ (body = <<>> <=> Len(body) = 0)
  BY <1>5, LenProperties, SeqOfRange, EmptySeq
<1>7. ASSUME NEW i \in DOMAIN body
      PROVE  \/ i \in 1 .. m /\ body[i] = s[i] /\ IsInst(body[i]) /\ body[i].to = <<>>
             \/ /\ i - m \in 1 .. Len(t) /\ body[i] = t[i - m] /\ IsInst(body[i])
                /\ i # m + Len(t) => i - m # Len(t)
  <2>1. i \in 1 .. m + Len(t)
    BY <1>6
  <2>2. CASE i <= m
    <3>1. i \in 1 .. m /\ i \in 1 .. Len(s) /\ i # Len(s)
      BY <1>2, <2>1, <2>2
    <3>2. IsInst(s[i])
      BY <3>1, CodeFacts
    <3> QED
      BY <1>1, <1>5, <3>1, <3>2
  <2>3. CASE ~(i <= m)
    <3>1. i - m \in 1 .. Len(t) /\ m + (i - m) = i /\ (i # m + Len(t) => i - m # Len(t))
      BY <1>1, <1>2, <2>1, <2>3
    <3>2. IsInst(t[i - m])
      BY <3>1, CodeFacts
    <3>3. body[i] = t[i - m]
      BY <1>5, <3>1
    <3> QED
      BY <3>1, <3>2, <3>3
  <2> QED
    BY <2>2, <2>3
<1>8. IsCode(body)
  BY <1>6, <1>7 DEF IsCode
<1>9. t # <<>> => body # <<>> /\ body[Len(body)] = t[Len(t)]
  <2> SUFFICES ASSUME t # <<>> PROVE body # <<>> /\ body[Len(body)] = t[Len(t)]
    OBVIOUS
  <2>1. Len(t) \in 1 .. Len(t) /\ m + Len(t) # 0
    BY <1>1, <1>2
  <2> QED
    BY <1>5, <1>6, <2>1
<1>10. t = <<>> => \A i \in DOMAIN body : body[i].to = <<>>
  <2>1. t = <<>> => \A i \in DOMAIN body : i - m \notin 1 .. Len(t)
    BY <1>1
  <2> QED
    BY <1>7, <2>1
<1>11. JumpsLast(body)
  <2>1. CASE t = <<>>
    BY <1>10, <2>1 DEF JumpsLast
  <2>2. CASE \A i \in DOMAIN t : i # Len(t) => t[i].to = <<>>
    <3>1. \A i \in DOMAIN body : i # Len(body) => body[i].to = <<>>
      BY <1>1, <1>5, <1>7, <2>2
    <3> QED
      BY <3>1 DEF JumpsLast
  <2>3. CASE t # <<>> /\ is_terminator(t[Len(t)]) /\ t[Len(t)].to = <<>>
    BY <1>9, <2>3 DEF JumpsLast
  <2> QED
    BY <2>1, <2>2, <2>3 DEF JumpsLast
<1> QED
  BY <1>5, <1>8, <1>9, <1>10, <1>11 DEF body, head, m, Join

\* The code of two blocks merged.
Joined(blocks, src, dst) ==
    LET head == IF blocks[src].insts = <<>> THEN <<>>
                ELSE SubSeq(blocks[src].insts, 1, Len(blocks[src].insts) - 1)
        body == head \o blocks[dst].insts
        last == Len(body)
    IN  IF last > 0 /\ body[last].kind = "Br" /\ body[last].to[1] = dst
        THEN [body EXCEPT ![last].to = <<src>>] ELSE body

(* What merging does to the blocks.                                        *)
LEMMA MergeShape ==
    ASSUME NEW blocks, NEW src \in DOMAIN blocks, NEW dst \in DOMAIN blocks,
           fits(blocks, src, dst),
           \A b \in DOMAIN blocks : DOMAIN blocks[b] = DOMAIN BasicBlock
    PROVE  LET new == merge(blocks, src, dst)
           IN  /\ DOMAIN new = DOMAIN blocks
               /\ \A b \in DOMAIN blocks : DOMAIN new[b] = DOMAIN BasicBlock
               /\ \A b \in DOMAIN blocks \ {src, dst} : new[b] = blocks[b]
               /\ new[src].succs = blocks[dst].succs
               /\ src # dst =>
                    /\ new[dst].insts = <<>> /\ new[dst].succs = <<>>
                    /\ new[src].insts = Joined(blocks, src, dst)
                    /\ new[src].reachable = blocks[src].reachable /\ ~new[dst].reachable
<1> DEFINE head == IF blocks[src].insts = <<>> THEN <<>>
                   ELSE SubSeq(blocks[src].insts, 1, Len(blocks[src].insts) - 1)
           body == head \o (IF src = dst THEN <<>> ELSE blocks[dst].insts)
           last == Len(body)
           aimed == IF last > 0 /\ body[last].kind = "Br" /\ body[last].to[1] = dst
                    THEN [body EXCEPT ![last].to = <<src>>] ELSE body
           emptied == [blocks EXCEPT ![dst].insts = <<>>, ![dst].succs = <<>>]
           new == [emptied EXCEPT ![src].insts = aimed,
                                  ![src].succs = blocks[dst].succs,
                                  ![dst].reachable = FALSE]
<1>1. merge(blocks, src, dst) = new
  BY Zenon DEF merge
<1>2. src # dst => aimed = Joined(blocks, src, dst)
  BY Zenon DEF Joined
<1> HIDE DEF aimed
<1>3. DOMAIN blocks[src] = {"insts", "preds", "succs", "reachable"}
      /\ DOMAIN blocks[dst] = {"insts", "preds", "succs", "reachable"}
  BY DEF BasicBlock
<1>4. /\ DOMAIN emptied = DOMAIN blocks
      /\ emptied[dst] = [blocks[dst] EXCEPT !.insts = <<>>, !.succs = <<>>]
      /\ \A b \in DOMAIN blocks \ {dst} : emptied[b] = blocks[b]
  OBVIOUS
<1> HIDE DEF emptied
<1>5. CASE src = dst
  <2>1. /\ DOMAIN new = DOMAIN blocks
        /\ new[src] = [emptied[src] EXCEPT !.insts = aimed, !.succs = blocks[dst].succs,
                                           !.reachable = FALSE]
        /\ \A b \in DOMAIN blocks \ {src} : new[b] = blocks[b]
    BY <1>4, <1>5
  <2> HIDE DEF new
  <2>2. DOMAIN new[src] = DOMAIN BasicBlock /\ new[src].succs = blocks[dst].succs
    BY <1>3, <1>4, <1>5, <2>1 DEF BasicBlock
  <2>3. \A b \in DOMAIN blocks : DOMAIN new[b] = DOMAIN BasicBlock
    BY <2>1, <2>2
  <2> QED
    BY <1>1, <1>5, <2>1, <2>2, <2>3
<1>6. CASE src # dst
  <2>1. /\ DOMAIN new = DOMAIN blocks
        /\ new[src] = [blocks[src] EXCEPT !.insts = aimed, !.succs = blocks[dst].succs]
        /\ new[dst] = [emptied[dst] EXCEPT !.reachable = FALSE]
        /\ \A b \in DOMAIN blocks \ {src, dst} : new[b] = blocks[b]
    BY <1>4, <1>6
  <2> HIDE DEF new
  <2>2. /\ DOMAIN new[src] = DOMAIN BasicBlock
        /\ new[src].succs = blocks[dst].succs /\ new[src].insts = aimed
        /\ new[src].reachable = blocks[src].reachable
    BY <1>3, <1>4, <2>1 DEF BasicBlock
  <2>3. /\ DOMAIN new[dst] = DOMAIN BasicBlock
        /\ new[dst].insts = <<>> /\ new[dst].succs = <<>> /\ ~new[dst].reachable
    BY <1>3, <1>4, <2>1 DEF BasicBlock
  <2>4. \A b \in DOMAIN blocks : DOMAIN new[b] = DOMAIN BasicBlock
    BY <2>1, <2>2, <2>3
  <2> QED
    BY <1>1, <1>2, <2>1, <2>2, <2>3, <2>4
<1> QED
  BY <1>5, <1>6

\* The blocks when those from b on have been looked at: those that run before b
\* are as they were, and no block has an edge that was not there at or after it.
Joining(g, R, blocks, b) ==
    /\ DOMAIN blocks = DOMAIN g.blocks
    /\ Good(blocks, R)
    /\ \A x \in R : x < b => blocks[x] = g.blocks[x]
    /\ \A x \in R : \A y \in Range(blocks[x].succs) :
           \E e \in R : e >= x /\ y \in Range(g.blocks[e].succs)

LEMMA JoiningStart ==
    ASSUME NEW g, Tidy(g), NEW b
    PROVE  Joining(g, mark_reachable(g), g.blocks, b)
<1>1. \A x \in mark_reachable(g) : x \in Nat
  BY DEF Tidy, Good, IsFramed, Closed
<1>2. \A x \in mark_reachable(g) : x >= x
  BY <1>1
<1> QED
  BY <1>2 DEF Joining, Tidy

LEMMA MergeFramed ==
    ASSUME NEW blocks, IsFramed(blocks), NEW src \in DOMAIN blocks, NEW dst \in DOMAIN blocks,
           fits(blocks, src, dst)
    PROVE  IsFramed(merge(blocks, src, dst))
<1> DEFINE new == merge(blocks, src, dst)
<1>1. \A b \in DOMAIN blocks : DOMAIN blocks[b] = DOMAIN BasicBlock
  BY DEF IsFramed
<1>2. /\ DOMAIN new = DOMAIN blocks
      /\ \A b \in DOMAIN blocks : DOMAIN new[b] = DOMAIN BasicBlock
      /\ \A b \in DOMAIN blocks \ {src, dst} : new[b] = blocks[b]
      /\ new[src].succs = blocks[dst].succs
      /\ src # dst => new[dst].succs = <<>>
  BY <1>1, MergeShape
<1> HIDE DEF new
<1>3. ASSUME NEW b \in DOMAIN blocks PROVE new[b].succs \in Seq(DOMAIN blocks \ {0})
  <2>1. <<>> \in Seq(DOMAIN blocks \ {0})
    BY EmptySeq
  <2>2. blocks[b].succs \in Seq(DOMAIN blocks \ {0}) /\ blocks[dst].succs \in Seq(DOMAIN blocks \ {0})
    BY DEF IsFramed
  <2> QED
    BY <1>2, <2>1, <2>2
<1>4. IsFramed(new)
  BY <1>2, <1>3 DEF IsFramed
<1> QED
  BY <1>4 DEF new

(* Merging into a block that does not run: what runs is not touched.       *)
LEMMA MergeMisses ==
    ASSUME NEW g, Tidy(g), NEW b \in Mergeable(g), b \notin mark_reachable(g),
           NEW blocks, Joining(g, mark_reachable(g), blocks, b + 1),
           fits(blocks, b, g.blocks[b].succs[1])
    PROVE  LET new == merge(blocks, b, g.blocks[b].succs[1])
           IN  /\ DOMAIN new = DOMAIN g.blocks /\ IsFramed(new)
               /\ \A x \in mark_reachable(g) : new[x] = blocks[x]
<1> DEFINE R == mark_reachable(g)
           d == g.blocks[b].succs[1]
           new == merge(blocks, b, d)
<1>1. /\ b \in DOMAIN g.blocks /\ Len(g.blocks[b].succs) = 1
      /\ \A c \in DOMAIN g.blocks \ {b} : d \notin Range(g.blocks[c].succs)
  BY DEF Mergeable, X_Mergeable, Live
<1>2. IsFramed(g.blocks) /\ Closed(g.blocks, R) /\ IsFramed(blocks)
      /\ DOMAIN blocks = DOMAIN g.blocks
  BY DEF Tidy, Good, Joining
<1>3. d \in DOMAIN g.blocks \ {0}
  <2>1. g.blocks[b].succs \in Seq(DOMAIN g.blocks \ {0})
    BY <1>1, <1>2 DEF IsFramed
  <2> QED
    BY <1>1, <2>1, ElementOfSeq
<1>4. d \notin R
  <2> SUFFICES ASSUME d \in R PROVE FALSE
    OBVIOUS
  <2>1. PICK c \in R : d \in Range(g.blocks[c].succs)
    BY <1>2, <1>3, ReachedFrom
  <2> QED
    BY <1>1, <1>2, <2>1 DEF Closed
<1>5. /\ DOMAIN new = DOMAIN g.blocks
      /\ \A x \in R : new[x] = blocks[x]
  <2>1. \A x \in DOMAIN blocks : DOMAIN blocks[x] = DOMAIN BasicBlock
    BY <1>2 DEF IsFramed
  <2>2. DOMAIN new = DOMAIN blocks /\ \A x \in DOMAIN blocks \ {b, d} : new[x] = blocks[x]
    BY <1>1, <1>2, <1>3, <2>1, MergeShape
  <2> QED
    BY <1>2, <1>4, <2>2 DEF Closed
<1>6. IsFramed(new)
  BY <1>1, <1>2, <1>3, MergeFramed
<1> QED
  BY <1>5, <1>6

LEMMA MergeOutside ==
    ASSUME NEW g, Tidy(g), NEW b \in Mergeable(g), b \notin mark_reachable(g),
           NEW blocks, Joining(g, mark_reachable(g), blocks, b + 1),
           fits(blocks, b, g.blocks[b].succs[1])
    PROVE  Joining(g, mark_reachable(g), merge(blocks, b, g.blocks[b].succs[1]), b)
<1> DEFINE R == mark_reachable(g)
           d == g.blocks[b].succs[1]
           new == merge(blocks, b, d)
<1>1. Good(blocks, R) /\ Closed(g.blocks, R) /\ IsFramed(g.blocks) /\ b \in DOMAIN g.blocks
  BY DEF Tidy, Good, Joining, Mergeable, X_Mergeable, Live
<1>2. b \in Nat /\ \A x \in R : x \in Nat
  BY <1>1 DEF IsFramed, Closed
<1>3. DOMAIN new = DOMAIN g.blocks /\ IsFramed(new) /\ \A x \in R : new[x] = blocks[x]
  BY MergeMisses
<1> HIDE DEF new, R, d
<1>4. Good(new, R)
  BY <1>1, <1>3 DEF Good, Closed
<1>5. /\ \A x \in R : x < b => blocks[x] = g.blocks[x]
      /\ \A x \in R : \A y \in Range(blocks[x].succs) :
             \E e \in R : e >= x /\ y \in Range(g.blocks[e].succs)
  <2>1. \A x \in R : x < b => x < b + 1
    BY <1>2
  <2> QED
    BY <2>1 DEF Joining, R
<1>6. Joining(g, R, new, b)
  BY <1>3, <1>4, <1>5 DEF Joining
<1> QED
  BY <1>6 DEF new, R, d

\* What merging makes of b, whose jump goes, and of its only successor d.
Fused(g, R, blocks, b, d, new) ==
    LET s == blocks[b].insts
        t == blocks[d].insts
        body == Join(s, t)
    IN  /\ b \in R /\ d \in R /\ b \in Nat /\ d \in Nat /\ d > b
        /\ \A c \in DOMAIN g.blocks \ {b} : d \notin Range(g.blocks[c].succs)
        /\ blocks[b] = g.blocks[b] /\ Targets(blocks[b]) = {d} /\ g.blocks[b].reachable
        /\ TidyBlock(blocks[d])
        /\ IsCode(s) /\ s # <<>> /\ IsCode(t) /\ IsCode(body) /\ JumpsLast(body)
        /\ \A i \in DOMAIN s : i # Len(s) => s[i].to = <<>>
        /\ Len(body) = Len(s) - 1 + Len(t)
        /\ \A i \in 1 .. Len(s) - 1 : body[i] = s[i]
        /\ \A i \in 1 .. Len(t) : body[Len(s) - 1 + i] = t[i]
        /\ t # <<>> => body # <<>> /\ body[Len(body)] = t[Len(t)]
        /\ t = <<>> => \A i \in DOMAIN body : body[i].to = <<>>
        /\ DOMAIN new = DOMAIN blocks /\ IsFramed(new)
        /\ \A x \in DOMAIN blocks \ {b, d} : new[x] = blocks[x]
        /\ new[b].insts = body /\ new[b].succs = blocks[d].succs
        /\ new[b].reachable = blocks[b].reachable
        /\ new[d].insts = <<>> /\ new[d].succs = <<>> /\ ~new[d].reachable

(* Merging a block that runs with its only successor, which only it jumps  *)
(* to: the jump goes and what follows it takes its place.                  *)
LEMMA MergeMakes ==
    ASSUME NEW g, Tidy(g), NEW b \in Mergeable(g), b \in mark_reachable(g),
           NEW blocks, Joining(g, mark_reachable(g), blocks, b + 1),
           fits(blocks, b, g.blocks[b].succs[1])
    PROVE  Fused(g, mark_reachable(g), blocks, b, g.blocks[b].succs[1],
                 merge(blocks, b, g.blocks[b].succs[1]))
<1> DEFINE R == mark_reachable(g)
           d == g.blocks[b].succs[1]
           new == merge(blocks, b, d)
           s == blocks[b].insts
           t == blocks[d].insts
           body == Join(s, t)
<1>1. /\ b \in DOMAIN g.blocks /\ b \in R /\ Len(g.blocks[b].succs) = 1
      /\ \A c \in DOMAIN g.blocks \ {b} : d \notin Range(g.blocks[c].succs)
  BY DEF Mergeable, X_Mergeable, Live
<1>2. /\ Good(g.blocks, R) /\ IsFramed(g.blocks) /\ Closed(g.blocks, R)
      /\ Good(blocks, R) /\ IsFramed(blocks) /\ Closed(blocks, R)
      /\ DOMAIN blocks = DOMAIN g.blocks
      /\ \A x \in R : x < b + 1 => blocks[x] = g.blocks[x]
      /\ \A x \in R : \A y \in Range(blocks[x].succs) :
             \E e \in R : e >= x /\ y \in Range(g.blocks[e].succs)
  BY DEF Tidy, Good, Joining
<1>3. b \in Nat /\ R \subseteq Nat /\ R \subseteq DOMAIN g.blocks
  BY <1>1, <1>2 DEF IsFramed, Closed
<1>4. /\ Range(g.blocks[b].succs) = {d} /\ d \in R
      /\ d > b /\ d \in Nat /\ d # b
  <2>1. g.blocks[b].succs \in Seq(DOMAIN g.blocks \ {0})
    BY <1>1, <1>2 DEF IsFramed
  <2>2. DOMAIN g.blocks[b].succs = {1}
    BY <1>1, <2>1, LenProperties
  <2>3. Range(g.blocks[b].succs) = {d}
    BY <2>2 DEF Range
  <2>4. d \in R
    BY <1>1, <1>2, <2>3 DEF Closed
  <2>5. d > b
    BY <1>1, <1>2 DEF Good
  <2> QED
    BY <1>3, <2>3, <2>4, <2>5
<1> HIDE DEF R, d
<1>5. blocks[b] = g.blocks[b]
  BY <1>1, <1>2, <1>3
<1>6. TidyBlock(blocks[b]) /\ TidyBlock(blocks[d])
  BY <1>1, <1>2, <1>4 DEF Good
<1>7. /\ IsCode(s) /\ s # <<>> /\ IsCode(t) /\ JumpsLast(t)
      /\ \A i \in DOMAIN s : i # Len(s) => s[i].to = <<>>
  <2>1. Targets(blocks[b]) = {d} /\ IsCode(s) /\ JumpsLast(s) /\ IsCode(t) /\ JumpsLast(t)
    BY <1>4, <1>5, <1>6 DEF TidyBlock
  <2>2. s # <<>> /\ d \in Range(s[Len(s)].to)
    BY <2>1 DEF Targets, is_terminated, Last
  <2>3. s[Len(s)].to # <<>>
    BY <2>2, RangeEmpty
  <2> QED
    BY <2>1, <2>2, <2>3 DEF JumpsLast
<1>8. /\ IsCode(body) /\ JumpsLast(body)
      /\ Len(body) = Len(s) - 1 + Len(t)
      /\ \A i \in 1 .. Len(s) - 1 : body[i] = s[i]
      /\ \A i \in 1 .. Len(t) : body[Len(s) - 1 + i] = t[i]
      /\ t # <<>> => body # <<>> /\ body[Len(body)] = t[Len(t)]
      /\ t = <<>> => \A i \in DOMAIN body : body[i].to = <<>>
  <2> HIDE DEF s, t
  <2> QED
    BY <1>7, JoinedCode
<1>9. /\ Len(s) \in Nat /\ Len(s) # 0 /\ DOMAIN s = 1 .. Len(s)
      /\ Len(t) \in Nat /\ DOMAIN t = 1 .. Len(t) /\ (t # <<>> => Len(t) \in DOMAIN t)
      /\ DOMAIN body = 1 .. Len(body) /\ (Len(body) > 0 => Len(body) \in DOMAIN body)
      /\ Len(body) \in Nat /\ (body = <<>> <=> Len(body) = 0)
      /\ \A i \in DOMAIN t : IsInst(t[i])
      /\ \A i \in DOMAIN body : IsInst(body[i])
  <2>1. ASSUME NEW c, IsCode(c)
        PROVE  /\ Len(c) \in Nat /\ (c = <<>> <=> Len(c) = 0) /\ DOMAIN c = 1 .. Len(c)
               /\ c # <<>> => Len(c) \in DOMAIN c
               /\ \A i \in DOMAIN c : IsInst(c[i])
    BY <2>1, CodeFacts
  <2>2. IsCode(s) /\ s # <<>> /\ IsCode(t) /\ IsCode(body)
    BY <1>7, <1>8
  <2> HIDE DEF s, t, body
  <2>3. Len(body) > 0 => body # <<>>
    BY <2>1, <2>2
  <2> QED
    BY <2>1, <2>2, <2>3
<1>10. ~(Len(body) > 0 /\ body[Len(body)].kind = "Br" /\ body[Len(body)].to[1] = d)
  <2> SUFFICES ASSUME Len(body) > 0, body[Len(body)].kind = "Br", body[Len(body)].to[1] = d
               PROVE  FALSE
    OBVIOUS
  <2>1. IsInst(body[Len(body)]) /\ body[Len(body)].to # <<>>
    BY <1>9 DEF IsInst, JumpKinds
  <2>2. t # <<>> /\ body[Len(body)] = t[Len(t)]
    BY <1>8, <1>9, <2>1
  <2>3. Targets(blocks[d]) = Range(t[Len(t)].to)
    BY <2>2 DEF Targets, is_terminated, Last, is_terminator, Terminators
  <2>4. d \in Range(t[Len(t)].to)
    <3> DEFINE to == body[Len(body)].to
    <3>1. to \in Seq(Int) /\ to # <<>> /\ to[1] = d
      BY <2>1 DEF IsInst
    <3> HIDE DEF to
    <3>2. 1 \in DOMAIN to
      BY <3>1, EmptySeq, LenProperties
    <3>3. d \in Range(to)
      BY <3>1, <3>2 DEF Range
    <3> QED
      BY <2>2, <3>3 DEF to
  <2>5. d \in Range(blocks[d].succs)
    BY <1>6, <2>3, <2>4 DEF TidyBlock
  <2>6. PICK e \in R : e >= d /\ d \in Range(g.blocks[e].succs)
    BY <1>2, <1>4, <2>5
  <2>7. e # b /\ e \in DOMAIN g.blocks
    BY <1>3, <1>4, <2>6
  <2> QED
    BY <1>1, <2>6, <2>7 DEF d
<1>11. Joined(blocks, b, d) = body
  BY <1>7, <1>10, Zenon DEF Joined, Join
<1>12. /\ DOMAIN new = DOMAIN blocks
       /\ \A x \in DOMAIN blocks \ {b, d} : new[x] = blocks[x]
       /\ new[b].insts = body /\ new[b].succs = blocks[d].succs
       /\ new[b].reachable = blocks[b].reachable
       /\ new[d].insts = <<>> /\ new[d].succs = <<>> /\ ~new[d].reachable
       /\ IsFramed(new)
  <2>1. \A x \in DOMAIN blocks : DOMAIN blocks[x] = DOMAIN BasicBlock
    BY <1>2 DEF IsFramed
  <2>2. b \in DOMAIN blocks /\ d \in DOMAIN blocks /\ fits(blocks, b, d)
    BY <1>2, <1>3, <1>4, <1>1 DEF d
  <2>3. IsFramed(new)
    BY <1>2, <2>2, MergeFramed
  <2> HIDE DEF body
  <2> QED
    BY <1>4, <1>11, <2>1, <2>2, <2>3, MergeShape
<1>13. Targets(blocks[b]) = {d} /\ g.blocks[b].reachable
  BY <1>4, <1>5, <1>6 DEF TidyBlock, Mergeable, X_Mergeable, Live
<1> HIDE DEF new, body, s, t
<1>14. Fused(g, R, blocks, b, d, new)
  BY <1>1, <1>3, <1>4, <1>5, <1>6, <1>7, <1>8, <1>12, <1>13 DEF Fused, body, s, t
<1> QED
  BY <1>14 DEF new, R, d

LEMMA MergeInside ==
    ASSUME NEW g, Tidy(g), NEW b \in Mergeable(g), b \in mark_reachable(g),
           NEW blocks, Joining(g, mark_reachable(g), blocks, b + 1),
           fits(blocks, b, g.blocks[b].succs[1])
    PROVE  Joining(g, mark_reachable(g), merge(blocks, b, g.blocks[b].succs[1]), b)
<1> DEFINE R == mark_reachable(g)
           d == g.blocks[b].succs[1]
           new == merge(blocks, b, d)
           s == blocks[b].insts
           t == blocks[d].insts
           body == Join(s, t)
<1>0. Fused(g, R, blocks, b, d, new)
  BY MergeMakes
<1> HIDE DEF R, d, new
<1>1. /\ b \in R /\ d \in R /\ b \in Nat /\ d \in Nat /\ d > b
      /\ \A c \in DOMAIN g.blocks \ {b} : d \notin Range(g.blocks[c].succs)
      /\ TidyBlock(blocks[d])
  BY <1>0 DEF Fused
<1>2. /\ Good(g.blocks, R) /\ IsFramed(g.blocks) /\ Closed(g.blocks, R)
      /\ Good(blocks, R) /\ IsFramed(blocks) /\ Closed(blocks, R)
      /\ DOMAIN blocks = DOMAIN g.blocks
      /\ \A x \in R : x < b + 1 => blocks[x] = g.blocks[x]
      /\ \A x \in R : \A y \in Range(blocks[x].succs) :
             \E e \in R : e >= x /\ y \in Range(g.blocks[e].succs)
  BY DEF Tidy, Good, Joining, R
<1>3. b \in Nat /\ R \subseteq Nat /\ R \subseteq DOMAIN g.blocks /\ d # b
  BY <1>1, <1>2 DEF IsFramed, Closed
<1>4. /\ IsCode(s) /\ s # <<>> /\ IsCode(t) /\ IsCode(body) /\ JumpsLast(body)
      /\ Len(body) = Len(s) - 1 + Len(t)
      /\ \A i \in 1 .. Len(s) - 1 : body[i] = s[i]
      /\ \A i \in 1 .. Len(t) : body[Len(s) - 1 + i] = t[i]
      /\ t # <<>> => body # <<>> /\ body[Len(body)] = t[Len(t)]
      /\ t = <<>> => \A i \in DOMAIN body : body[i].to = <<>>
  BY <1>0 DEF Fused
<1>5. /\ DOMAIN new = DOMAIN blocks /\ IsFramed(new)
      /\ \A x \in DOMAIN blocks \ {b, d} : new[x] = blocks[x]
      /\ new[b].insts = body /\ new[b].succs = blocks[d].succs
      /\ new[d].insts = <<>> /\ new[d].succs = <<>>
  BY <1>0 DEF Fused
<1>9. /\ Len(s) \in Nat /\ Len(s) # 0 /\ DOMAIN s = 1 .. Len(s)
      /\ Len(t) \in Nat /\ DOMAIN t = 1 .. Len(t) /\ (t # <<>> => Len(t) \in DOMAIN t)
      /\ DOMAIN body = 1 .. Len(body) /\ (Len(body) > 0 => Len(body) \in DOMAIN body)
      /\ Len(body) \in Nat /\ (body = <<>> <=> Len(body) = 0)
      /\ \A i \in DOMAIN t : IsInst(t[i])
      /\ \A i \in DOMAIN body : IsInst(body[i])
  <2>1. ASSUME NEW c, IsCode(c)
        PROVE  /\ Len(c) \in Nat /\ (c = <<>> <=> Len(c) = 0) /\ DOMAIN c = 1 .. Len(c)
               /\ c # <<>> => Len(c) \in DOMAIN c
               /\ \A i \in DOMAIN c : IsInst(c[i])
    BY <2>1, CodeFacts
  <2>2. IsCode(s) /\ s # <<>> /\ IsCode(t) /\ IsCode(body)
    BY <1>4
  <2> HIDE DEF s, t, body
  <2>3. Len(body) > 0 => body # <<>>
    BY <2>1, <2>2
  <2> QED
    BY <2>1, <2>2, <2>3
<1> HIDE DEF body, s, t
<1>13. \A x \in R : x = b \/ x = d \/ (x # b /\ x # d /\ new[x] = blocks[x])
  BY <1>2, <1>3, <1>5
<1>14. Closed(new, R)
  <2>1. Range(new[b].succs) \subseteq R /\ Range(new[d].succs) \subseteq R
    BY <1>1, <1>2, <1>3, <1>5, RangeEmpty DEF Closed
  <2> QED
    BY <1>2, <1>5, <1>13, <2>1 DEF Closed
<1>15. TidyBlock(new[b])
  <2>1. Range(new[b].succs) = Targets(blocks[d])
    BY <1>1, <1>5 DEF TidyBlock
  <2>2. Targets(new[b]) = IF body # <<>> /\ is_terminator(body[Len(body)])
                          THEN Range(body[Len(body)].to) ELSE {}
    BY <1>5 DEF Targets, is_terminated, Last
  <2>3. Targets(blocks[d]) = IF t # <<>> /\ is_terminator(t[Len(t)])
                             THEN Range(t[Len(t)].to) ELSE {}
    BY DEF Targets, is_terminated, Last, t
  <2>4. CASE t # <<>>
    BY <1>4, <1>5, <2>1, <2>2, <2>3, <2>4 DEF TidyBlock
  <2>5. CASE t = <<>>
    <3>1. body # <<>> => body[Len(body)].to = <<>>
      BY <1>4, <1>9, <2>5
    <3>2. Targets(new[b]) = {} /\ Targets(blocks[d]) = {}
      BY <2>2, <2>3, <2>5, <3>1, RangeEmpty
    <3> QED
      BY <1>4, <1>5, <2>1, <3>2 DEF TidyBlock
  <2> QED
    BY <2>4, <2>5
<1>16. TidyBlock(new[d])
  <2>1. IsCode(<<>>) /\ JumpsLast(<<>>)
    <3>1. <<>> \in Seq(Range(<<>>)) /\ DOMAIN <<>> = {}
      BY EmptySeq
    <3> QED
      BY <3>1 DEF IsCode, JumpsLast
  <2>2. Targets(new[d]) = {}
    BY <1>5 DEF Targets, is_terminated
  <2> QED
    BY <1>5, <2>1, <2>2, RangeEmpty DEF TidyBlock
<1>17. ASSUME NEW x \in R
       PROVE  TidyBlock(new[x]) /\ (Len(new[x].succs) = 1 => new[x].succs[1] > x)
  <2>1. CASE x = b
    <3>1. Len(blocks[d].succs) = 1 => blocks[d].succs[1] > d
      BY <1>1, <1>2, <1>3 DEF Good
    <3>2. Len(blocks[d].succs) = 1 => blocks[d].succs[1] \in Nat
      <4>1. blocks[d].succs \in Seq(DOMAIN blocks)
        BY <1>1, <1>2, <1>3, SeqMonotonic DEF IsFramed
      <4>2. Len(blocks[d].succs) = 1 => blocks[d].succs[1] \in DOMAIN blocks
        BY <4>1, ElementOfSeq
      <4> QED
        BY <1>2, <4>2 DEF IsFramed
    <3> QED
      BY <1>1, <1>3, <1>5, <1>15, <2>1, <3>1, <3>2
  <2>2. CASE x = d
    BY <1>5, <1>16, <2>2, EmptySeq
  <2>3. CASE x # b /\ x # d
    BY <1>2, <1>13, <1>17, <2>3 DEF Good
  <2> QED
    BY <2>1, <2>2, <2>3
<1> DEFINE home(x, i)  == IF x = b /\ ~(i < Len(s)) THEN d ELSE x
           place(x, i) == IF x = b /\ ~(i < Len(s)) THEN i - (Len(s) - 1) ELSE i
<1>18. ASSUME NEW i \in DOMAIN new[b].insts
       PROVE  \/ i < Len(s) /\ i \in DOMAIN s /\ new[b].insts[i] = s[i]
              \/ /\ ~(i < Len(s)) /\ i - (Len(s) - 1) \in DOMAIN t
                 /\ new[b].insts[i] = t[i - (Len(s) - 1)]
  <2>1. new[b].insts = body /\ i \in 1 .. Len(body) /\ Len(body) = Len(s) - 1 + Len(t)
    BY <1>4, <1>5, <1>9
  <2>2. CASE i < Len(s)
    <3>1. i \in 1 .. Len(s) - 1 /\ i \in DOMAIN s
      BY <1>9, <2>1, <2>2
    <3> QED
      BY <1>4, <2>1, <2>2, <3>1
  <2>3. CASE ~(i < Len(s))
    <3> DEFINE m == Len(s) - 1
               j == i - m
    <3>1. m \in Nat /\ Len(t) \in Nat /\ i \in Nat /\ i <= m + Len(t) /\ ~(i <= m)
      <4>1. Len(s) \in Nat /\ Len(s) # 0 /\ Len(t) \in Nat
        BY <1>9
      <4>2. i \in Nat /\ i <= Len(s) - 1 + Len(t)
        BY <2>1, <4>1
      <4> QED
        BY <2>3, <4>1, <4>2
    <3>2. \A k \in 1 .. Len(t) : body[m + k] = t[k]
      BY <1>4
    <3>3. DOMAIN t = 1 .. Len(t)
      BY <1>9
    <3> HIDE DEF m
    <3>4. j \in 1 .. Len(t) /\ m + j = i
      BY <3>1
    <3> HIDE DEF j
    <3>5. body[i] = t[j]
      BY <3>2, <3>4
    <3>6. j \in DOMAIN t /\ body[i] = t[j]
      BY <3>3, <3>4, <3>5
    <3> QED
      BY <2>1, <2>3, <3>6 DEF j, m
  <2> QED
    BY <2>2, <2>3
<1>19. ASSUME NEW x \in R, NEW i \in DOMAIN new[x].insts
       PROVE  /\ home(x, i) \in R /\ place(x, i) \in DOMAIN blocks[home(x, i)].insts
              /\ new[x].insts[i] = blocks[home(x, i)].insts[place(x, i)]
              /\ x # d
  <2>1. x # d
    BY <1>5, <1>19, EmptySeq
  <2>2. CASE x = b
    BY <1>1, <1>3, <1>18, <1>19, <2>2 DEF s, t
  <2>3. CASE x # b
    BY <1>13, <1>19, <2>1, <2>3
  <2> QED
    BY <2>1, <2>2, <2>3
<1>20. ASSUME NEW x \in R, NEW y \in R,
              NEW i \in DOMAIN new[x].insts, NEW j \in DOMAIN new[y].insts,
              x # y \/ i # j
       PROVE  home(x, i) # home(y, j) \/ place(x, i) # place(y, j)
  <2>1. x # d /\ y # d
    BY <1>19
  <2>2. (x = b => i \in Int) /\ (y = b => j \in Int)
    BY <1>5, <1>9
  <2>3. Len(s) \in Nat
    BY <1>9
  <2> QED
    BY <1>1, <1>3, <1>20, <2>1, <2>2, <2>3
<1> HIDE DEF home, place
<1>21. ASSUME NEW x \in R, NEW i \in DOMAIN new[x].insts PROVE Lasting(new[x].insts[i], R)
  <2>1. \A c \in R : \A k \in DOMAIN blocks[c].insts : Lasting(blocks[c].insts[k], R)
    BY <1>2 DEF Good
  <2> QED
    BY <1>19, <2>1
<1>22. ASSUME NEW x \in R, NEW y \in R,
              NEW i \in DOMAIN new[x].insts, NEW j \in DOMAIN new[y].insts,
              x # y \/ i # j
       PROVE  Apart(new[x].insts[i], new[y].insts[j])
  <2>1. \A c, e \in R : \A k \in DOMAIN blocks[c].insts, l \in DOMAIN blocks[e].insts :
            c # e \/ k # l => Apart(blocks[c].insts[k], blocks[e].insts[l])
    BY <1>2 DEF Good
  <2>2. home(x, i) # home(y, j) \/ place(x, i) # place(y, j)
    BY <1>20, <1>22
  <2>3. /\ home(x, i) \in R /\ place(x, i) \in DOMAIN blocks[home(x, i)].insts
        /\ new[x].insts[i] = blocks[home(x, i)].insts[place(x, i)]
        /\ home(y, j) \in R /\ place(y, j) \in DOMAIN blocks[home(y, j)].insts
        /\ new[y].insts[j] = blocks[home(y, j)].insts[place(y, j)]
    BY <1>19
  <2> QED
    BY <2>1, <2>2, <2>3
<1>23. Good(new, R)
  BY <1>5, <1>14, <1>17, <1>21, <1>22 DEF Good
<1>24. ASSUME NEW x \in R, NEW y \in Range(new[x].succs)
       PROVE  \E e \in R : e >= x /\ y \in Range(g.blocks[e].succs)
  <2>1. CASE x = b
    <3>1. y \in Range(blocks[d].succs)
      BY <1>5, <1>24, <2>1
    <3>2. \A c \in R : \A z \in Range(blocks[c].succs) :
              \E e \in R : e >= c /\ z \in Range(g.blocks[e].succs)
      BY <1>2
    <3>3. PICK e \in R : e >= d /\ y \in Range(g.blocks[e].succs)
      BY <1>1, <1>3, <3>1, <3>2
    <3>4. e \in Nat /\ d \in Nat /\ b \in Nat /\ d > b /\ e >= d
      BY <1>1, <1>3, <3>3
    <3>5. e >= x
      BY <2>1, <3>4
    <3> QED
      BY <3>3, <3>5
  <2>2. CASE x = d
    BY <1>5, <1>24, <2>2, RangeEmpty
  <2>3. CASE x # b /\ x # d
    BY <1>2, <1>13, <1>24, <2>3
  <2> QED
    BY <2>1, <2>2, <2>3
<1>25. ASSUME NEW x \in R, x < b PROVE new[x] = g.blocks[x]
  <2>1. x # b /\ x # d /\ x < b + 1
    BY <1>1, <1>3, <1>25
  <2> QED
    BY <1>2, <1>13, <2>1
<1>26. Joining(g, R, new, b)
  BY <1>2, <1>5, <1>23, <1>24, <1>25 DEF Joining
<1> QED
  BY <1>26 DEF new, R, d

LEMMA MergeTidy ==
    ASSUME NEW g, Tidy(g)
    PROVE  Tidy(merge_blocks(g).f)
<1> DEFINE n == Cardinality(DOMAIN g.blocks)
           R == mark_reachable(g)
<1>1. HasBlocks(g)
  BY DEF Tidy
<1>2. PICK p : /\ Merging(g, n, p)
               /\ merge_blocks(g) =
                      Pass([g EXCEPT !.blocks = p[n]],
                           \E k \in 1 .. n : /\ n - k \in Mergeable(g)
                                            /\ fits(p[k - 1], n - k, g.blocks[n - k].succs[1]))
  BY <1>1, Merged, Zenon
<1>3. n \in Nat
  BY <1>1, Merged, Zenon
<1>4. merge_blocks(g).f = [g EXCEPT !.blocks = p[n]]
  <2> DEFINE changed == \E k \in 1 .. n :
                            /\ n - k \in Mergeable(g)
                            /\ fits(p[k - 1], n - k, g.blocks[n - k].succs[1])
             h == [g EXCEPT !.blocks = p[n]]
  <2>1. merge_blocks(g) = Pass(h, changed)
    BY <1>2, Zenon
  <2>2. Pass(h, changed).f = h
    BY Zenon DEF Pass
  <2> HIDE DEF changed
  <2> QED
    BY <2>1, <2>2
<1>5. R \subseteq Nat
  <2>1. IsFramed(g.blocks) /\ R \subseteq DOMAIN g.blocks
    BY DEF Tidy, Good, Closed
  <2>2. PICK m \in Nat : DOMAIN g.blocks = 0 .. m
    BY <2>1 DEF IsFramed
  <2> QED
    BY <2>1, <2>2
<1> HIDE DEF R
<1> DEFINE S == {k \in 0 .. n : Joining(g, R, p[k], n - k)}
<1>6. 0 \in S
  <2>1. Joining(g, R, g.blocks, n - 0)
    BY JoiningStart DEF R
  <2> QED
    BY <1>2, <1>3, <2>1 DEF Merging
<1>7. ASSUME NEW k \in 1 .. n, k - 1 \in S PROVE k \in S
  <2> DEFINE b == n - k
             cur == p[k - 1]
             d == g.blocks[b].succs[1]
  <2>1. b \in Nat /\ n - (k - 1) = b + 1 /\ k \in 0 .. n
    BY <1>3
  <2>2. Joining(g, R, cur, b + 1)
    BY <1>7, <2>1
  <2>3. p[k] = IF b \in Mergeable(g) THEN merge(cur, b, d) ELSE cur
    BY <1>2 DEF Merging, MergeStep
  <2> HIDE DEF b, cur, n, S
  <2>4. Joining(g, R, cur, b)
    <3>1. \A x \in R : x < b => x < b + 1
      BY <1>5, <2>1
    <3> QED
      BY <2>2, <3>1 DEF Joining
  <2>5. CASE b \in Mergeable(g) /\ fits(cur, b, d)
    <3>1. Joining(g, R, merge(cur, b, d), b)
      BY <2>2, <2>5, MergeInside, MergeOutside DEF R
    <3> QED
      BY <2>1, <2>3, <2>5, <3>1 DEF S, b
  <2>6. CASE b \in Mergeable(g) /\ ~fits(cur, b, d)
    <3>1. merge(cur, b, d) = cur
      BY <2>6, Zenon DEF merge
    <3> QED
      BY <2>1, <2>3, <2>4, <2>6, <3>1 DEF S, b
  <2>7. CASE b \notin Mergeable(g)
    BY <2>1, <2>3, <2>4, <2>7 DEF S, b
  <2> QED
    BY <2>5, <2>6, <2>7
<1> HIDE DEF S, n
<1>8. 0 .. n \subseteq S
  BY <1>3, <1>6, <1>7, CountUp
<1>9. n \in S
  BY <1>3, <1>8
<1>10. DOMAIN p[n] = DOMAIN g.blocks /\ Good(p[n], R)
  BY <1>9 DEF S, Joining
<1> DEFINE h == [g EXCEPT !.blocks = p[n]]
<1>11. HasBlocks(h) /\ h.blocks = p[n]
  BY <1>1, <1>10, WithBlocks
<1> HIDE DEF h
<1>12. Tidy(h)
  BY <1>10, <1>11, GoodReached DEF Tidy
<1> QED
  BY <1>4, <1>12 DEF h

LEMMA SimplifyTidy ==
    ASSUME NEW g, Tidy(g)
    PROVE  Tidy(simplify(g).f)
<1> DEFINE p == eliminate_fallthrough_branches(g)
           q == merge_blocks(p.f)
           r == remove_unreachable(q.f)
<1>1. Tidy(p.f)
  BY CutTidy
<1> HIDE DEF p
<1>2. Tidy(q.f)
  BY <1>1, MergeTidy
<1> HIDE DEF q
<1>3. Tidy(r.f)
  BY <1>2, UnreachableTidy
<1> HIDE DEF r
<1>4. simplify(g) = Combine(Combine(p, q), remove_unreachable(Combine(p, q).f))
  BY Zenon DEF simplify, Then, p, q
<1>5. Combine(p, q).f = q.f
  BY DEF Combine, Pass
<1>6. simplify(g).f = r.f
  BY <1>4, <1>5 DEF Combine, Pass, r
<1> QED
  BY <1>3, <1>6

(* Every pass leaves a tidy function tidy.                                 *)
LEMMA PassTidy ==
    ASSUME NEW g, Tidy(g), NEW i \in DOMAIN PassNames
    PROVE  Tidy(run_pass(g, PassNames[i]).f)
<1> DEFINE p == run_pass(g, PassNames[i])
<1>1. PassNames[i] \in {"dce", "const-prop", "fold", "cse", "simplify-cfg", "tail-call",
          "pattern-match", "type-inference", "escape-analysis", "native-specialize", "speculative"}
  BY DEF PassNames
<1>2. \/ p \in {eliminate_dead_code(g), eliminate_common_subexprs(g), simplify(g),
                analyze_tail_calls(g), optimize_patterns(g)}
      \/ p \in {propagate_constants(g), fold_constants(g), infer_and_annotate(g),
                optimize_escapes(g), specialize(g), speculate(g)}
  BY <1>1 DEF run_pass
<1>3. \A q \in {propagate_constants(g), fold_constants(g), infer_and_annotate(g),
                optimize_escapes(g), specialize(g), speculate(g)} : q.f = g
  BY DEF propagate_constants, fold_constants, infer_and_annotate, optimize_escapes,
         specialize, speculate, Pass
<1> QED
  BY <1>2, <1>3, DeadCodeTidy, SubexprsTidy, SimplifyTidy, TailsTidy, PatternsTidy

-----------------------------------------------------------------------------
(* Rounds of passes.                                                       *)

Rounding(g, n, p) ==
    /\ p[0] = Pass(g, FALSE)
    /\ \A k \in 1 .. n : p[k] = Combine(p[k - 1], run_pass(p[k - 1].f, PassNames[k]))

LEMMA RoundingExists ==
    ASSUME NEW g, NEW n \in Nat
    PROVE  \E p : Rounding(g, n, p)
<1> DEFINE S == {m \in Nat : \E p : Rounding(g, m, p)}
<1>1. 0 \in S
  <2>1. Rounding(g, 0, [i \in {0} |-> Pass(g, FALSE)])
    BY DEF Rounding
  <2> QED
    BY <2>1
<1>2. ASSUME NEW m \in 1 .. n, m - 1 \in S PROVE m \in S
  <2>1. PICK p : Rounding(g, m - 1, p)
    BY <1>2
  <2> DEFINE one == Combine(p[m - 1], run_pass(p[m - 1].f, PassNames[m]))
             q == [i \in 0 .. m |-> IF i = m THEN one ELSE p[i]]
  <2> HIDE DEF one
  <2>2. q[0] = Pass(g, FALSE)
    <3>1. q[0] = p[0]
      OBVIOUS
    <3> QED
      BY <2>1, <3>1 DEF Rounding
  <2>3. ASSUME NEW i \in 1 .. m
        PROVE  q[i] = Combine(q[i - 1], run_pass(q[i - 1].f, PassNames[i]))
    <3>1. q[i - 1] = p[i - 1]
      OBVIOUS
    <3>2. i # m => i \in 1 .. m - 1 /\ q[i] = p[i]
      OBVIOUS
    <3>3. q[m] = one
      OBVIOUS
    <3> QED
      BY <2>1, <3>1, <3>2, <3>3 DEF Rounding, one
  <2>4. Rounding(g, m, q)
    BY <2>2, <2>3 DEF Rounding
  <2> QED
    BY <2>4
<1> HIDE DEF S
<1>3. 0 .. n \subseteq S
  BY <1>1, <1>2, CountUp
<1>4. n \in 0 .. n
  OBVIOUS
<1> QED
  BY <1>3, <1>4 DEF S

LEMMA RoundRuns ==
    ASSUME NEW g
    PROVE  \E p : Rounding(g, 11, p) /\ optimize_round(g) = p[11]
<1> DEFINE n == Len(PassNames)
           next(q, k) == LET before == q[k - 1]
                         IN  Combine(before, run_pass(before.f, PassNames[k]))
           run(q) == [k \in 0 .. n |-> IF k = 0 THEN Pass(g, FALSE) ELSE next(q, k)]
           after == CHOOSE q : q = run(q)
<1>1. n = 11
  BY DEF PassNames
<1>2. optimize_round(g) = after[n]
  BY Zenon DEF optimize_round
<1> HIDE DEF n
<1>3. PICK p : Rounding(g, n, p)
  BY <1>1, RoundingExists
<1> DEFINE q == [k \in 0 .. n |-> p[k]]
<1>4. q = run(q)
  <2>1. ASSUME NEW k \in 0 .. n PROVE q[k] = run(q)[k]
    <3>1. k # 0 => k \in 1 .. n /\ k - 1 \in 0 .. n
      BY <1>1
    <3>2. k # 0 => q[k - 1] = p[k - 1] /\ q[k] = p[k]
      BY <3>1
    <3> QED
      BY <1>3, <3>1, <3>2 DEF Rounding
  <2> QED
    BY <2>1
<1>5. after = run(after)
  BY <1>4, Zenon
<1> HIDE DEF after
<1>6. Rounding(g, n, after)
  <2>1. after[0] = Pass(g, FALSE)
    BY <1>1, <1>5
  <2>2. ASSUME NEW k \in 1 .. n
        PROVE  after[k] = Combine(after[k - 1], run_pass(after[k - 1].f, PassNames[k]))
    <3>1. k # 0 /\ k \in 0 .. n
      BY <1>1
    <3>2. after[k] = run(after)[k]
      BY <1>5
    <3> QED
      BY <3>1, <3>2
  <2> QED
    BY <2>1, <2>2 DEF Rounding
<1> QED
  BY <1>1, <1>2, <1>6

LEMMA RoundTidy ==
    ASSUME NEW g, Tidy(g)
    PROVE  Tidy(optimize_round(g).f)
<1>1. PICK p : Rounding(g, 11, p) /\ optimize_round(g) = p[11]
  BY RoundRuns
<1> DEFINE S == {k \in 0 .. 11 : Tidy(p[k].f)}
<1>2. 0 \in S
  BY <1>1 DEF Rounding, Pass
<1>3. ASSUME NEW k \in 1 .. 11, k - 1 \in S PROVE k \in S
  <2> DEFINE cur == p[k - 1]
  <2>1. k \in DOMAIN PassNames /\ k \in 0 .. 11
    BY DEF PassNames
  <2>2. Tidy(run_pass(cur.f, PassNames[k]).f)
    <3>1. Tidy(cur.f)
      BY <1>3
    <3> HIDE DEF cur
    <3> QED
      BY <2>1, <3>1, PassTidy
  <2>3. p[k] = Combine(cur, run_pass(cur.f, PassNames[k]))
    BY <1>1 DEF Rounding
  <2>4. \A a, c : Combine(a, c).f = c.f
    BY DEF Combine, Pass
  <2>5. p[k].f = run_pass(cur.f, PassNames[k]).f
    BY <2>3, <2>4
  <2> QED
    BY <2>1, <2>2, <2>5
<1> HIDE DEF S
<1>4. 0 .. 11 \subseteq S
  BY <1>2, <1>3, CountUp
<1> QED
  BY <1>1, <1>4 DEF S

\* The states of n rounds of optimize.
Repeating(x, n, p) ==
    /\ p[0] = [of |-> x, more |-> TRUE]
    /\ \A k \in 1 .. n : p[k] = IF p[k - 1].more THEN round(p[k - 1].of) ELSE p[k - 1]

LEMMA RepeatingExists ==
    ASSUME NEW x, NEW n \in Nat
    PROVE  \E p : Repeating(x, n, p)
<1> DEFINE S == {m \in Nat : \E p : Repeating(x, m, p)}
<1>1. 0 \in S
  <2>1. Repeating(x, 0, [i \in {0} |-> [of |-> x, more |-> TRUE]])
    BY DEF Repeating
  <2> QED
    BY <2>1
<1>2. ASSUME NEW m \in 1 .. n, m - 1 \in S PROVE m \in S
  <2>1. PICK p : Repeating(x, m - 1, p)
    BY <1>2
  <2> DEFINE one == IF p[m - 1].more THEN round(p[m - 1].of) ELSE p[m - 1]
             q == [i \in 0 .. m |-> IF i = m THEN one ELSE p[i]]
  <2>2. q[0] = [of |-> x, more |-> TRUE]
    BY <2>1 DEF Repeating
  <2>3. ASSUME NEW i \in 1 .. m
        PROVE  q[i] = IF q[i - 1].more THEN round(q[i - 1].of) ELSE q[i - 1]
    <3>1. q[i - 1] = p[i - 1]
      OBVIOUS
    <3>2. i # m => i \in 1 .. m - 1 /\ q[i] = p[i]
      OBVIOUS
    <3>3. q[m] = one
      OBVIOUS
    <3> QED
      BY <2>1, <3>1, <3>2, <3>3 DEF Repeating
  <2>4. Repeating(x, m, q)
    BY <2>2, <2>3 DEF Repeating
  <2> QED
    BY <2>4
<1> HIDE DEF S
<1>3. 0 .. n \subseteq S
  BY <1>1, <1>2, CountUp
<1>4. n \in 0 .. n
  OBVIOUS
<1> QED
  BY <1>3, <1>4 DEF S

LEMMA OptimizeRuns ==
    ASSUME NEW g
    PROVE  \E p : Repeating(g, MaxRounds, p) /\ optimize(g) = p[MaxRounds].of
<1> DEFINE n == MaxRounds
           start == [of |-> g, more |-> TRUE]
           next(q, k) == LET before == q[k - 1]
                         IN  IF before.more THEN round(before.of) ELSE before
           run(q) == [k \in 0 .. n |-> IF k = 0 THEN start ELSE next(q, k)]
           after == CHOOSE q : q = run(q)
<1>1. n \in Nat
  BY DEF MaxRounds
<1>2. optimize(g) = after[n].of
  BY Zenon DEF optimize, Again
<1> HIDE DEF n
<1>3. PICK p : Repeating(g, n, p)
  BY <1>1, RepeatingExists
<1> DEFINE q == [k \in 0 .. n |-> p[k]]
<1>4. q = run(q)
  <2>1. ASSUME NEW k \in 0 .. n PROVE q[k] = run(q)[k]
    <3>1. k # 0 => k \in 1 .. n /\ k - 1 \in 0 .. n
      BY <1>1
    <3>2. k # 0 => q[k - 1] = p[k - 1] /\ q[k] = p[k]
      BY <3>1
    <3> QED
      BY <1>3, <3>1, <3>2 DEF Repeating
  <2> QED
    BY <2>1
<1>5. after = run(after)
  BY <1>4, Zenon
<1> HIDE DEF after
<1>6. Repeating(g, n, after)
  <2>1. after[0] = start
    BY <1>1, <1>5
  <2>2. ASSUME NEW k \in 1 .. n
        PROVE  after[k] = IF after[k - 1].more THEN round(after[k - 1].of) ELSE after[k - 1]
    <3>1. k # 0 /\ k \in 0 .. n
      BY <1>1
    <3>2. after[k] = run(after)[k]
      BY <1>5
    <3> QED
      BY <3>1, <3>2
  <2> QED
    BY <2>1, <2>2 DEF Repeating
<1> QED
  BY <1>2, <1>6 DEF n

LEMMA OptimizeTidy ==
    ASSUME NEW g, Tidy(g)
    PROVE  Tidy(optimize(g))
<1>1. PICK p : Repeating(g, MaxRounds, p) /\ optimize(g) = p[MaxRounds].of
  BY OptimizeRuns
<1> DEFINE S == {k \in 0 .. MaxRounds : Tidy(p[k].of)}
<1>2. 0 \in S
  BY <1>1 DEF Repeating, MaxRounds
<1>3. ASSUME NEW k \in 1 .. MaxRounds, k - 1 \in S PROVE k \in S
  <2>1. \A h : round(h).of = optimize_round(h).f
    BY DEF round
  <2>2. p[k] = IF p[k - 1].more THEN round(p[k - 1].of) ELSE p[k - 1]
    BY <1>1 DEF Repeating
  <2>3. Tidy(p[k - 1].of) /\ k \in 0 .. MaxRounds
    BY <1>3 DEF MaxRounds
  <2>4. Tidy(round(p[k - 1].of).of)
    BY <2>1, <2>3, RoundTidy
  <2> QED
    BY <2>2, <2>3, <2>4
<1> HIDE DEF S
<1>4. 0 .. MaxRounds \subseteq S
  BY <1>2, <1>3, CountUp DEF MaxRounds
<1>5. MaxRounds \in S
  BY <1>4 DEF MaxRounds
<1> QED
  BY <1>1, <1>5 DEF S

\* The same of the rounds of a module.
ModuleRepeating(fs, n, p) ==
    /\ p[0] = [of |-> fs, more |-> TRUE]
    /\ \A k \in 1 .. n : p[k] = IF p[k - 1].more THEN module_round(p[k - 1].of) ELSE p[k - 1]

LEMMA ModuleRepeatingExists ==
    ASSUME NEW fs, NEW n \in Nat
    PROVE  \E p : ModuleRepeating(fs, n, p)
<1> DEFINE S == {m \in Nat : \E p : ModuleRepeating(fs, m, p)}
<1>1. 0 \in S
  <2>1. ModuleRepeating(fs, 0, [i \in {0} |-> [of |-> fs, more |-> TRUE]])
    BY DEF ModuleRepeating
  <2> QED
    BY <2>1
<1>2. ASSUME NEW m \in 1 .. n, m - 1 \in S PROVE m \in S
  <2>1. PICK p : ModuleRepeating(fs, m - 1, p)
    BY <1>2
  <2> DEFINE one == IF p[m - 1].more THEN module_round(p[m - 1].of) ELSE p[m - 1]
             q == [i \in 0 .. m |-> IF i = m THEN one ELSE p[i]]
  <2>2. q[0] = [of |-> fs, more |-> TRUE]
    BY <2>1 DEF ModuleRepeating
  <2>3. ASSUME NEW i \in 1 .. m
        PROVE  q[i] = IF q[i - 1].more THEN module_round(q[i - 1].of) ELSE q[i - 1]
    <3>1. q[i - 1] = p[i - 1]
      OBVIOUS
    <3>2. i # m => i \in 1 .. m - 1 /\ q[i] = p[i]
      OBVIOUS
    <3>3. q[m] = one
      OBVIOUS
    <3> QED
      BY <2>1, <3>1, <3>2, <3>3 DEF ModuleRepeating
  <2>4. ModuleRepeating(fs, m, q)
    BY <2>2, <2>3 DEF ModuleRepeating
  <2> QED
    BY <2>4
<1> HIDE DEF S
<1>3. 0 .. n \subseteq S
  BY <1>1, <1>2, CountUp
<1>4. n \in 0 .. n
  OBVIOUS
<1> QED
  BY <1>3, <1>4 DEF S

LEMMA OptimizeModuleRuns ==
    ASSUME NEW fs, MaxIter(fs) \in Nat
    PROVE  \E p : /\ ModuleRepeating(fs, MaxIter(fs), p)
                  /\ optimize_module(fs) = p[MaxIter(fs)].of
<1> DEFINE n == MaxIter(fs)
           start == [of |-> fs, more |-> TRUE]
           next(q, k) == LET before == q[k - 1]
                         IN  IF before.more THEN module_round(before.of) ELSE before
           run(q) == [k \in 0 .. n |-> IF k = 0 THEN start ELSE next(q, k)]
           after == CHOOSE q : q = run(q)
<1>1. n \in Nat
  OBVIOUS
<1>2. optimize_module(fs) = after[n].of
  BY Zenon DEF optimize_module, Again
<1> HIDE DEF n
<1>3. PICK p : ModuleRepeating(fs, n, p)
  BY <1>1, ModuleRepeatingExists
<1> DEFINE q == [k \in 0 .. n |-> p[k]]
<1>4. q = run(q)
  <2>1. ASSUME NEW k \in 0 .. n PROVE q[k] = run(q)[k]
    <3>1. k # 0 => k \in 1 .. n /\ k - 1 \in 0 .. n
      BY <1>1
    <3>2. k # 0 => q[k - 1] = p[k - 1] /\ q[k] = p[k]
      BY <3>1
    <3> QED
      BY <1>3, <3>1, <3>2 DEF ModuleRepeating
  <2> QED
    BY <2>1
<1>5. after = run(after)
  BY <1>4, Zenon
<1> HIDE DEF after
<1>6. ModuleRepeating(fs, n, after)
  <2>1. after[0] = start
    BY <1>1, <1>5
  <2>2. ASSUME NEW k \in 1 .. n
        PROVE  after[k] = IF after[k - 1].more THEN module_round(after[k - 1].of) ELSE after[k - 1]
    <3>1. k # 0 /\ k \in 0 .. n
      BY <1>1
    <3>2. after[k] = run(after)[k]
      BY <1>5
    <3> QED
      BY <3>1, <3>2
  <2> QED
    BY <2>1, <2>2 DEF ModuleRepeating
<1> QED
  BY <1>2, <1>6 DEF n

LEMMA ModuleTidy ==
    ASSUME NEW g, Tidy(g)
    PROVE  Tidy(optimize_module(<<g>>)[1])
<1> DEFINE fs == <<g>>
           n == MaxIter(fs)
<1>1. n = 10
  BY DEF MaxIter
<1>2. PICK p : ModuleRepeating(fs, n, p) /\ optimize_module(fs) = p[n].of
  BY <1>1, OptimizeModuleRuns
<1> DEFINE Fine(hs) == DOMAIN hs = {1} /\ Tidy(hs[1])
           S == {k \in 0 .. n : Fine(p[k].of)}
<1>3. Fine(fs)
  OBVIOUS
<1> HIDE DEF fs, n
<1>4. 0 \in S
  BY <1>1, <1>2, <1>3 DEF ModuleRepeating
<1>5. ASSUME NEW hs, Fine(hs) PROVE Fine(module_round(hs).of)
  <2>1. module_round(hs).of = [i \in DOMAIN hs |-> optimize(hs[i])]
    BY DEF module_round
  <2> QED
    BY <1>5, <2>1, OptimizeTidy
<1> HIDE DEF Fine
<1>6. ASSUME NEW k \in 1 .. n, k - 1 \in S PROVE k \in S
  <2>1. p[k] = IF p[k - 1].more THEN module_round(p[k - 1].of) ELSE p[k - 1]
    BY <1>2 DEF ModuleRepeating
  <2>2. Fine(p[k - 1].of) /\ k \in 0 .. n
    BY <1>1, <1>6
  <2> QED
    BY <1>5, <2>1, <2>2
<1> HIDE DEF S
<1>7. 0 .. n \subseteq S
  BY <1>1, <1>4, <1>6, CountUp
<1>8. n \in S
  BY <1>1, <1>7
<1>9. Fine(optimize_module(fs))
  BY <1>2, <1>8 DEF S
<1> QED
  BY <1>9 DEF Fine, fs

-----------------------------------------------------------------------------
(* What a function is before the first pass.                               *)

\* Blocks with code and labelled edges, all of them live.
Framed(g) ==
    /\ HasBlocks(g) /\ IsFramed(g.blocks)
    /\ \A b \in DOMAIN g.blocks : g.blocks[b].reachable /\ IsCode(g.blocks[b].insts)

(* A function the passes are trusted with is tidy.                         *)
LEMMA TrustedTidy ==
    ASSUME NEW g, Framed(g), Trusted(g), \A b \in DOMAIN g.blocks : JumpsLast(g.blocks[b].insts)
    PROVE  Tidy(g)
<1> DEFINE R == mark_reachable(g)
<1>1. HasBlocks(g) /\ IsFramed(g.blocks) /\ Closed(g.blocks, R) /\ R \subseteq DOMAIN g.blocks
  BY ReachedClosed DEF Framed, Closed
<1>2. ASSUME NEW b \in R, NEW i \in DOMAIN g.blocks[b].insts
      PROVE  <<b, i>> \in Places(g) /\ At(g, <<b, i>>) = g.blocks[b].insts[i]
  BY <1>1, <1>2 DEF Framed, Places, Positions, Live, At
<1>3. ASSUME NEW b \in R PROVE TidyBlock(g.blocks[b])
  BY <1>1, <1>3 DEF Framed, TidyBlock, Trusted, EdgesRecorded
<1>4. \A b \in R : Len(g.blocks[b].succs) = 1 => g.blocks[b].succs[1] > b
  BY DEF Trusted, JumpsForward
<1>5. ASSUME NEW b \in R, NEW i \in DOMAIN g.blocks[b].insts
      PROVE  Lasting(g.blocks[b].insts[i], R)
  <2> DEFINE inst == At(g, <<b, i>>)
  <2>1. inst.kind = "TupleGet" => inst.ns[1] >= FastIndex
    BY <1>2, <1>5 DEF Trusted, NoFastAccess
  <2>2. inst.kind = "Br" => inst.to[1] - 1 \notin R
    BY <1>2, <1>5 DEF Trusted, NoFallThrough
  <2> QED
    BY <1>2, <1>5, <2>1, <2>2 DEF Lasting
<1>6. ASSUME NEW b \in R, NEW c \in R,
             NEW i \in DOMAIN g.blocks[b].insts, NEW j \in DOMAIN g.blocks[c].insts,
             b # c \/ i # j
      PROVE  Apart(g.blocks[b].insts[i], g.blocks[c].insts[j])
  <2>1. /\ <<b, i>> \in Places(g) /\ At(g, <<b, i>>) = g.blocks[b].insts[i]
        /\ <<c, j>> \in Places(g) /\ At(g, <<c, j>>) = g.blocks[c].insts[j]
        /\ <<b, i>> # <<c, j>>
    BY <1>2, <1>6
  <2>2. NoChains(g)
    BY DEF Trusted
  <2> QED
    BY <2>1, <2>2 DEF NoChains, Apart
<1> HIDE DEF R
<1>7. Good(g.blocks, R)
  BY <1>1, <1>3, <1>4, <1>5, <1>6 DEF Good
<1> QED
  BY <1>1, <1>7 DEF R, Tidy

(* A graph that is built well: nothing jumps to its entry.                 *)
LEMMA BuiltFramed ==
    ASSUME NEW g, WellBuilt(g)
    PROVE  Framed(g) /\ \A b \in DOMAIN g.blocks : JumpsLast(g.blocks[b].insts)
<1> DEFINE D == DOMAIN g.blocks
           m == Cardinality(D) - 1
<1>1. /\ {"arity", "blocks"} \subseteq DOMAIN g /\ IsFiniteSet(D) /\ 0 \in D /\ D = 0 .. m
      /\ \A b \in D : IsBlock(g.blocks[b], D) /\ g.blocks[b].reachable
      /\ g.blocks[0].preds = {}
  BY DEF WellBuilt, IsFunction
<1>2. Cardinality(D) \in Nat
  BY <1>1, FS_CardinalityType
<1>3. m \in Nat
  BY <1>1, <1>2
<1>4. ASSUME NEW b \in D PROVE g.blocks[b].succs \in Seq(D \ {0})
  <2> DEFINE succs == g.blocks[b].succs
  <2>1. succs \in Seq(D)
    BY <1>1, <1>4 DEF IsBlock
  <2>2. Range(succs) \subseteq D /\ succs \in Seq(Range(succs))
    BY <2>1, RangeType, SeqOfRange
  <2>3. ASSUME NEW i \in DOMAIN succs PROVE succs[i] # 0
    BY <1>1, <1>4, <2>3 DEF WellBuilt, EdgesAgree
  <2>4. Range(succs) \subseteq D \ {0}
    BY <2>2, <2>3 DEF Range
  <2> HIDE DEF succs, D
  <2> QED
    BY <2>2, <2>4, SeqMonotonic DEF succs
<1> HIDE DEF m
<1>5. IsFramed(g.blocks)
  BY <1>1, <1>3, <1>4 DEF IsFramed, IsBlock
<1>6. Framed(g)
  BY <1>1, <1>5 DEF Framed, HasBlocks, IsBlock
<1>7. ASSUME NEW b \in D PROVE JumpsLast(g.blocks[b].insts)
  <2> DEFINE s == g.blocks[b].insts
  <2>1. IsCode(s)
    BY <1>1, <1>7 DEF IsBlock
  <2>2. ASSUME NEW i \in DOMAIN s, i # Len(s) PROVE s[i].to = <<>>
    <3>1. s[i].kind \notin JumpKinds
      BY <1>7, <2>2 DEF WellBuilt
    <3>2. IsInst(s[i])
      BY <2>1, <2>2 DEF IsCode
    <3> QED
      BY <3>1, <3>2 DEF IsInst
  <2> QED
    BY <2>2 DEF JumpsLast
<1> QED
  BY <1>6, <1>7

\* A single block of code, which jumps nowhere.
Single(g) ==
    /\ {"arity", "blocks"} \subseteq DOMAIN g /\ DOMAIN g.blocks = {0}
    /\ DOMAIN g.blocks[0] = DOMAIN BasicBlock
    /\ g.blocks[0].reachable /\ g.blocks[0].succs = <<>> /\ IsCode(g.blocks[0].insts)
Straight(g) == Single(g) /\ \A i \in DOMAIN g.blocks[0].insts : g.blocks[0].insts[i].to = <<>>

LEMMA SingleFramed ==
    ASSUME NEW g, Single(g)
    PROVE  Framed(g)
<1>1. IsFiniteSet({0}) /\ {0} = 0 .. 0 /\ <<>> \in Seq({0} \ {0})
  BY FS_Singleton, EmptySeq
<1>2. IsFramed(g.blocks)
  BY <1>1 DEF Single, IsFramed
<1> QED
  BY <1>1, <1>2 DEF Single, Framed, HasBlocks

LEMMA EmptyCode == IsCode(<<>>)
<1>1. <<>> \in Seq(Range(<<>>)) /\ DOMAIN <<>> = {}
  BY EmptySeq
<1> QED
  BY <1>1 DEF IsCode

LEMMA NewSingle ==
    ASSUME NEW n
    PROVE  Straight(IRFunction(n)) /\ IRFunction(n).blocks[0].insts = <<>>
<1>1. /\ IRFunction(n).blocks = [b \in {0} |-> BasicBlock]
      /\ {"arity", "blocks"} \subseteq DOMAIN IRFunction(n)
  BY DEF IRFunction
<1>2. BasicBlock.insts = <<>> /\ BasicBlock.succs = <<>> /\ BasicBlock.reachable
  BY DEF BasicBlock
<1> QED
  BY <1>1, <1>2, EmptyCode, EmptySeq DEF Single, Straight

LEMMA CodeAppend ==
    ASSUME NEW s, IsCode(s), NEW inst, IsInst(inst)
    PROVE  /\ IsCode(Append(s, inst)) /\ Len(Append(s, inst)) = Len(s) + 1
           /\ \A i \in 1 .. Len(s) : Append(s, inst)[i] = s[i]
           /\ Append(s, inst)[Len(s) + 1] = inst
<1> DEFINE t == Append(s, inst)
           S == Range(s) \union {inst}
<1>1. Len(s) \in Nat /\ s \in Seq(S) /\ \A i \in 1 .. Len(s) : IsInst(s[i])
  BY CodeFacts, SeqMonotonic
<1> HIDE DEF S
<1>2. inst \in S
  BY DEF S
<1>3. /\ t \in Seq(S) /\ Len(t) = Len(s) + 1
      /\ \A i \in 1 .. Len(s) : t[i] = s[i]
      /\ t[Len(s) + 1] = inst
  BY <1>1, <1>2, AppendProperties
<1> HIDE DEF t
<1>4. DOMAIN t = 1 .. Len(s) + 1 /\ t \in Seq(Range(t))
  BY <1>1, <1>3, LenProperties, SeqOfRange
<1>5. ASSUME NEW i \in DOMAIN t PROVE IsInst(t[i])
  <2>1. i \in 1 .. Len(s) \/ i = Len(s) + 1
    BY <1>1, <1>4
  <2> QED
    BY <1>1, <1>3, <2>1
<1>6. IsCode(t)
  BY <1>4, <1>5 DEF IsCode
<1> QED
  BY <1>3, <1>6 DEF t

LEMMA EmitStraight ==
    ASSUME NEW g, Straight(g), NEW inst, IsInst(inst), inst.to = <<>>
    PROVE  Straight(emit(g, 0, inst))
<1> DEFINE h == emit(g, 0, inst)
           s == g.blocks[0].insts
           t == Append(s, inst)
<1>1. IsCode(s) /\ Len(s) \in Nat /\ DOMAIN s = 1 .. Len(s)
  BY CodeFacts DEF Straight, Single
<1>2. /\ IsCode(t) /\ Len(t) = Len(s) + 1
      /\ \A i \in 1 .. Len(s) : t[i] = s[i]
      /\ t[Len(s) + 1] = inst
  BY <1>1, CodeAppend
<1>3. DOMAIN t = 1 .. Len(t)
  BY <1>2, CodeFacts
<1>4. /\ {"arity", "blocks"} \subseteq DOMAIN h /\ DOMAIN h.blocks = {0}
      /\ h.blocks[0] = [g.blocks[0] EXCEPT !.insts = t]
  BY DEF emit, Straight, Single
<1>5. /\ h.blocks[0].insts = t /\ h.blocks[0].succs = g.blocks[0].succs
      /\ h.blocks[0].reachable = g.blocks[0].reachable
      /\ DOMAIN h.blocks[0] = DOMAIN BasicBlock
  <2>1. DOMAIN g.blocks[0] = {"insts", "preds", "succs", "reachable"}
    BY DEF Straight, Single, BasicBlock
  <2>2. DOMAIN g.blocks[0] = DOMAIN BasicBlock
    BY DEF Straight, Single
  <2> HIDE DEF h, t
  <2> QED
    BY <1>4, <2>1, <2>2
<1> HIDE DEF h, t
<1>6. Single(h)
  BY <1>2, <1>4, <1>5 DEF Straight, Single
<1>7. ASSUME NEW i \in DOMAIN t PROVE t[i].to = <<>>
  <2>1. i \in 1 .. Len(s) \/ i = Len(s) + 1
    BY <1>1, <1>2, <1>3
  <2> QED
    BY <1>1, <1>2, <2>1 DEF Straight
<1>8. Straight(h)
  BY <1>5, <1>6, <1>7 DEF Straight
<1> QED
  BY <1>8 DEF h

-----------------------------------------------------------------------------
(* Code translated from BEAM code.                                         *)

IsBeam(inst) == inst \in [op : Nat, args : Seq([o : DOMAIN FirstId, n : Int])]

LEMMA OneInst ==
    ASSUME NEW inst, IsInst(inst)
    PROVE  IsCode(<<inst>>)
  BY DEF IsCode, Range

LEMMA TwoInsts ==
    ASSUME NEW inst, NEW next, IsInst(inst), IsInst(next)
    PROVE  IsCode(<<inst, next>>)
  BY DEF IsCode, Range

LEMMA CodeConcat ==
    ASSUME NEW s, NEW t, IsCode(s), IsCode(t)
    PROVE  IsCode(s \o t)
<1> DEFINE u == s \o t
           S == Range(s) \union Range(t)
<1>1. /\ Len(s) \in Nat /\ Len(t) \in Nat /\ s \in Seq(S) /\ t \in Seq(S)
      /\ \A i \in 1 .. Len(s) : IsInst(s[i])
      /\ \A i \in 1 .. Len(t) : IsInst(t[i])
  BY CodeFacts, SeqMonotonic
<1> HIDE DEF S
<1>2. /\ u \in Seq(S) /\ Len(u) = Len(s) + Len(t)
      /\ \A i \in 1 .. Len(s) + Len(t) : u[i] = IF i <= Len(s) THEN s[i] ELSE t[i - Len(s)]
  BY <1>1, ConcatProperties
<1> HIDE DEF u
<1>3. DOMAIN u = 1 .. Len(s) + Len(t) /\ u \in Seq(Range(u))
  BY <1>2, LenProperties, SeqOfRange
<1>4. ASSUME NEW i \in DOMAIN u PROVE IsInst(u[i])
  <2>1. i \in 1 .. Len(s) + Len(t) /\ (i <= Len(s) \/ ~(i <= Len(s)))
    BY <1>3
  <2>2. CASE i <= Len(s)
    <3>1. i \in 1 .. Len(s)
      BY <1>1, <2>1, <2>2
    <3> QED
      BY <1>1, <1>2, <2>1, <2>2, <3>1
  <2>3. CASE ~(i <= Len(s))
    <3>1. i - Len(s) \in 1 .. Len(t)
      BY <1>1, <2>1, <2>3
    <3> QED
      BY <1>1, <1>2, <2>1, <2>3, <3>1
  <2> QED
    BY <2>2, <2>3
<1> QED
  BY <1>3, <1>4 DEF IsCode, u

LEMMA InstFacts ==
    /\ \A kind : kind \notin NamingKinds \union JumpKinds =>
           IsInst(Inst(kind)) /\ \A n : IsInst(Numbered(kind, n))
    /\ \A kind : \A vs \in Seq(Int) :
           /\ kind \notin JumpKinds \union {"TupleGet"}
           /\ kind \in NamingKinds => vs # <<>>
           /\ kind = "CallBif" => Len(vs) >= 2
           => IsInst(Naming(kind, vs))
    /\ \A r, q : IsInst(Move(r, q))
    /\ \A v \in Int : IsInst(Ret(v)) /\ IsInst(Throw(v))
    /\ \A v, n \in Int : IsInst([Naming("TupleGet", <<v>>) EXCEPT !.ns = <<n>>])
    /\ \A l \in Int : IsInst(Br(l))
    /\ \A v, l \in Int : IsInst(Switch(v, <<>>, <<>>, l))
<1>1. /\ <<>> \in Seq(Int) /\ Len(<<>>) = 0
      /\ \A l \in Int : <<l>> \in Seq(Int) /\ <<l>> # <<>> /\ Len(<<l>>) = 1
  BY EmptySeq
<1>2. \A l : Append(<<>>, l) = <<l>>
  OBVIOUS
<1>3. ASSUME NEW kind, kind \notin NamingKinds \union JumpKinds
      PROVE  IsInst(Inst(kind)) /\ \A n : IsInst(Numbered(kind, n))
  BY <1>1, <1>3 DEF IsInst, Inst, Numbered, NamingKinds, JumpKinds
<1>4. ASSUME NEW kind, NEW vs \in Seq(Int), kind \notin JumpKinds \union {"TupleGet"},
             kind \in NamingKinds => vs # <<>>, kind = "CallBif" => Len(vs) >= 2
      PROVE  IsInst(Naming(kind, vs))
  BY <1>1, <1>4 DEF IsInst, Inst, Naming, JumpKinds
<1>5. /\ \A r, q : IsInst(Move(r, q))
      /\ \A v \in Int : IsInst(Ret(v)) /\ IsInst(Throw(v))
  BY <1>1 DEF IsInst, Inst, Move, Ret, Throw, JumpKinds, NamingKinds
<1>6. \A v, n \in Int : IsInst([Naming("TupleGet", <<v>>) EXCEPT !.ns = <<n>>])
  BY <1>1 DEF IsInst, Inst, Naming, JumpKinds, NamingKinds
<1>7. \A l \in Int : IsInst(Br(l))
  BY <1>1 DEF IsInst, Inst, Br, JumpKinds, NamingKinds
<1>8. \A v, l \in Int : IsInst(Switch(v, <<>>, <<>>, l))
  BY <1>1, <1>2 DEF IsInst, Inst, Switch, JumpKinds
<1> QED
  BY <1>3, <1>4, <1>5, <1>6, <1>7, <1>8

LEMMA FieldType ==
    ASSUME NEW inst, IsBeam(inst), NEW i, NEW forms
    PROVE  field(inst, i, forms) \in Int
<1> DEFINE args == inst.args
<1>1. args \in Seq([o : DOMAIN FirstId, n : Int])
  BY DEF IsBeam
<1> HIDE DEF args
<1> DEFINE Args == [o : DOMAIN FirstId, n : Int]
<1>2. \A a \in Args : a.n \in Int
  OBVIOUS
<1>3. args \in Seq(Args)
  BY <1>1
<1> HIDE DEF Args
<1>4. \A k \in DOMAIN args : args[k] \in Args
  BY <1>3, ElementOfSeq, LenProperties
<1> QED
  BY <1>2, <1>4 DEF field, args

LEMMA OperandType ==
    ASSUME NEW inst, IsBeam(inst), NEW i \in Int
    PROVE  operand(inst, i) \in Int
<1> DEFINE args == inst.args
           Forms == DOMAIN FirstId
           Args == [o : Forms, n : Int]
<1>1. args \in Seq(Args)
  BY DEF IsBeam
<1>2. \A o \in Forms : FirstId[o] \in Int
  BY DEF FirstId
<1> HIDE DEF Forms
<1>3. \A a \in Args : a.o \in Forms /\ a.n \in Int
  OBVIOUS
<1> HIDE DEF args, Args
<1>4. \A k \in DOMAIN args : args[k] \in Args
  BY <1>1, ElementOfSeq, LenProperties
<1> DEFINE a == args[i + 1]
<1>5. CASE i + 1 \in DOMAIN args
  <2>1. a.o \in Forms /\ a.n \in Int
    BY <1>3, <1>4, <1>5
  <2>2. operand(inst, i) = FirstId[a.o] + (IF a.o = "Integer" THEN i ELSE a.n)
    BY <1>5 DEF operand, args
  <2> QED
    BY <1>2, <2>1, <2>2
<1>6. CASE i + 1 \notin DOMAIN args
  BY <1>6 DEF operand, args
<1> QED
  BY <1>5, <1>6

LEMMA OperandsType ==
    ASSUME NEW inst, IsBeam(inst), NEW n \in Int
    PROVE  operands(inst, n) \in Seq(Int)
<1> DEFINE k == Len(inst.args)
           m == IF k - n < 0 THEN 0 ELSE k - n
<1>1. k \in Nat
  BY LenProperties DEF IsBeam
<1> HIDE DEF k
<1>2. m \in Nat /\ 1 .. k - n = 1 .. m
  BY <1>1
<1>3. \A j \in 1 .. m : operand(inst, n + j - 1) \in Int
  BY OperandType
<1> HIDE DEF m
<1>4. operands(inst, n) = [j \in 1 .. m |-> operand(inst, n + j - 1)]
  BY <1>2 DEF operands, k
<1> QED
  BY <1>2, <1>3, <1>4, IsASeq

(* Whatever a BEAM instruction is translated to is code.                   *)
LEMMA TranslatedInst ==
    ASSUME NEW inst, IsBeam(inst)
    PROVE  IsCode(translate_beam_instruction(inst))
<1>1. ASSUME NEW kind, kind \notin NamingKinds \union JumpKinds
      PROVE  IsCode(<<Inst(kind)>>) /\ \A n : IsCode(<<Numbered(kind, n)>>)
  BY <1>1, InstFacts, OneInst
<1>2. /\ \A r, q : IsCode(<<Move(r, q)>>)
      /\ \A v \in Int : IsCode(<<Ret(v)>>) /\ IsCode(<<Throw(v)>>)
      /\ \A v, n \in Int : IsCode(<<[Naming("TupleGet", <<v>>) EXCEPT !.ns = <<n>>]>>)
      /\ \A l \in Int : IsCode(<<Br(l)>>)
      /\ \A v, l \in Int : IsCode(<<Switch(v, <<>>, <<>>, l)>>)
  BY InstFacts, OneInst
<1>3. ASSUME NEW kind, NEW vs \in Seq(Int), kind \notin JumpKinds \union {"TupleGet"},
             vs # <<>>, kind = "CallBif" => Len(vs) >= 2
      PROVE  IsCode(<<Naming(kind, vs)>>) /\ IsCode(<<Inst("GcSafe"), Naming(kind, vs)>>)
  <2>1. IsInst(Naming(kind, vs)) /\ IsInst(Inst("GcSafe"))
    BY <1>3, InstFacts DEF JumpKinds, NamingKinds
  <2> QED
    BY <2>1, OneInst, TwoInsts
<1>4. \A i : int_op(inst, i) \in Int /\ label_op(inst, i) \in Int
  BY FieldType DEF int_op, label_op
<1>5. ASSUME Plain(inst.op) # {}
      PROVE  IsCode(<<Inst(PlainKind(inst.op))>>)
  <2>1. \A k \in DOMAIN PlainOpcodes : k \notin NamingKinds \union JumpKinds
    BY DEF PlainOpcodes, JumpKinds, NamingKinds
  <2>2. PlainKind(inst.op) \in DOMAIN PlainOpcodes
    BY <1>5 DEF Plain, PlainKind
  <2> QED
    BY <1>1, <2>1, <2>2
<1>6. /\ operand(inst, 0) \in Int /\ operand(inst, 1) \in Int /\ operand(inst, 2) \in Int
      /\ operands(inst, 1) \in Seq(Int) /\ operands(inst, 2) \in Seq(Int)
      /\ operands(inst, 3) \in Seq(Int)
  <2>1. \A i \in Int : operand(inst, i) \in Int /\ operands(inst, i) \in Seq(Int)
    BY OperandType, OperandsType
  <2>2. 0 \in Int /\ 1 \in Int /\ 2 \in Int /\ 3 \in Int
    OBVIOUS
  <2> QED
    BY <2>1, <2>2, Zenon
<1>7. /\ \A n : IsCode(<<Numbered("Alloc", n)>>) /\ IsCode(<<Numbered("ConsumeReductions", n)>>)
      /\ IsCode(<<Inst("Nop")>>)
  BY <1>1 DEF JumpKinds, NamingKinds
<1>8. /\ Plain(inst.op) # {} => IsCode(<<Inst(PlainKind(inst.op))>>)
      /\ IsCode(<<Move(reg(inst, 0), reg(inst, 1))>>)
      /\ IsCode(<<Ret(0)>>)
      /\ IsCode(<<Numbered("Alloc", int_op(inst, 0))>>)
      /\ IsCode(<<Throw(operand(inst, 0))>>)
      /\ IsCode(<<Numbered("ConsumeReductions", 1)>>)
      /\ IsCode(<<Inst("Nop")>>)
  <2>1. 0 \in Int
    OBVIOUS
  <2> QED
    BY <1>2, <1>5, <1>6, <1>7, <2>1, Zenon
<1>9. /\ IsCode(<<Br(label_op(inst, 0))>>)
      /\ IsCode(<<Switch(operand(inst, 0), <<>>, <<>>, label_op(inst, 1))>>)
      /\ IsCode(<<[Naming("TupleGet", <<operand(inst, 1)>>) EXCEPT !.ns = <<int_op(inst, 2)>>]>>)
      /\ IsCode(<<[Naming("TupleGet", <<operand(inst, 0)>>) EXCEPT !.ns = <<0>>]>>)
  <2>1. 0 \in Int
    OBVIOUS
  <2> QED
    BY <1>2, <1>4, <1>6, <2>1, Zenon
<1>10. \A v, w, u \in Int : /\ <<v>> \in Seq(Int) /\ <<v>> # <<>> /\ Len(<<v>>) = 1
                            /\ <<v, w>> \in Seq(Int) /\ <<v, w>> # <<>> /\ Len(<<v, w>>) = 2
                            /\ <<v, w, u>> \in Seq(Int) /\ <<v, w, u>> # <<>>
  OBVIOUS
<1>11. \A s, t \in Seq(Int) :
           s # <<>> => s \o t \in Seq(Int) /\ s \o t # <<>> /\ Len(s \o t) >= Len(s)
  <2> SUFFICES ASSUME NEW s \in Seq(Int), NEW t \in Seq(Int), s # <<>>
               PROVE  s \o t \in Seq(Int) /\ s \o t # <<>> /\ Len(s \o t) >= Len(s)
    OBVIOUS
  <2>1. s \o t \in Seq(Int) /\ Len(s \o t) = Len(s) + Len(t)
    BY ConcatProperties
  <2>2. Len(s) \in Nat /\ Len(t) \in Nat /\ Len(s) # 0
    BY LenProperties, EmptySeq
  <2> QED
    BY <2>1, <2>2, EmptySeq
<1>12. /\ callee(inst) \in Seq(Int) /\ callee(inst) # <<>> /\ Len(callee(inst)) = 2
  BY <1>6, <1>10 DEF callee
<1>13. \A t \in Seq(Int) : /\ callee(inst) \o t \in Seq(Int) /\ callee(inst) \o t # <<>>
                           /\ Len(callee(inst) \o t) >= 2
                           /\ <<operand(inst, 0)>> \o t \in Seq(Int)
                           /\ <<operand(inst, 0)>> \o t # <<>>
  BY <1>6, <1>10, <1>11, <1>12
<1>14. /\ IsCode(<<Inst("GcSafe"), Naming("CallBif", callee(inst) \o operands(inst, 3))>>)
       /\ IsCode(<<Naming("CallBif", callee(inst) \o operands(inst, 2))>>)
       /\ IsCode(<<Naming("CallBif", callee(inst))>>)
  <2>1. "CallBif" \notin JumpKinds \union {"TupleGet"}
    BY DEF JumpKinds
  <2>2. ASSUME NEW vs \in Seq(Int), vs # <<>>, Len(vs) >= 2
        PROVE  IsCode(<<Naming("CallBif", vs)>>) /\ IsCode(<<Inst("GcSafe"), Naming("CallBif", vs)>>)
    BY <1>3, <2>1, <2>2
  <2>3. Len(callee(inst)) >= 2
    BY <1>12
  <2> QED
    BY <1>6, <1>12, <1>13, <2>2, <2>3, Zenon
<1>15. /\ IsCode(<<Naming("Call", <<operand(inst, 0)>> \o operands(inst, 1))>>)
       /\ IsCode(<<Naming("TailCall", <<operand(inst, 0)>> \o operands(inst, 1))>>)
       /\ IsCode(<<Naming("MakeFun", callee(inst) \o operands(inst, 3))>>)
  BY <1>3, <1>6, <1>13 DEF JumpKinds
<1>16. /\ IsCode(<<Naming("TupleSet", <<operand(inst, 0), operand(inst, 1)>>)>>)
       /\ IsCode(<<Naming("TupleSet", <<operand(inst, 0), operand(inst, 2)>>)>>)
       /\ IsCode(<<Naming("Send", <<operand(inst, 0), operand(inst, 1)>>)>>)
       /\ IsCode(<<Naming("BinaryNew", <<operand(inst, 0)>>)>>)
       /\ IsCode(<<Naming("BinarySize", <<operand(inst, 0)>>)>>)
  BY <1>3, <1>6, <1>10 DEF JumpKinds
<1>17. /\ IsCode(<<Naming("BinaryExtract", <<operand(inst, 0), operand(inst, 1), operand(inst, 2)>>)>>)
       /\ IsCode(<<Naming("BinaryExtract", <<operand(inst, 0), 0, operand(inst, 1)>>)>>)
  <2>1. ASSUME NEW v \in Int, NEW w \in Int, NEW u \in Int
        PROVE  IsCode(<<Naming("BinaryExtract", <<v, w, u>>)>>)
    BY <1>3, <1>10 DEF JumpKinds
  <2>2. 0 \in Int
    OBVIOUS
  <2> QED
    BY <1>6, <2>1, <2>2, Zenon
<1> QED
  BY <1>8, <1>9, <1>14, <1>15, <1>16, <1>17, SMTT(30) DEF translate_beam_instruction

\* The code made of the first n instructions.
Making(code, n, p) ==
    p[0] = <<>> /\ \A k \in 1 .. n : p[k] = p[k - 1] \o translate_beam_instruction(code[k])

LEMMA MakingExists ==
    ASSUME NEW code, NEW n \in Nat
    PROVE  \E p : Making(code, n, p)
<1> DEFINE S == {m \in Nat : \E p : Making(code, m, p)}
<1>1. 0 \in S
  <2>1. Making(code, 0, [i \in {0} |-> <<>>])
    BY DEF Making
  <2> QED
    BY <2>1
<1>2. ASSUME NEW m \in 1 .. n, m - 1 \in S PROVE m \in S
  <2>1. PICK p : Making(code, m - 1, p)
    BY <1>2
  <2> DEFINE one == p[m - 1] \o translate_beam_instruction(code[m])
             q == [i \in 0 .. m |-> IF i = m THEN one ELSE p[i]]
  <2> HIDE DEF one
  <2>2. q[0] = <<>>
    <3>1. q[0] = p[0]
      OBVIOUS
    <3> QED
      BY <2>1, <3>1 DEF Making
  <2>3. ASSUME NEW i \in 1 .. m
        PROVE  q[i] = q[i - 1] \o translate_beam_instruction(code[i])
    <3>1. q[i - 1] = p[i - 1]
      OBVIOUS
    <3>2. i # m => i \in 1 .. m - 1 /\ q[i] = p[i]
      OBVIOUS
    <3>3. q[m] = one
      OBVIOUS
    <3> QED
      BY <2>1, <3>1, <3>2, <3>3 DEF Making, one
  <2>4. Making(code, m, q)
    BY <2>2, <2>3 DEF Making
  <2> QED
    BY <2>4
<1> HIDE DEF S
<1>3. 0 .. n \subseteq S
  BY <1>1, <1>2, CountUp
<1>4. n \in 0 .. n
  OBVIOUS
<1> QED
  BY <1>3, <1>4 DEF S

LEMMA TranslationRuns ==
    ASSUME NEW arity, NEW code, Len(code) \in Nat
    PROVE  \E p : /\ Making(code, Len(code), p)
                  /\ translate_beam_function(arity, code) =
                         LET body == p[Len(code)]
                             ends == body # <<>> /\ is_terminator(body[Len(body)])
                         IN  [IRFunction(arity) EXCEPT
                                 !.blocks[0].insts = IF ends THEN body ELSE Append(body, Ret(0))]
<1> DEFINE n == Len(code)
           run(q) == [k \in 0 .. n |->
                         IF k = 0 THEN <<>>
                         ELSE q[k - 1] \o translate_beam_instruction(code[k])]
           made == CHOOSE q : q = run(q)
<1>1. n \in Nat
  OBVIOUS
<1> HIDE DEF n
<1>2. PICK p : Making(code, n, p)
  BY <1>1, MakingExists
<1> DEFINE q == [k \in 0 .. n |-> p[k]]
<1>3. q = run(q)
  <2>1. ASSUME NEW k \in 0 .. n PROVE q[k] = run(q)[k]
    <3>1. k # 0 => k \in 1 .. n /\ k - 1 \in 0 .. n
      BY <1>1
    <3>2. k # 0 => q[k - 1] = p[k - 1] /\ q[k] = p[k]
      BY <3>1
    <3> QED
      BY <1>2, <3>1, <3>2 DEF Making
  <2> QED
    BY <2>1
<1>4. made = run(made)
  BY <1>3, Zenon
<1>5. translate_beam_function(arity, code) =
          LET body == made[n]
              ends == body # <<>> /\ is_terminator(body[Len(body)])
          IN  [IRFunction(arity) EXCEPT
                  !.blocks[0].insts = IF ends THEN body ELSE Append(body, Ret(0))]
  BY Zenon DEF translate_beam_function, n
<1> HIDE DEF made
<1>6. Making(code, n, made)
  <2>1. made[0] = <<>>
    BY <1>1, <1>4
  <2>2. ASSUME NEW k \in 1 .. n
        PROVE  made[k] = made[k - 1] \o translate_beam_instruction(code[k])
    <3>1. k # 0 /\ k \in 0 .. n
      BY <1>1
    <3>2. made[k] = run(made)[k]
      BY <1>4
    <3> QED
      BY <3>1, <3>2
  <2> QED
    BY <2>1, <2>2 DEF Making
<1> QED
  BY <1>5, <1>6, Zenon DEF n

(* A translated function is one block of code that ends in a terminator.   *)
LEMMA TranslatedSingle ==
    ASSUME NEW arity, NEW code, code \in Seq([op : Nat, args : Seq([o : DOMAIN FirstId, n : Int])])
    PROVE  LET g == translate_beam_function(arity, code)
           IN  Single(g) /\ is_terminated(g.blocks[0])
<1> DEFINE g == translate_beam_function(arity, code)
           n == Len(code)
<1>1. n \in Nat /\ \A k \in 1 .. n : IsBeam(code[k])
  BY ElementOfSeq, LenProperties DEF IsBeam
<1>2. PICK p : /\ Making(code, n, p)
               /\ g = LET body == p[n]
                          ends == body # <<>> /\ is_terminator(body[Len(body)])
                      IN  [IRFunction(arity) EXCEPT
                              !.blocks[0].insts = IF ends THEN body ELSE Append(body, Ret(0))]
  BY <1>1, TranslationRuns, Zenon
<1> DEFINE body == p[n]
           ends == body # <<>> /\ is_terminator(body[Len(body)])
           all == IF ends THEN body ELSE Append(body, Ret(0))
<1>3. g = [IRFunction(arity) EXCEPT !.blocks[0].insts = all]
  BY <1>2, Zenon
<1> HIDE DEF g, n
<1>4. IsCode(body)
  <2> DEFINE S == {k \in 0 .. n : IsCode(p[k])}
  <2>1. 0 \in S
    BY <1>1, <1>2, EmptyCode DEF Making
  <2>2. ASSUME NEW k \in 1 .. n, k - 1 \in S PROVE k \in S
    <3>1. p[k] = p[k - 1] \o translate_beam_instruction(code[k])
      BY <1>2 DEF Making
    <3>2. IsCode(translate_beam_instruction(code[k]))
      BY <1>1, TranslatedInst
    <3>3. IsCode(p[k - 1]) /\ k \in 0 .. n
      BY <1>1, <2>2
    <3> QED
      BY <3>1, <3>2, <3>3, CodeConcat
  <2> HIDE DEF S
  <2>3. 0 .. n \subseteq S
    BY <1>1, <2>1, <2>2, CountUp
  <2>4. n \in S
    BY <1>1, <2>3
  <2> QED
    BY <2>4 DEF S
<1>5. IsCode(all) /\ all # <<>> /\ is_terminator(all[Len(all)])
  <2>1. CASE ends
    BY <1>4, <2>1
  <2>2. CASE ~ends
    <3>1. IsInst(Ret(0)) /\ is_terminator(Ret(0))
      <4>1. IsInst(Ret(0))
        BY InstFacts
      <4>2. is_terminator(Ret(0))
        BY DEF Ret, Inst, is_terminator, Terminators
      <4> QED
        BY <4>1, <4>2
    <3> DEFINE t == Append(body, Ret(0))
    <3>2. IsCode(t) /\ Len(t) = Len(body) + 1 /\ t[Len(body) + 1] = Ret(0)
      BY <1>4, <3>1, CodeAppend
    <3>3. all = t
      BY <2>2
    <3> HIDE DEF t, all
    <3>4. Len(body) \in Nat
      BY <1>4, CodeFacts
    <3>5. t # <<>>
      BY <3>2, <3>4, EmptySeq
    <3> QED
      BY <3>1, <3>2, <3>3, <3>5
  <2> QED
    BY <2>1, <2>2
<1> HIDE DEF all
<1>6. /\ Single(IRFunction(arity))
      /\ DOMAIN IRFunction(arity).blocks[0] = {"insts", "preds", "succs", "reachable"}
  BY NewSingle DEF Straight, Single, BasicBlock
<1>7. /\ {"arity", "blocks"} \subseteq DOMAIN g /\ DOMAIN g.blocks = {0}
      /\ g.blocks[0] = [IRFunction(arity).blocks[0] EXCEPT !.insts = all]
  BY <1>3, <1>6 DEF Single
<1>8. /\ g.blocks[0].insts = all
      /\ g.blocks[0].succs = IRFunction(arity).blocks[0].succs
      /\ g.blocks[0].reachable = IRFunction(arity).blocks[0].reachable
      /\ DOMAIN g.blocks[0] = DOMAIN IRFunction(arity).blocks[0]
  BY <1>6, <1>7
<1>9. Single(g) /\ is_terminated(g.blocks[0])
  BY <1>5, <1>6, <1>7, <1>8 DEF Single, is_terminated
<1> QED
  BY <1>9 DEF g

-----------------------------------------------------------------------------
(* Instructions the builder makes of those on its menu.                    *)

LEMMA FieldsOfInst ==
    ASSUME NEW inst, IsInst(inst)
    PROVE  /\ \A v : LET h == WithResult(inst, v)
                     IN  /\ DOMAIN h = DOMAIN inst /\ h.kind = inst.kind /\ h.to = inst.to
                         /\ h.ns = inst.ns /\ h.ops = inst.ops /\ h.ids = inst.ids
           /\ \A vs : LET h == WithOperands(inst, vs)
                      IN  /\ DOMAIN h = DOMAIN inst /\ h.kind = inst.kind /\ h.to = inst.to
                          /\ h.ns = inst.ns /\ h.ops = vs /\ h.ids = inst.ids
           /\ \A vs : LET h == [inst EXCEPT !.ids = vs]
                      IN  /\ DOMAIN h = DOMAIN inst /\ h.kind = inst.kind /\ h.to = inst.to
                          /\ h.ns = inst.ns /\ h.ops = inst.ops /\ h.ids = vs
<1>1. DOMAIN inst = {"kind", "res", "ops", "ids", "ns", "to", "regs", "ty"}
  BY DEF IsInst, Inst
<1>2. \A v : LET h == WithResult(inst, v)
             IN  /\ DOMAIN h = DOMAIN inst /\ h.kind = inst.kind /\ h.to = inst.to
                 /\ h.ns = inst.ns /\ h.ops = inst.ops /\ h.ids = inst.ids
  BY <1>1 DEF WithResult
<1>3. \A vs : LET h == WithOperands(inst, vs)
              IN  /\ DOMAIN h = DOMAIN inst /\ h.kind = inst.kind /\ h.to = inst.to
                  /\ h.ns = inst.ns /\ h.ops = vs /\ h.ids = inst.ids
  BY <1>1 DEF WithOperands
<1>4. \A vs : LET h == [inst EXCEPT !.ids = vs]
              IN  /\ DOMAIN h = DOMAIN inst /\ h.kind = inst.kind /\ h.to = inst.to
                  /\ h.ns = inst.ns /\ h.ops = inst.ops /\ h.ids = vs
  BY <1>1
<1> QED
  BY <1>2, <1>3, <1>4

LEMMA LikeInst ==
    ASSUME NEW inst, IsInst(inst), NEW h,
           DOMAIN h = DOMAIN inst, h.kind = inst.kind, h.to = inst.to, h.ns = inst.ns,
           h.ids = inst.ids, h.ops \in Seq(Int)
    PROVE  IsInst(h)
  BY DEF IsInst

LEMMA ResultInst ==
    ASSUME NEW inst, IsInst(inst), NEW v
    PROVE  IsInst(WithResult(inst, v)) /\ WithResult(inst, v).to = inst.to
<1> DEFINE h == WithResult(inst, v)
<1>1. /\ DOMAIN h = DOMAIN inst /\ h.kind = inst.kind /\ h.to = inst.to
      /\ h.ns = inst.ns /\ h.ops = inst.ops /\ h.ids = inst.ids
  BY FieldsOfInst
<1>2. inst.ops \in Seq(Int)
  BY DEF IsInst
<1> HIDE DEF h
<1>3. IsInst(h)
  BY <1>1, <1>2, LikeInst
<1> QED
  BY <1>1, <1>3 DEF h

LEMMA OperandsInst ==
    ASSUME NEW inst, IsInst(inst), NEW vs \in Seq(Int)
    PROVE  IsInst(WithOperands(inst, vs)) /\ WithOperands(inst, vs).to = inst.to
<1> DEFINE h == WithOperands(inst, vs)
<1>1. /\ DOMAIN h = DOMAIN inst /\ h.kind = inst.kind /\ h.to = inst.to
      /\ h.ns = inst.ns /\ h.ops = vs /\ h.ids = inst.ids
  BY FieldsOfInst
<1> HIDE DEF h
<1>2. IsInst(h)
  BY <1>1, LikeInst
<1> QED
  BY <1>1, <1>2 DEF h

LEMMA ListedInst ==
    ASSUME NEW inst, IsInst(inst), NEW full \in AsListed(inst)
    PROVE  IsInst(full) /\ full.to = inst.to
<1>1. inst.ops \o inst.ids \in Seq(Int)
  BY ConcatProperties DEF IsInst
<1>2. IsInst(Complete(inst)) /\ Complete(inst).to = inst.to
  BY <1>1, OperandsInst DEF Complete
<1> QED
  BY <1>2 DEF AsListed

LEMMA NamingInst ==
    ASSUME NEW inst, IsInst([inst EXCEPT !.ids = << 0 >>]), inst.kind \notin JumpKinds,
           NEW v \in Int, NEW full \in AsListed([inst EXCEPT !.ids = <<v>>])
    PROVE  IsInst(full) /\ full.to = <<>>
<1> DEFINE g == [inst EXCEPT !.ids = << 0 >>]
           h == [inst EXCEPT !.ids = <<v>>]
<1>1. /\ DOMAIN g = DOMAIN inst
      /\ DOMAIN inst = {"kind", "res", "ops", "ids", "ns", "to", "regs", "ty"}
  BY DEF IsInst, Inst
<1>2. /\ h.kind = inst.kind /\ h.to = inst.to /\ h.ns = inst.ns /\ h.ops = inst.ops
      /\ h.ids = <<v>> /\ DOMAIN h = DOMAIN inst
      /\ g.kind = inst.kind /\ g.to = inst.to /\ g.ns = inst.ns /\ g.ops = inst.ops
      /\ g.ids = << 0 >>
  BY <1>1
<1>3. full \in AsListed(h) /\ IsInst(g)
  OBVIOUS
<1> HIDE DEF h, g
<1>4. /\ <<v>> \in Seq(Int) /\ <<v>> # <<>> /\ Len(<<v>>) = 1 /\ Len(<< 0 >>) = 1
      /\ ~(1 >= 2)
  OBVIOUS
<1>5. IsInst(h) /\ h.to = <<>>
  BY <1>1, <1>2, <1>3, <1>4 DEF IsInst, JumpKinds
<1> QED
  BY <1>3, <1>5, ListedInst

\* What reads a register or returns is no jump.
LEMMA PlainInst ==
    /\ \A r : IsInst(GetReg(r)) /\ GetReg(r).to = <<>>
    /\ \A v \in Int : \A ret \in AsListed(Ret(v)) : IsInst(ret) /\ ret.to = <<>>
<1>1. \A r : IsInst(GetReg(r)) /\ GetReg(r).to = <<>>
  BY EmptySeq DEF GetReg, Inst, IsInst, JumpKinds, NamingKinds
<1>2. ASSUME NEW v \in Int, NEW ret \in AsListed(Ret(v))
      PROVE  IsInst(ret) /\ ret.to = <<>>
  <2>1. Ret(v).to = <<>>
    BY DEF Ret, Inst
  <2>2. IsInst(Ret(v))
    BY InstFacts
  <2> QED
    BY <2>1, <2>2, ListedInst
<1> QED
  BY <1>1, <1>2

-----------------------------------------------------------------------------
(* The edges of a block that runs are those of its last instruction.       *)

\* While a function is built it has one block without jumps; then, if the passes
\* can be trusted with it, its reached blocks stay tidy.
TidyInv ==
    /\ phase = "build" => menu \in Menus /\ Straight(f)
    /\ Trusting => Tidy(f)

LEMMA PromiseTrusted ==
    ASSUME NEW g, Promise(g) # <<>>
    PROVE  Trusted(g)
  BY DEF Promise

LEMMA StraightTidy ==
    ASSUME NEW g, Straight(g), Trusted(g)
    PROVE  Tidy(g)
<1>1. Framed(g) /\ \A b \in DOMAIN g.blocks : JumpsLast(g.blocks[b].insts)
  BY SingleFramed DEF Straight, Single, JumpsLast
<1> QED
  BY <1>1, TrustedTidy

LEMMA TranslatedTidy ==
    ASSUME NEW g, Single(g), is_terminated(g.blocks[0]), Trusted(g)
    PROVE  Tidy(g)
<1> DEFINE last == Last(g.blocks[0])
<1>1. Framed(g) /\ 0 \in mark_reachable(g)
  BY SingleFramed, ReachedClosed DEF Framed, Closed
<1>2. Range(last.to) = {}
  <2>1. Range(g.blocks[0].succs) = Targets(g.blocks[0])
    BY <1>1 DEF Trusted, EdgesRecorded
  <2>2. g.blocks[0].succs = <<>>
    BY DEF Single
  <2> QED
    BY <2>1, <2>2, RangeEmpty DEF Targets
<1>3. last.to \in Seq(Int)
  <2>1. IsCode(g.blocks[0].insts) /\ g.blocks[0].insts # <<>>
    BY DEF Single, is_terminated
  <2>2. Len(g.blocks[0].insts) \in DOMAIN g.blocks[0].insts
    BY <2>1, CodeFacts
  <2> QED
    BY <2>1, <2>2 DEF IsCode, IsInst, Last
<1> HIDE DEF last
<1>4. last.to = <<>>
  <2> SUFFICES ASSUME NEW to \in Seq(Int), Range(to) = {} PROVE to = <<>>
    BY <1>2, <1>3
  <2>1. Len(to) \in Nat /\ DOMAIN to = 1 .. Len(to)
    BY LenProperties
  <2>2. \A i \in DOMAIN to : to[i] \in Range(to)
    BY DEF Range
  <2>3. 1 \notin DOMAIN to
    BY <2>2
  <2>4. Len(to) = 0
    <3> DEFINE n == Len(to)
    <3>1. n \in Nat /\ 1 \notin 1 .. n
      BY <2>1, <2>3
    <3> HIDE DEF n
    <3>2. n = 0
      BY <3>1
    <3> QED
      BY <3>2 DEF n
  <2> QED
    BY <2>4, EmptySeq
<1>5. \A b \in DOMAIN g.blocks : JumpsLast(g.blocks[b].insts)
  BY <1>4 DEF Single, JumpsLast, is_terminated, Last, last
<1> QED
  BY <1>1, <1>5, TrustedTidy

LEMMA InitTidy == OptimizerInit => TidyInv
<1> SUFFICES ASSUME OptimizerInit PROVE TidyInv
  OBVIOUS
<1>1. ASSUME NEW m \in Menus, Building(m) PROVE TidyInv
  <2>1. Straight(IRFunction(2)) /\ \A n : IsInst(GetReg(X(n))) /\ GetReg(X(n)).to = <<>>
    BY NewSingle, PlainInst
  <2>2. \A n, v : IsInst(WithResult(GetReg(X(n)), v)) /\ WithResult(GetReg(X(n)), v).to = <<>>
    BY <2>1, ResultInst
  <2>3. Straight(Front)
    BY <2>1, <2>2, EmitStraight DEF Front, emit_with_result
  <2> QED
    BY <1>1, <2>3 DEF Building, TidyInv, Trusting
<1>2. ASSUME NEW g \in Graphs, Ready(g) PROVE TidyInv
  <2>1. Framed(g) /\ \A b \in DOMAIN g.blocks : JumpsLast(g.blocks[b].insts)
    BY OptimizerAssumption, BuiltFramed
  <2>2. Trusted(g) => Tidy(g)
    BY <2>1, TrustedTidy
  <2> QED
    BY <1>2, <2>2, PromiseTrusted DEF Ready, TidyInv, Trusting
<1>3. ASSUME NEW p \in Programs, Ready(translate_beam_function(p.arity, p.code)) PROVE TidyInv
  <2> DEFINE g == translate_beam_function(p.arity, p.code)
  <2>1. Single(g) /\ is_terminated(g.blocks[0])
    BY OptimizerAssumption, TranslatedSingle
  <2> HIDE DEF g
  <2>2. Trusted(g) => Tidy(g)
    BY <2>1, TranslatedTidy
  <2>3. Ready(g)
    BY <1>3 DEF g
  <2> QED
    BY <2>2, <2>3, PromiseTrusted DEF Ready, TidyInv, Trusting
<1> QED
  BY <1>1, <1>2, <1>3 DEF OptimizerInit

LEMMA StepTidy == TidyInv /\ [OptimizerNext]_ovars => TidyInv'
<1> SUFFICES ASSUME TidyInv, [OptimizerNext]_ovars PROVE TidyInv'
  OBVIOUS
<1>1. ASSUME phase = "build"
      PROVE  /\ menu \in Menus /\ Straight(f)
             /\ next_value_id \in Int /\ \A v \in Defined : v \in Int
  <2>1. menu \in Menus /\ Straight(f)
    BY <1>1 DEF TidyInv
  <2>2. Len(f.blocks[0].insts) \in Nat
    BY <2>1, CodeFacts DEF Straight, Single
  <2> QED
    BY <2>1, <2>2 DEF Defined, next_value_id
<1>2. ASSUME phase = "build", NEW inst, IsInst(inst), inst.to = <<>>, Emit(emit(f, 0, inst))
      PROVE  TidyInv'
  <2>1. Straight(emit(f, 0, inst))
    BY <1>1, <1>2, EmitStraight
  <2> QED
    BY <1>1, <1>2, <2>1 DEF Emit, TidyInv, Trusting
<1>3. ASSUME phase = "build", NEW inst, IsInst(inst), inst.to = <<>>, NEW v,
             Emit(emit_with_result(f, 0, inst, v))
      PROVE  TidyInv'
  BY <1>2, <1>3, ResultInst DEF emit_with_result
<1>4. ASSUME phase = "build", NEW k \in menu.two \union menu.one
      PROVE  /\ IsInst(Inst(k)) /\ Inst(k).to = <<>>
             /\ \A vs \in Seq(Int) : /\ IsInst(WithOperands(Inst(k), vs))
                                     /\ WithOperands(Inst(k), vs).to = <<>>
  <2>1. IsInst(Inst(k)) /\ Inst(k).to = <<>>
    BY <1>1, <1>4, OptimizerAssumption DEF Inst
  <2> QED
    BY <2>1, OperandsInst
<1>5. ASSUME phase = "build", NEW inst,
             \/ inst \in menu.none
             \/ inst \in menu.effects /\ inst.kind = "ConsumeReductions"
      PROVE  IsInst(inst) /\ inst.to = <<>>
  <2>1. IsInst(inst) /\ inst.kind \notin JumpKinds
    BY <1>1, <1>5, OptimizerAssumption
  <2> QED
    BY <2>1 DEF IsInst
<1> DEFINE Template(inst) == /\ IsInst([inst EXCEPT !.ids = <<0>>])
                             /\ inst.kind \notin JumpKinds
<1>15. ASSUME phase = "build", NEW inst \in menu.naming \union menu.effects
       PROVE  Template(inst)
  BY <1>1, <1>15, OptimizerAssumption
<1>6. ASSUME phase = "build", EmitTwo PROVE TidyInv'
  <2>1. PICK k \in menu.two, v \in Defined, w \in Defined :
            Emit(emit_binary(f, 0, k, v, w, next_value_id))
    BY <1>6 DEF EmitTwo
  <2>2. <<v, w>> \in Seq(Int)
    BY <1>1, <1>6
  <2> DEFINE inst == WithOperands(Inst(k), <<v, w>>)
  <2>3. IsInst(inst) /\ inst.to = <<>>
    BY <1>4, <1>6, <2>2
  <2>4. Emit(emit(f, 0, WithResult(inst, next_value_id)))
    BY <2>1, Zenon DEF emit_binary
  <2> HIDE DEF inst
  <2> QED
    BY <1>2, <1>6, <2>3, <2>4, ResultInst
<1>7. ASSUME phase = "build", EmitOne PROVE TidyInv'
  <2>1. PICK k \in menu.one, v \in Defined :
            Emit(emit_with_result(f, 0, WithOperands(Inst(k), <<v>>), next_value_id))
    BY <1>7 DEF EmitOne
  <2>2. <<v>> \in Seq(Int)
    BY <1>1, <1>7
  <2> DEFINE inst == WithOperands(Inst(k), <<v>>)
  <2>3. IsInst(inst) /\ inst.to = <<>>
    BY <1>4, <1>7, <2>2
  <2>4. Emit(emit_with_result(f, 0, inst, next_value_id))
    BY <2>1
  <2> HIDE DEF inst
  <2> QED
    BY <1>3, <1>7, <2>3, <2>4
<1>8. ASSUME phase = "build", EmitNone PROVE TidyInv'
  BY <1>3, <1>5, <1>8 DEF EmitNone
<1>9. ASSUME phase = "build", EmitNaming PROVE TidyInv'
  <2>1. PICK inst \in menu.naming, v \in Defined :
            \E full \in AsListed([inst EXCEPT !.ids = <<v>>]) :
                Emit(emit_with_result(f, 0, full, next_value_id))
    BY <1>9 DEF EmitNaming
  <2>2. PICK full \in AsListed([inst EXCEPT !.ids = <<v>>]) :
            Emit(emit_with_result(f, 0, full, next_value_id))
    BY <2>1
  <2>3. v \in Int /\ Template(inst)
    BY <1>1, <1>9, <1>15
  <2>4. IsInst(full) /\ full.to = <<>>
    BY <2>3, NamingInst
  <2> QED
    BY <1>3, <1>9, <2>2, <2>4
<1>10. ASSUME phase = "build", EmitEffect PROVE TidyInv'
  <2>1. PICK inst \in menu.effects, v \in Defined :
            Emit(emit(f, 0, IF inst.kind = "ConsumeReductions" THEN inst
                            ELSE Complete([inst EXCEPT !.ids = <<v>>])))
    BY <1>10 DEF EmitEffect
  <2>2. v \in Int /\ Template(inst)
    BY <1>1, <1>10, <1>15
  <2> DEFINE full == Complete([inst EXCEPT !.ids = <<v>>])
  <2>3. full \in AsListed([inst EXCEPT !.ids = <<v>>])
    BY DEF AsListed
  <2> HIDE DEF full
  <2>4. IsInst(full) /\ full.to = <<>>
    BY <2>2, <2>3, NamingInst
  <2>5. CASE inst.kind = "ConsumeReductions"
    <3>1. IsInst(inst) /\ inst.to = <<>>
      BY <1>5, <1>10, <2>1, <2>5
    <3> QED
      BY <1>2, <1>10, <2>1, <2>5, <3>1
  <2>6. CASE inst.kind # "ConsumeReductions"
    <3>1. Emit(emit(f, 0, full))
      BY <2>1, <2>6 DEF full
    <3> QED
      BY <1>2, <1>10, <2>4, <3>1
  <2> QED
    BY <2>5, <2>6
<1>11. ASSUME phase = "build", Finish PROVE TidyInv'
  <2>1. PICK v \in Defined : \E ret \in AsListed(Ret(v)) :
            phase' = "optimise" /\ f' = emit(f, 0, ret) /\ promised' = Promise(f')
    BY <1>11 DEF Finish
  <2>2. PICK ret \in AsListed(Ret(v)) :
            phase' = "optimise" /\ f' = emit(f, 0, ret) /\ promised' = Promise(f')
    BY <2>1
  <2>3. IsInst(ret) /\ ret.to = <<>>
    BY <1>1, <1>11, PlainInst
  <2>4. Straight(f')
    BY <1>1, <1>11, <2>2, <2>3, EmitStraight
  <2>5. Trusted(f') => Tidy(f')
    BY <2>4, StraightTidy
  <2>6. promised' # <<>> => Trusted(f')
    BY <2>2, PromiseTrusted
  <2> QED
    BY <2>2, <2>5, <2>6 DEF TidyInv, Trusting
<1>12. ASSUME NEW i \in DOMAIN PassNames, RunPass(PassNames[i]) PROVE TidyInv'
  <2>1. /\ phase = "optimise" /\ phase' = "optimise" /\ promised' = promised
        /\ f' = run_pass(f, PassNames[i]).f
    BY <1>12 DEF RunPass, Take
  <2>2. Tidy(f) => Tidy(f')
    BY <2>1, PassTidy
  <2> QED
    BY <2>1, <2>2 DEF TidyInv, Trusting
<1>13. ASSUME OptimizeModule PROVE TidyInv'
  <2>1. /\ phase = "optimise" /\ phase' = "optimised" /\ promised' = promised
        /\ f' = optimize_module(<<f>>)[1]
    BY <1>13 DEF OptimizeModule
  <2>2. Tidy(f) => Tidy(f')
    BY <2>1, ModuleTidy
  <2> QED
    BY <2>1, <2>2 DEF TidyInv, Trusting
<1>14. ASSUME UNCHANGED ovars PROVE TidyInv'
  BY <1>14 DEF ovars, TidyInv, Trusting
<1> QED
  BY <1>6, <1>7, <1>8, <1>9, <1>10, <1>11, <1>12, <1>13, <1>14 DEF OptimizerNext

(* Whatever passes have run on a function they can be trusted with, its     *)
(* recorded edges, which the next pass follows, are where the code goes.    *)
THEOREM OptimizerEdgesFollowCode == OptimizerSpec => []EdgesFollowCode
<1>1. TidyInv => EdgesFollowCode
  BY DEF TidyInv, EdgesFollowCode, EdgesRecorded, Tidy, Good, TidyBlock
<1> QED
  BY <1>1, InitTidy, StepTidy, PTL DEF OptimizerSpec
=============================================================================
