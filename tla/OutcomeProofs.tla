--------------------------- MODULE OutcomeProofs ---------------------------
(***************************************************************************)
(* The passes keep what a function means, for any programs, graphs and     *)
(* inputs that satisfy OptimizerAssumption and any fuel: OutcomeKept as a  *)
(* theorem of OptimizerSpec.                                               *)
(*                                                                         *)
(* Two runs of the interpreter go side by side, one of the code before a   *)
(* pass and one of the code after it.  Follows says where each position    *)
(* of the old code is in the new: there stands the same instruction, or    *)
(* the position is silent, or jumps to where its target has gone.  The     *)
(* two runs then differ only in values nobody reads.  For every pass there *)
(* is such a correspondence as long as the function is Sane: its reached   *)
(* blocks are Tidy (OptimizerProofs) and Sound, that is, what a value's    *)
(* use and a jump's place must be for the pass not to break it; and every  *)
(* pass leaves a sane function sane.                                       *)
(*                                                                         *)
(* With it, ThrowsAsWritten: the translation of BEAM code that moves       *)
(* registers and throws is a function the passes can be trusted with, and  *)
(* its run has the registers of the BEAM code.                             *)
(***************************************************************************)
EXTENDS OptimizerProofs

-----------------------------------------------------------------------------
(* The run of a function, and of another one beside it that leaves values  *)
(* nobody reads undefined.                                                 *)

Runs(g, args, n, p) ==
    p[0] = Start(g, args) /\ \A k \in 1 .. n : p[k] = Stepped(g, p[k - 1])

LEMMA RunsExist ==
    ASSUME NEW g, NEW args, NEW n \in Nat
    PROVE  \E p : Runs(g, args, n, p)
<1> DEFINE S == {m \in Nat : \E p : Runs(g, args, m, p)}
<1>1. 0 \in S
  <2>1. Runs(g, args, 0, [i \in {0} |-> Start(g, args)])
    BY DEF Runs
  <2> QED
    BY <2>1
<1>2. ASSUME NEW m \in 1 .. n, m - 1 \in S PROVE m \in S
  <2>1. PICK p : Runs(g, args, m - 1, p)
    BY <1>2
  <2> DEFINE one == Stepped(g, p[m - 1])
             q == [i \in 0 .. m |-> IF i = m THEN one ELSE p[i]]
  <2> HIDE DEF one
  <2>2. q[0] = Start(g, args)
    <3>1. q[0] = p[0]
      OBVIOUS
    <3> QED
      BY <2>1, <3>1 DEF Runs
  <2>3. ASSUME NEW i \in 1 .. m
        PROVE  q[i] = Stepped(g, q[i - 1])
    <3>1. q[i - 1] = p[i - 1]
      OBVIOUS
    <3>2. i # m => i \in 1 .. m - 1 /\ q[i] = p[i]
      OBVIOUS
    <3>3. q[m] = one
      OBVIOUS
    <3> QED
      BY <2>1, <3>1, <3>2, <3>3 DEF Runs, one
  <2>4. Runs(g, args, m, q)
    BY <2>2, <2>3 DEF Runs
  <2> QED
    BY <2>4
<1> HIDE DEF S
<1>3. 0 .. n \subseteq S
  BY <1>1, <1>2, CountUp
<1>4. n \in 0 .. n
  OBVIOUS
<1> QED
  BY <1>3, <1>4 DEF S

LEMMA ExecuteRuns ==
    ASSUME NEW g, NEW args
    PROVE  \E p : Runs(g, args, Fuel, p) /\ execute(g, args) = p[Fuel]
<1> DEFINE run(q) == [k \in 0 .. Fuel |-> IF k = 0 THEN Start(g, args) ELSE Stepped(g, q[k - 1])]
           after == CHOOSE q : q = run(q)
<1>1. Fuel \in Nat
  BY FuelAssumption
<1>2. execute(g, args) = after[Fuel]
  BY Zenon DEF execute
<1>3. PICK p : Runs(g, args, Fuel, p)
  BY <1>1, RunsExist
<1> DEFINE q == [k \in 0 .. Fuel |-> p[k]]
<1>4. q = run(q)
  <2>1. ASSUME NEW k \in 0 .. Fuel PROVE q[k] = run(q)[k]
    <3>1. k # 0 => k \in 1 .. Fuel /\ k - 1 \in 0 .. Fuel
      BY <1>1
    <3>2. k # 0 => q[k - 1] = p[k - 1] /\ q[k] = p[k]
      BY <3>1
    <3> QED
      BY <1>3, <3>1, <3>2 DEF Runs
  <2> QED
    BY <2>1
<1>5. after = run(after)
  BY <1>4, Zenon
<1> HIDE DEF after
<1>6. Runs(g, args, Fuel, after)
  <2>1. after[0] = Start(g, args)
    BY <1>1, <1>5
  <2>2. ASSUME NEW k \in 1 .. Fuel
        PROVE  after[k] = Stepped(g, after[k - 1])
    <3>1. k # 0 /\ k \in 0 .. Fuel
      BY <1>1
    <3>2. after[k] = run(after)[k]
      BY <1>5
    <3> QED
      BY <3>1, <3>2
  <2> QED
    BY <2>1, <2>2 DEF Runs
<1> QED
  BY <1>2, <1>6

\* A run that has ended stays as it is.
LEMMA EndedRests ==
    ASSUME NEW g, NEW args, NEW n \in Nat, NEW p, Runs(g, args, n, p),
           NEW m \in 0 .. n, p[m].end # "running"
    PROVE  p[n] = p[m]
<1> DEFINE S == {k \in Nat : k + m <= n => p[m + k] = p[m]}
<1>1. 0 \in S
  OBVIOUS
<1>2. ASSUME NEW k \in 1 .. n, k - 1 \in S PROVE k \in S
  <2>1. SUFFICES ASSUME k + m <= n PROVE p[m + k] = p[m]
    OBVIOUS
  <2>2. p[m + (k - 1)] = p[m] /\ m + k \in 1 .. n /\ (m + k) - 1 = m + (k - 1)
    BY <1>2, <2>1
  <2>3. p[m + k] = Stepped(g, p[(m + k) - 1])
    BY <2>2 DEF Runs
  <2> QED
    BY <2>2, <2>3 DEF Stepped
<1> HIDE DEF S
<1>3. 0 .. n \subseteq S
  BY <1>1, <1>2, CountUp
<1>4. n - m \in S /\ n - m \in Nat
  BY <1>3
<1> QED
  BY <1>4 DEF S

\* The same state but for where it is and what the values of D are.
Like(s, t, D) ==
    /\ DOMAIN s = DOMAIN Start([arity |-> 0], <<>>) /\ DOMAIN t = DOMAIN s
    /\ s.regs = t.regs /\ s.stack = t.stack /\ s.words = t.words
    /\ s.effects = t.effects /\ s.end = t.end /\ s.val = t.val
    /\ \A v : v \notin D => /\ v \in DOMAIN s.env <=> v \in DOMAIN t.env
                            /\ v \in DOMAIN s.env => s.env[v] = t.env[v]

LEMMA StateFields ==
    ASSUME NEW g, NEW args
    PROVE  /\ DOMAIN Start(g, args) = {"blk", "pc", "env", "regs", "stack", "words", "effects",
                                       "end", "val"}
           /\ Start(g, args).blk = 0 /\ Start(g, args).pc = 1
           /\ Start(g, args).end = "running"
BY DEF Start

LEMMA StartAlike ==
    ASSUME NEW g, NEW h, NEW args, NEW D, g.arity = h.arity
    PROVE  Like(Start(g, args), Start(h, args), D)
<1>1. Start(g, args) = Start(h, args)
  BY DEF Start
<1> QED
  BY <1>1, StateFields DEF Like

LEMMA LikeFields ==
    ASSUME NEW s, NEW t, NEW D, Like(s, t, D)
    PROVE  /\ DOMAIN s = {"blk", "pc", "env", "regs", "stack", "words", "effects", "end", "val"}
           /\ DOMAIN t = DOMAIN s
BY StateFields DEF Like

\* What is read of two such states is the same.
LEMMA ResolveAlike ==
    ASSUME NEW s, NEW t, NEW D, Like(s, t, D)
    PROVE  /\ \A r : read_reg(s, r) = read_reg(t, r)
           /\ \A v : v \notin D => resolve_value(s, v) = resolve_value(t, v)
           /\ \A inst, i : Reads(inst) \intersect D = {} =>
                  /\ resolve_op(s, inst, i) = resolve_op(t, inst, i)
                  /\ i \in DOMAIN inst.ids => named(s, inst, i) = named(t, inst, i)
<1>1. \A r : read_reg(s, r) = read_reg(t, r)
  BY DEF Like, read_reg
<1>2. \A v : v \notin D => resolve_value(s, v) = resolve_value(t, v)
  BY <1>1 DEF Like, resolve_value
<1>3. ASSUME NEW inst, NEW i, Reads(inst) \intersect D = {}
      PROVE  /\ resolve_op(s, inst, i) = resolve_op(t, inst, i)
             /\ i \in DOMAIN inst.ids => named(s, inst, i) = named(t, inst, i)
  <2>1. /\ i \in DOMAIN inst.ops => inst.ops[i] \notin D
        /\ i \in DOMAIN inst.ids => inst.ids[i] \notin D
    BY <1>3 DEF Reads
  <2> QED
    BY <1>2, <2>1 DEF resolve_op, named
<1> QED
  BY <1>1, <1>2, <1>3, Zenon

LEMMA InsertAlike ==
    ASSUME NEW s, NEW t, NEW D, Like(s, t, D), NEW x, NEW w
    PROVE  LET d == Insert(s.env, x, w)
               e == Insert(t.env, x, w)
           IN  \A v : v \notin D => /\ v \in DOMAIN d <=> v \in DOMAIN e
                                    /\ v \in DOMAIN d => d[v] = e[v]
<1> DEFINE d == Insert(s.env, x, w)
           e == Insert(t.env, x, w)
<1>1. ASSUME NEW v, v \notin D
      PROVE  /\ v \in DOMAIN d <=> v \in DOMAIN e
             /\ v \in DOMAIN d => d[v] = e[v]
  <2>1. /\ v \in DOMAIN s.env <=> v \in DOMAIN t.env
        /\ v \in DOMAIN s.env => s.env[v] = t.env[v]
    BY <1>1 DEF Like
  <2>2. /\ v \in DOMAIN d <=> v = x \/ v \in DOMAIN s.env
        /\ v \in DOMAIN e <=> v = x \/ v \in DOMAIN t.env
        /\ v \in DOMAIN d => d[v] = IF v = x THEN w ELSE s.env[v]
        /\ v \in DOMAIN e => e[v] = IF v = x THEN w ELSE t.env[v]
    BY DEF Insert
  <2> QED
    BY <2>1, <2>2
<1> QED
  BY <1>1

\* The same is done to both.
LEMMA DoneAlike ==
    ASSUME NEW s, NEW t, NEW D, Like(s, t, D)
    PROVE  /\ Like(Next1(s), Next1(t), D)
           /\ \A inst, w : Like(Define(s, inst, w), Define(t, inst, w), D)
           /\ \A e : Like(Effect(s, e), Effect(t, e), D)
           /\ \A how, w : Like(End(s, how, w), End(t, how, w), D)
           /\ \A r, w : Like(write_reg(s, r, w), write_reg(t, r, w), D)
           /\ \A g, h, l, m : Like(Goto(g, s, l), Goto(h, t, m), D)
<1>1. /\ DOMAIN s = {"blk", "pc", "env", "regs", "stack", "words", "effects", "end", "val"}
      /\ DOMAIN t = DOMAIN s
  BY LikeFields
<1>2. Like(Next1(s), Next1(t), D)
  BY <1>1 DEF Like, Next1
<1>3. \A inst, w : Like(Define(s, inst, w), Define(t, inst, w), D)
  <2> SUFFICES ASSUME NEW inst, NEW w
               PROVE  Like(Define(s, inst, w), Define(t, inst, w), D)
    OBVIOUS
  <2> DEFINE x == inst.res
             d == Insert(s.env, x, w)
             e == Insert(t.env, x, w)
  <2>1. \A v : v \notin D => /\ v \in DOMAIN d <=> v \in DOMAIN e
                             /\ v \in DOMAIN d => d[v] = e[v]
    BY InsertAlike
  <2> HIDE DEF d, e
  <2>2. CASE x = NoValue
    BY <2>2 DEF Define
  <2>3. CASE x # NoValue
    <3>1. Define(s, inst, w) = [s EXCEPT !.env = d] /\ Define(t, inst, w) = [t EXCEPT !.env = e]
      BY <2>3 DEF Define, d, e
    <3> QED
      BY <1>1, <2>1, <3>1 DEF Like
  <2> QED
    BY <2>2, <2>3
<1>4. \A e : Like(Effect(s, e), Effect(t, e), D)
  BY <1>1 DEF Like, Effect
<1>5. \A how, w : Like(End(s, how, w), End(t, how, w), D)
  BY <1>1 DEF Like, End
<1>6. \A r, w : Like(write_reg(s, r, w), write_reg(t, r, w), D)
  <2> SUFFICES ASSUME NEW r, NEW w
               PROVE  Like(write_reg(s, r, w), write_reg(t, r, w), D)
    OBVIOUS
  <2> DEFINE x == r[2]
             d == IF r[1] = "X" THEN Insert(s.env, x, w) ELSE s.env
             e == IF r[1] = "X" THEN Insert(t.env, x, w) ELSE t.env
             regs == Insert(s.regs, r, w)
  <2>1. \A v : v \notin D => /\ v \in DOMAIN d <=> v \in DOMAIN e
                             /\ v \in DOMAIN d => d[v] = e[v]
    <3>1. CASE r[1] = "X"
      <4>1. d = Insert(s.env, x, w) /\ e = Insert(t.env, x, w)
        BY <3>1
      <4> HIDE DEF d, e, x
      <4> QED
        BY <4>1, InsertAlike
    <3>2. CASE r[1] # "X"
      BY <3>2 DEF Like
    <3> QED
      BY <3>1, <3>2
  <2>2. /\ write_reg(s, r, w) = [s EXCEPT !.regs = regs, !.env = d]
        /\ write_reg(t, r, w) = [t EXCEPT !.regs = regs, !.env = e]
    BY <1>1 DEF Like, write_reg
  <2> HIDE DEF d, e, regs
  <2> QED
    BY <1>1, <2>1, <2>2 DEF Like
<1>7. \A g, h, l, m : Like(Goto(g, s, l), Goto(h, t, m), D)
  BY <1>1 DEF Like, Goto
<1> QED
  BY <1>2, <1>3, <1>4, <1>5, <1>6, <1>7

\* Where a state is after what is done to it.
LEMMA DoneWhere ==
    ASSUME NEW s, NEW t, NEW D, Like(s, t, D)
    PROVE  /\ Next1(s).blk = s.blk /\ Next1(s).pc = s.pc + 1 /\ Next1(s).end = s.end
           /\ Next1(t).blk = t.blk /\ Next1(t).pc = t.pc + 1 /\ Next1(t).end = t.end
           /\ \A inst, w : LET u == Define(s, inst, w)
                           IN  u.blk = s.blk /\ u.pc = s.pc /\ u.end = s.end
           /\ \A e : LET u == Effect(s, e) IN u.blk = s.blk /\ u.pc = s.pc /\ u.end = s.end
           /\ \A r, w : LET u == write_reg(s, r, w)
                        IN  u.blk = s.blk /\ u.pc = s.pc /\ u.end = s.end
           /\ \A how, w : End(s, how, w).end = how
<1>1. /\ DOMAIN s = {"blk", "pc", "env", "regs", "stack", "words", "effects", "end", "val"}
      /\ DOMAIN t = DOMAIN s
  BY LikeFields
<1>2. /\ Next1(s).blk = s.blk /\ Next1(s).pc = s.pc + 1 /\ Next1(s).end = s.end
      /\ Next1(t).blk = t.blk /\ Next1(t).pc = t.pc + 1 /\ Next1(t).end = t.end
  BY <1>1 DEF Next1
<1>3. \A inst, w : LET u == Define(s, inst, w) IN u.blk = s.blk /\ u.pc = s.pc /\ u.end = s.end
  BY <1>1 DEF Define
<1>4. \A e : LET u == Effect(s, e) IN u.blk = s.blk /\ u.pc = s.pc /\ u.end = s.end
  BY <1>1 DEF Effect
<1>5. \A r, w : LET u == write_reg(s, r, w) IN u.blk = s.blk /\ u.pc = s.pc /\ u.end = s.end
  BY <1>1 DEF write_reg
<1>6. \A how, w : End(s, how, w).end = how
  BY <1>1 DEF End
<1> QED
  BY <1>2, <1>3, <1>4, <1>5, <1>6

\* Two states that an instruction has left alike, each at the next instruction.
Onward(s, t, D, u, v) ==
    /\ Like(u, v, D)
    /\ u.end = "running" => /\ u.blk = s.blk /\ u.pc = s.pc + 1
                            /\ v.blk = t.blk /\ v.pc = t.pc + 1

LEMMA LikeBoth ==
    ASSUME NEW s, NEW t, NEW D, Like(s, t, D)
    PROVE  Like(t, s, D)
BY DEF Like

\* The same two, still at this one.
Beside(s, t, D, u, v) ==
    Like(u, v, D) /\ u.blk = s.blk /\ u.pc = s.pc /\ v.blk = t.blk /\ v.pc = t.pc

LEMMA BesideDone ==
    ASSUME NEW s, NEW t, NEW D, NEW u, NEW v, Beside(s, t, D, u, v)
    PROVE  /\ \A inst, w : Beside(s, t, D, Define(u, inst, w), Define(v, inst, w))
           /\ \A e : Beside(s, t, D, Effect(u, e), Effect(v, e))
           /\ \A r, w : Beside(s, t, D, write_reg(u, r, w), write_reg(v, r, w))
<1>1. Like(u, v, D) /\ Like(v, u, D)
  BY LikeBoth DEF Beside
<1>2. /\ \A inst, w : Like(Define(u, inst, w), Define(v, inst, w), D)
      /\ \A e : Like(Effect(u, e), Effect(v, e), D)
      /\ \A r, w : Like(write_reg(u, r, w), write_reg(v, r, w), D)
  BY <1>1, DoneAlike, Zenon
<1>3. /\ \A inst, w : Define(u, inst, w).blk = u.blk /\ Define(u, inst, w).pc = u.pc
      /\ \A e : Effect(u, e).blk = u.blk /\ Effect(u, e).pc = u.pc
      /\ \A r, w : write_reg(u, r, w).blk = u.blk /\ write_reg(u, r, w).pc = u.pc
  BY <1>1, DoneWhere
<1>4. /\ \A inst, w : Define(v, inst, w).blk = v.blk /\ Define(v, inst, w).pc = v.pc
      /\ \A e : Effect(v, e).blk = v.blk /\ Effect(v, e).pc = v.pc
      /\ \A r, w : write_reg(v, r, w).blk = v.blk /\ write_reg(v, r, w).pc = v.pc
  BY <1>1, DoneWhere
<1> QED
  BY <1>2, <1>3, <1>4, Zenon DEF Beside

LEMMA OnwardDone ==
    ASSUME NEW s, NEW t, NEW D, NEW u, NEW v, Beside(s, t, D, u, v)
    PROVE  Onward(s, t, D, Next1(u), Next1(v))
<1>1. Like(Next1(u), Next1(v), D)
  BY DoneAlike DEF Beside
<1>2. /\ Next1(u).blk = u.blk /\ Next1(u).pc = u.pc + 1
      /\ Next1(v).blk = v.blk /\ Next1(v).pc = v.pc + 1
  BY DoneWhere DEF Beside
<1> QED
  BY <1>1, <1>2 DEF Onward, Beside

LEMMA BesideSelf ==
    ASSUME NEW s, NEW t, NEW D, Like(s, t, D)
    PROVE  Beside(s, t, D, s, t)
BY DEF Beside

LEMMA OnwardEnd ==
    ASSUME NEW s, NEW t, NEW D, Like(s, t, D), NEW how, NEW w, how # "running"
    PROVE  Onward(s, t, D, End(s, how, w), End(t, how, w))
BY DoneAlike, DoneWhere DEF Onward

\* The instructions that do more than define their result.
Acting == {"Ret", "Throw", "Br", "BrIf", "Switch", "Move", "SetReg", "CallBif", "Push", "Pop",
           "Alloc", "ConsumeReductions"}

LEMMA ActingApart == Acting \intersect Evaluated = {}
BY DEF Acting, Evaluated, ArithmeticKinds, ComparisonKinds, TestKinds, Results, Passing

LEMMA StepQuiet ==
    ASSUME NEW g, NEW s, NEW inst, inst.kind \notin Acting
    PROVE  /\ inst.kind \in Evaluated =>
                  Step(g, s, inst) = IF Stops(s, inst) THEN End(s, "fault", nil)
                                     ELSE Next1(Define(s, inst, Result(s, inst)))
           /\ inst.kind \notin Evaluated => Step(g, s, inst) = Next1(s)
BY DEF Step, Acting

\* What the others do.
LEMMA StepRet ==
    ASSUME NEW g, NEW s, NEW inst, inst.kind = "Ret"
    PROVE  Step(g, s, inst) =
           End(s, "ok", IF inst.ops = <<>> /\ inst.ids[1] = 0 THEN nil ELSE named(s, inst, 1))
BY ActingApart DEF Step, Acting

LEMMA StepThrow ==
    ASSUME NEW g, NEW s, NEW inst, inst.kind = "Throw"
    PROVE  Step(g, s, inst) =
           End(s, "throw", named(s, inst, 1))
BY ActingApart DEF Step, Acting

LEMMA StepBr ==
    ASSUME NEW g, NEW s, NEW inst, inst.kind = "Br"
    PROVE  Step(g, s, inst) =
           Goto(g, s, inst.to[1])
BY ActingApart DEF Step, Acting

LEMMA StepBrIf ==
    ASSUME NEW g, NEW s, NEW inst, inst.kind = "BrIf"
    PROVE  Step(g, s, inst) =
           Goto(g, s, inst.to[IF truthy(named(s, inst, 1)) THEN 1 ELSE 2])
BY ActingApart DEF Step, Acting

LEMMA StepSwitch ==
    ASSUME NEW g, NEW s, NEW inst, inst.kind = "Switch"
    PROVE  Step(g, s, inst) =
           Goto(g, s, SwitchTarget(s, inst))
BY ActingApart DEF Step, Acting

LEMMA StepMove ==
    ASSUME NEW g, NEW s, NEW inst, inst.kind = "Move"
    PROVE  Step(g, s, inst) =
           Next1(write_reg(s, inst.regs[2], read_reg(s, inst.regs[1])))
BY ActingApart DEF Step, Acting

LEMMA StepSetReg ==
    ASSUME NEW g, NEW s, NEW inst, inst.kind = "SetReg"
    PROVE  Step(g, s, inst) =
           Next1(write_reg(s, inst.regs[1], named(s, inst, 1)))
BY ActingApart DEF Step, Acting

LEMMA StepCallBif ==
    ASSUME NEW g, NEW s, NEW inst, inst.kind = "CallBif"
    PROVE  Step(g, s, inst) =
           Next1(CallBif(s, inst))
BY ActingApart DEF Step, Acting

LEMMA StepPush ==
    ASSUME NEW g, NEW s, NEW inst, inst.kind = "Push"
    PROVE  Step(g, s, inst) =
           Next1(Effect([s EXCEPT !.stack = <<named(s, inst, 1)>> \o @],
                        <<"push", named(s, inst, 1)>>))
BY ActingApart DEF Step, Acting

LEMMA StepPop ==
    ASSUME NEW g, NEW s, NEW inst, inst.kind = "Pop"
    PROVE  Step(g, s, inst) =
           IF s.stack = <<>> THEN End(s, "fault", nil)
           ELSE Next1(Define([s EXCEPT !.stack = Tail(@)], inst, Head(s.stack)))
BY ActingApart DEF Step, Acting

LEMMA StepAlloc ==
    ASSUME NEW g, NEW s, NEW inst, inst.kind = "Alloc"
    PROVE  Step(g, s, inst) =
           Next1(Effect(Define([s EXCEPT !.words = @ + inst.ns[1]], inst,
                               Word(1, 0, 0, s.words, 0)), <<"alloc", inst.ns[1]>>))
BY ActingApart DEF Step, Acting

LEMMA StepConsumeReductions ==
    ASSUME NEW g, NEW s, NEW inst, inst.kind = "ConsumeReductions"
    PROVE  Step(g, s, inst) =
           Next1(Effect(s, <<"reductions", inst.ns[1]>>))
BY ActingApart DEF Step, Acting

LEMMA ResultAlike ==
    ASSUME NEW s, NEW t, NEW D, Like(s, t, D), NEW inst, IsInst(inst),
           Reads(inst) \intersect D = {}
    PROVE  /\ inst.kind \in NamingKinds => named(s, inst, 1) = named(t, inst, 1)
           /\ inst.kind \in Evaluated => Result(s, inst) = Result(t, inst)
           /\ Stops(s, inst) <=> Stops(t, inst)
<1>1. /\ \A r : read_reg(s, r) = read_reg(t, r)
      /\ \A i : /\ resolve_op(s, inst, i) = resolve_op(t, inst, i)
                /\ i \in DOMAIN inst.ids => named(s, inst, i) = named(t, inst, i)
  BY ResolveAlike
<1> DEFINE n == Len(inst.ids)
<1>2. inst.kind \in NamingKinds => 1 \in DOMAIN inst.ids /\ n \in DOMAIN inst.ids
  <2>1. n \in Nat /\ DOMAIN inst.ids = 1 .. n
    BY LenProperties DEF IsInst
  <2>2. inst.kind \in NamingKinds => n # 0
    BY EmptySeq DEF IsInst
  <2> QED
    BY <2>1, <2>2
<1>3. inst.kind \in NamingKinds =>
          named(s, inst, 1) = named(t, inst, 1) /\ named(s, inst, n) = named(t, inst, n)
  BY <1>1, <1>2
<1>4. inst.kind \in Passing \union {"TupleGet"} => inst.kind \in NamingKinds
  BY DEF Passing, NamingKinds
<1> HIDE DEF n
<1>5. Stops(s, inst) <=> Stops(t, inst)
  BY <1>1, <1>3, <1>4 DEF Stops
<1>6. ASSUME inst.kind \in Evaluated PROVE Result(s, inst) = Result(t, inst)
  <2>1. /\ resolve_op(s, inst, 1) = resolve_op(t, inst, 1)
        /\ resolve_op(s, inst, 2) = resolve_op(t, inst, 2)
        /\ read_reg(s, inst.regs[1]) = read_reg(t, inst.regs[1])
    BY <1>1
  <2>2. inst.kind = "TupleGet" => named(s, inst, 1) = named(t, inst, 1)
    BY <1>3, <1>4
  <2>3. inst.kind \in Passing =>
            named(s, inst, Len(inst.ids)) = named(t, inst, Len(inst.ids))
    BY <1>3, <1>4 DEF n
  <2>4. \/ inst.kind \in ArithmeticKinds \union ComparisonKinds \union TestKinds
                         \union DOMAIN Results \union Passing
        \/ inst.kind \in {"ConstSmallInt", "ConstAtom", "LoadLiteral", "GetReg", "TupleGet"}
    BY <1>6 DEF Evaluated
  <2>5. Passing \intersect (ArithmeticKinds \union ComparisonKinds \union TestKinds
                            \union DOMAIN Results) = {}
    BY DEF Passing, ArithmeticKinds, ComparisonKinds, TestKinds, Results
  <2> QED
    BY <2>1, <2>2, <2>3, <2>4, <2>5, SMTT(30) DEF Result
<1> QED
  BY <1>3, <1>5, <1>6

(* An instruction of the quiet kinds does the same to both, and on its own  *)
(* at most what its result is.                                             *)
LEMMA QuietAlike ==
    ASSUME NEW g, NEW h, NEW s, NEW t, NEW D, Like(s, t, D), NEW inst, IsInst(inst),
           Reads(inst) \intersect D = {}, inst.kind \notin Acting
    PROVE  Onward(s, t, D, Step(g, s, inst), Step(h, t, inst))
<1>1. CASE inst.kind \notin Evaluated
  BY <1>1, StepQuiet, BesideSelf, OnwardDone
<1>2. CASE inst.kind \in Evaluated
  <2>1. /\ Step(g, s, inst) = IF Stops(s, inst) THEN End(s, "fault", nil)
                              ELSE Next1(Define(s, inst, Result(s, inst)))
        /\ Step(h, t, inst) = IF Stops(t, inst) THEN End(t, "fault", nil)
                              ELSE Next1(Define(t, inst, Result(t, inst)))
    BY <1>2, StepQuiet
  <2>2. Result(s, inst) = Result(t, inst) /\ (Stops(s, inst) <=> Stops(t, inst))
    BY <1>2, ResultAlike
  <2>3. CASE Stops(s, inst)
    BY <2>1, <2>2, <2>3, OnwardEnd
  <2>4. CASE ~Stops(s, inst)
    <3> DEFINE w == Result(s, inst)
               u == Define(s, inst, w)
               v == Define(t, inst, w)
    <3>1. Beside(s, t, D, u, v)
      BY BesideSelf, BesideDone
    <3>2. Step(g, s, inst) = Next1(u) /\ Step(h, t, inst) = Next1(v)
      BY <2>1, <2>2, <2>4
    <3> HIDE DEF u, v
    <3> QED
      BY <3>1, <3>2, OnwardDone
  <2> QED
    BY <2>3, <2>4
<1> QED
  BY <1>1, <1>2

\* Without effect but on a value of D.
Silent(inst, D) ==
    inst.kind \notin Acting /\ (inst.kind = "Nop" \/ inst.res = NoValue \/ inst.res \in D)

LEMMA SilentStep ==
    ASSUME NEW g, NEW s, NEW t, NEW D, Like(s, t, D), NEW inst, Silent(inst, D)
    PROVE  LET u == Step(g, s, inst)
           IN  \/ u.end = "fault"
               \/ Like(u, t, D) /\ u.blk = s.blk /\ u.pc = s.pc + 1
<1>1. /\ DOMAIN s = {"blk", "pc", "env", "regs", "stack", "words", "effects", "end", "val"}
      /\ DOMAIN t = DOMAIN s
  BY LikeFields
<1>2. ASSUME NEW w, inst.res = NoValue \/ inst.res \in D
      PROVE  Like(Define(s, inst, w), t, D)
  <2>1. CASE inst.res = NoValue
    BY <2>1 DEF Define
  <2>2. CASE inst.res # NoValue
    <3> DEFINE e == Insert(s.env, inst.res, w)
    <3>1. \A v : v \notin D => /\ v \in DOMAIN e <=> v \in DOMAIN t.env
                               /\ v \in DOMAIN e => e[v] = t.env[v]
      <4> SUFFICES ASSUME NEW v, v \notin D
                   PROVE  /\ v \in DOMAIN e <=> v \in DOMAIN t.env
                          /\ v \in DOMAIN e => e[v] = t.env[v]
        OBVIOUS
      <4>1. v # inst.res
        BY <1>2, <2>2
      <4>2. v \in DOMAIN e <=> v \in DOMAIN s.env
        BY <4>1 DEF Insert
      <4>3. v \in DOMAIN e => e[v] = s.env[v]
        BY <4>1 DEF Insert
      <4>4. /\ v \in DOMAIN s.env <=> v \in DOMAIN t.env
            /\ v \in DOMAIN s.env => s.env[v] = t.env[v]
        BY DEF Like
      <4> QED
        BY <4>2, <4>3, <4>4
    <3>2. Define(s, inst, w) = [s EXCEPT !.env = e]
      BY <2>2 DEF Define
    <3> HIDE DEF e
    <3> QED
      BY <1>1, <3>1, <3>2 DEF Like
  <2> QED
    BY <2>1, <2>2
<1>3. ASSUME NEW u, Like(u, t, D), u.blk = s.blk, u.pc = s.pc
      PROVE  Like(Next1(u), t, D) /\ Next1(u).blk = s.blk /\ Next1(u).pc = s.pc + 1
  <2>1. DOMAIN u = {"blk", "pc", "env", "regs", "stack", "words", "effects", "end", "val"}
    BY <1>3, LikeFields
  <2> QED
    BY <1>3, <2>1 DEF Next1, Like
<1>4. CASE inst.kind \notin Evaluated
  BY <1>3, <1>4, StepQuiet DEF Silent
<1>5. CASE inst.kind \in Evaluated
  <2>1. Step(g, s, inst) = IF Stops(s, inst) THEN End(s, "fault", nil)
                           ELSE Next1(Define(s, inst, Result(s, inst)))
    BY <1>5, StepQuiet DEF Silent
  <2>2. CASE Stops(s, inst)
    BY <2>1, <2>2, DoneWhere
  <2>3. CASE ~Stops(s, inst)
    <3> DEFINE u == Define(s, inst, Result(s, inst))
    <3>1. inst.kind # "Nop"
      BY <1>5 DEF Evaluated, ArithmeticKinds, ComparisonKinds, TestKinds, Results, Passing
    <3>2. Like(u, t, D) /\ u.blk = s.blk /\ u.pc = s.pc
      BY <1>2, <3>1, DoneWhere DEF Silent
    <3>3. Step(g, s, inst) = Next1(u)
      BY <2>1, <2>3
    <3> HIDE DEF u
    <3> QED
      BY <1>3, <3>2, <3>3
  <2> QED
    BY <2>2, <2>3
<1> QED
  BY <1>4, <1>5

\* What a built-in call is made of.
NameAt(s, inst, i) == LET w == named(s, inst, i) IN IF is_atom(w) THEN w ELSE atom(0)
ArgsAfter(s, inst) == [i \in 1 .. Len(inst.ids) - 2 |-> named(s, inst, i + 2)]
Called(m, fname, args) ==
    LET known == {b \in BifTable : AtomOf(b[1]) = fname /\ b[2] = Len(args)}
    IN  IF m # AtomOf("erlang") \/ known = {} THEN Ok(nil)
        ELSE Bif(Heap, Pid, (CHOOSE b \in known : TRUE)[1], args)
After(s, inst, r, fname, args) ==
    IF r.how = "fault" THEN End(s, "fault", nil)
    ELSE Effect(Define(s, inst, IF r.how = "ok" THEN r.val ELSE nil), <<"bif", fname, args>>)

LEMMA CallShape ==
    ASSUME NEW s, NEW inst
    PROVE  CallBif(s, inst) =
               LET fname == NameAt(s, inst, 2)  args == ArgsAfter(s, inst)
               IN  After(s, inst, Called(NameAt(s, inst, 1), fname, args), fname, args)
BY Zenon DEF CallBif, NameAt, ArgsAfter, Called, After

LEMMA CallAlike ==
    ASSUME NEW g, NEW h, NEW s, NEW t, NEW D, Like(s, t, D), NEW inst, IsInst(inst),
           Reads(inst) \intersect D = {}, inst.kind = "CallBif"
    PROVE  Onward(s, t, D, Step(g, s, inst), Step(h, t, inst))
<1> DEFINE fname == NameAt(s, inst, 2)
           m == NameAt(s, inst, 1)
           args == ArgsAfter(s, inst)
           r == Called(m, fname, args)
<1>1. Len(inst.ids) \in Nat /\ Len(inst.ids) >= 2 /\ DOMAIN inst.ids = 1 .. Len(inst.ids)
  BY LenProperties DEF IsInst
<1>2. \A i \in 1 .. Len(inst.ids) : named(s, inst, i) = named(t, inst, i)
  BY <1>1, ResolveAlike
<1>3. fname = NameAt(t, inst, 2) /\ m = NameAt(t, inst, 1)
  <2>1. named(s, inst, 1) = named(t, inst, 1) /\ named(s, inst, 2) = named(t, inst, 2)
    BY <1>1, <1>2
  <2> QED
    BY <2>1 DEF NameAt
<1>4. args = ArgsAfter(t, inst)
  <2>1. ASSUME NEW i \in 1 .. Len(inst.ids) - 2
        PROVE  named(s, inst, i + 2) = named(t, inst, i + 2)
    BY <1>1, <1>2
  <2> QED
    BY <2>1 DEF ArgsAfter
<1>5. CallBif(s, inst) = After(s, inst, r, fname, args)
  BY CallShape
<1>6. CallBif(t, inst) = After(t, inst, r, fname, args)
  BY CallShape, <1>3, <1>4
<1>7. Step(g, s, inst) = Next1(CallBif(s, inst)) /\ Step(h, t, inst) = Next1(CallBif(t, inst))
  BY StepCallBif
<1> HIDE DEF fname, m, args, r
<1>8. CASE r.how = "fault"
  <2>1. /\ CallBif(s, inst) = End(s, "fault", nil)
        /\ CallBif(t, inst) = End(t, "fault", nil)
    BY <1>5, <1>6, <1>8 DEF After
  <2> DEFINE u == End(s, "fault", nil)
             v == End(t, "fault", nil)
  <2>2. Like(u, v, D) /\ u.end = "fault"
    BY DoneAlike, DoneWhere
  <2> HIDE DEF u, v
  <2>3. Like(Next1(u), Next1(v), D) /\ Next1(u).end = "fault"
    BY <2>2, DoneAlike, DoneWhere
  <2> QED
    BY <1>7, <2>1, <2>3 DEF Onward, u, v
<1>9. CASE r.how # "fault"
  <2> DEFINE w == IF r.how = "ok" THEN r.val ELSE nil
             e == <<"bif", fname, args>>
             u == Define(s, inst, w)
             v == Define(t, inst, w)
  <2>1. /\ CallBif(s, inst) = Effect(u, e)
        /\ CallBif(t, inst) = Effect(v, e)
    BY <1>5, <1>6, <1>9 DEF After
  <2>2. Beside(s, t, D, Effect(u, e), Effect(v, e))
    BY BesideSelf, BesideDone
  <2> HIDE DEF u, v, e
  <2> QED
    BY <1>7, <2>1, <2>2, OnwardDone
<1> QED
  BY <1>8, <1>9

LEMMA ActsAlike ==
    ASSUME NEW g, NEW h, NEW s, NEW t, NEW D, Like(s, t, D), NEW inst, IsInst(inst),
           Reads(inst) \intersect D = {}, inst.kind \in Acting \ (JumpKinds \union {"CallBif"})
    PROVE  Onward(s, t, D, Step(g, s, inst), Step(h, t, inst))
<1> DEFINE w == named(s, inst, 1)
<1>1. inst.kind \in NamingKinds => named(t, inst, 1) = w
  BY ResultAlike
<1>2. /\ DOMAIN s = {"blk", "pc", "env", "regs", "stack", "words", "effects", "end", "val"}
      /\ DOMAIN t = DOMAIN s
      /\ s.stack = t.stack /\ s.words = t.words
  BY LikeFields DEF Like
<1>3. inst.kind \in {"Ret", "Throw", "Move", "SetReg", "Push", "Pop", "Alloc", "ConsumeReductions"}
  BY DEF Acting, JumpKinds
<1>4. inst.kind \in Acting /\ Beside(s, t, D, s, t)
  BY BesideSelf
<1>5. inst.kind \in {"Ret", "Throw", "SetReg", "Push"} => inst.kind \in NamingKinds
  BY DEF NamingKinds
<1>6. CASE inst.kind = "Ret"
  <2> DEFINE x == IF inst.ops = <<>> /\ inst.ids[1] = 0 THEN nil ELSE w
  <2>1. Step(g, s, inst) = End(s, "ok", x)
    BY <1>6, StepRet
  <2>2. Step(h, t, inst) = End(t, "ok", IF inst.ops = <<>> /\ inst.ids[1] = 0 THEN nil
                                        ELSE named(t, inst, 1))
    BY <1>6, StepRet
  <2>3. Step(h, t, inst) = End(t, "ok", x)
    BY <1>1, <1>5, <1>6, <2>2
  <2> QED
    BY <2>1, <2>3, OnwardEnd
<1>7. CASE inst.kind = "Throw"
  <2>1. Step(g, s, inst) = End(s, "throw", w)
    BY <1>7, StepThrow
  <2>2. Step(h, t, inst) = End(t, "throw", named(t, inst, 1))
    BY <1>7, StepThrow
  <2>3. named(t, inst, 1) = w
    BY <1>1, <1>5, <1>7
  <2> QED
    BY <2>1, <2>2, <2>3, OnwardEnd
<1>8. CASE inst.kind = "Move"
  <2> DEFINE x == read_reg(s, inst.regs[1])
             r == inst.regs[2]
  <2>1. read_reg(t, inst.regs[1]) = x
    BY ResolveAlike
  <2>2. Step(g, s, inst) = Next1(write_reg(s, r, x))
    BY <1>8, StepMove
  <2>3. Step(h, t, inst) = Next1(write_reg(t, r, read_reg(t, inst.regs[1])))
    BY <1>8, StepMove
  <2>4. Beside(s, t, D, write_reg(s, r, x), write_reg(t, r, x))
    BY <1>4, BesideDone, Zenon
  <2> QED
    BY <2>1, <2>2, <2>3, <2>4, OnwardDone
<1>9. CASE inst.kind = "SetReg"
  <2> DEFINE r == inst.regs[1]
  <2>1. Step(g, s, inst) = Next1(write_reg(s, r, w))
    BY <1>9, StepSetReg
  <2>2. Step(h, t, inst) = Next1(write_reg(t, r, named(t, inst, 1)))
    BY <1>9, StepSetReg
  <2>3. named(t, inst, 1) = w
    BY <1>1, <1>5, <1>9
  <2>4. Beside(s, t, D, write_reg(s, r, w), write_reg(t, r, w))
    BY <1>4, BesideDone, Zenon
  <2> QED
    BY <2>1, <2>2, <2>3, <2>4, OnwardDone
<1>10. CASE inst.kind = "Push"
  <2> DEFINE stack == <<w>> \o s.stack
             u == [s EXCEPT !.stack = stack]
             v == [t EXCEPT !.stack = stack]
             e == <<"push", w>>
  <2>1. Step(g, s, inst) = Next1(Effect(u, e))
    BY <1>10, StepPush
  <2>2. Step(h, t, inst) = Next1(Effect([t EXCEPT !.stack = <<named(t, inst, 1)>> \o @],
                                        <<"push", named(t, inst, 1)>>))
    BY <1>10, StepPush
  <2>3. named(t, inst, 1) = w
    BY <1>1, <1>5, <1>10
  <2>4. Step(h, t, inst) = Next1(Effect(v, e))
    BY <1>2, <2>2, <2>3
  <2> HIDE DEF stack, e
  <2>5. Beside(s, t, D, u, v)
    BY <1>2 DEF Beside, Like
  <2> HIDE DEF u, v
  <2>6. Beside(s, t, D, Effect(u, e), Effect(v, e))
    BY <2>5, BesideDone, Zenon
  <2> QED
    BY <2>1, <2>4, <2>6, OnwardDone
<1>11. CASE inst.kind = "Pop"
  <2>1. /\ Step(g, s, inst) = IF s.stack = <<>> THEN End(s, "fault", nil)
                              ELSE Next1(Define([s EXCEPT !.stack = Tail(@)], inst, Head(s.stack)))
        /\ Step(h, t, inst) = IF t.stack = <<>> THEN End(t, "fault", nil)
                              ELSE Next1(Define([t EXCEPT !.stack = Tail(@)], inst, Head(t.stack)))
    BY <1>11, StepPop
  <2>2. CASE s.stack = <<>>
    BY <1>2, <2>1, <2>2, OnwardEnd
  <2>3. CASE s.stack # <<>>
    <3> DEFINE stack == Tail(s.stack)
               x == Head(s.stack)
               u == [s EXCEPT !.stack = stack]
               v == [t EXCEPT !.stack = stack]
    <3>1. Step(g, s, inst) = Next1(Define(u, inst, x)) /\ Step(h, t, inst) = Next1(Define(v, inst, x))
      BY <1>2, <2>1, <2>3
    <3> HIDE DEF stack, x
    <3>2. Beside(s, t, D, u, v)
      BY <1>2 DEF Beside, Like
    <3> HIDE DEF u, v
    <3>3. Beside(s, t, D, Define(u, inst, x), Define(v, inst, x))
      BY <3>2, BesideDone, Zenon
    <3> QED
      BY <3>1, <3>3, OnwardDone
  <2> QED
    BY <2>2, <2>3
<1>12. CASE inst.kind = "Alloc"
  <2> DEFINE words == s.words + inst.ns[1]
             u == [s EXCEPT !.words = words]
             v == [t EXCEPT !.words = words]
             x == Word(1, 0, 0, s.words, 0)
             e == <<"alloc", inst.ns[1]>>
  <2>1. Step(g, s, inst) = Next1(Effect(Define(u, inst, x), e))
    BY <1>12, StepAlloc
  <2>2. Step(h, t, inst) = Next1(Effect(Define([t EXCEPT !.words = @ + inst.ns[1]], inst,
                                               Word(1, 0, 0, t.words, 0)), e))
    BY <1>12, StepAlloc
  <2>3. Step(h, t, inst) = Next1(Effect(Define(v, inst, x), e))
    BY <1>2, <2>2
  <2> HIDE DEF words, x, e
  <2>4. Beside(s, t, D, u, v)
    BY <1>2 DEF Beside, Like
  <2> HIDE DEF u, v
  <2>5. Beside(s, t, D, Define(u, inst, x), Define(v, inst, x))
    BY <2>4, BesideDone, Zenon
  <2>6. Beside(s, t, D, Effect(Define(u, inst, x), e), Effect(Define(v, inst, x), e))
    BY <2>5, BesideDone, Zenon
  <2> QED
    BY <2>1, <2>3, <2>6, OnwardDone
<1>13. CASE inst.kind = "ConsumeReductions"
  <2> DEFINE e == <<"reductions", inst.ns[1]>>
  <2>1. Step(g, s, inst) = Next1(Effect(s, e)) /\ Step(h, t, inst) = Next1(Effect(t, e))
    BY <1>13, StepConsumeReductions
  <2>2. Beside(s, t, D, Effect(s, e), Effect(t, e))
    BY <1>4, BesideDone, Zenon
  <2> QED
    BY <2>1, <2>2, OnwardDone
<1> QED
  BY <1>3, <1>6, <1>7, <1>8, <1>9, <1>10, <1>11, <1>12, <1>13

-----------------------------------------------------------------------------
(* Jumps.                                                                  *)

Entry(blocks, l) == IF l \in DOMAIN blocks THEN l ELSE 0

LEMMA GotoWhere ==
    ASSUME NEW s, NEW t, NEW D, Like(s, t, D), NEW g, NEW l
    PROVE  /\ Goto(g, s, l).blk = Entry(g.blocks, l) /\ Goto(g, s, l).pc = 1
           /\ Goto(g, s, l).end = s.end
<1>1. DOMAIN s = {"blk", "pc", "env", "regs", "stack", "words", "effects", "end", "val"}
  BY LikeFields
<1> QED
  BY <1>1 DEF Goto, Entry

LEMMA MinChosen ==
    ASSUME NEW S, S \subseteq Nat, S # {}
    PROVE  Min(S) \in S
<1>1. \E x \in S : \A y \in S : x <= y
  BY LeastNat
<1> QED
  BY <1>1 DEF Min

LEMMA SwitchListed ==
    ASSUME NEW s, NEW inst, IsInst(inst), inst.kind = "Switch"
    PROVE  SwitchTarget(s, inst) \in Range(inst.to)
<1> DEFINE n == Len(inst.ns)
           cases == {i \in DOMAIN inst.ns : raw(inst.ns[i]) = named(s, inst, 1)}
<1>1. /\ n \in Nat /\ DOMAIN inst.ns = 1 .. n
      /\ Len(inst.to) = n + 1 /\ DOMAIN inst.to = 1 .. n + 1
  BY LenProperties DEF IsInst
<1>2. SwitchTarget(s, inst) = IF cases = {} THEN inst.to[Len(inst.to)] ELSE inst.to[Min(cases)]
  BY DEF SwitchTarget
<1>3. cases \subseteq 1 .. n
  BY <1>1
<1> HIDE DEF n, cases
<1>4. cases # {} => Min(cases) \in 1 .. n
  <2>1. cases \subseteq Nat
    BY <1>3
  <2> QED
    BY <1>3, <2>1, MinChosen
<1> QED
  BY <1>1, <1>2, <1>4 DEF Range

\* A jump goes to one of its labels, the same one from both.
LEMMA JumpAlike ==
    ASSUME NEW g, NEW h, NEW s, NEW t, NEW D, Like(s, t, D), NEW inst, IsInst(inst),
           inst.kind \in JumpKinds, Reads(inst) \intersect D = {}
    PROVE  \E l \in Range(inst.to) :
               Step(g, s, inst) = Goto(g, s, l) /\ Step(h, t, inst) = Goto(h, t, l)
<1>1. inst.kind \in {"BrIf", "Switch"} => named(s, inst, 1) = named(t, inst, 1)
  BY ResultAlike DEF NamingKinds
<1>2. DOMAIN inst.to = 1 .. Len(inst.to)
  BY LenProperties DEF IsInst
<1>3. CASE inst.kind = "Br"
  <2>1. inst.to[1] \in Range(inst.to)
    BY <1>2, <1>3 DEF IsInst, Range
  <2> QED
    BY <1>3, <2>1, StepBr
<1>4. CASE inst.kind = "BrIf"
  <2> DEFINE i == IF truthy(named(s, inst, 1)) THEN 1 ELSE 2
  <2>1. inst.to[i] \in Range(inst.to)
    <3>1. Len(inst.to) = 2 /\ i \in 1 .. 2
      BY <1>4 DEF IsInst
    <3> HIDE DEF i
    <3> QED
      BY <1>2, <3>1 DEF Range
  <2>2. i = IF truthy(named(t, inst, 1)) THEN 1 ELSE 2
    BY <1>1, <1>4
  <2>3. Step(g, s, inst) = Goto(g, s, inst.to[i])
    BY <1>4, StepBrIf
  <2>4. Step(h, t, inst) = Goto(h, t, inst.to[i])
    BY <1>4, <2>2, StepBrIf
  <2> HIDE DEF i
  <2> QED
    BY <2>1, <2>3, <2>4
<1>5. CASE inst.kind = "Switch"
  <2> DEFINE l == SwitchTarget(s, inst)
  <2>1. l \in Range(inst.to)
    BY <1>5, SwitchListed
  <2>2. l = SwitchTarget(t, inst)
    BY <1>1, <1>5 DEF SwitchTarget
  <2>3. Step(g, s, inst) = Goto(g, s, l)
    BY <1>5, StepSwitch
  <2>4. Step(h, t, inst) = Goto(h, t, l)
    BY <1>5, <2>2, StepSwitch
  <2> HIDE DEF l
  <2> QED
    BY <2>1, <2>3, <2>4
<1> QED
  BY <1>3, <1>4, <1>5 DEF JumpKinds

\* An instruction that is no jump takes both to the next one.
LEMMA StepAlike ==
    ASSUME NEW g, NEW h, NEW s, NEW t, NEW D, Like(s, t, D), NEW x, IsInst(x),
           x.kind \notin JumpKinds, Reads(x) \intersect D = {}, NEW y, y = x \/ Marked(x, y)
    PROVE  Onward(s, t, D, Step(g, s, x), Step(h, t, y))
<1>1. CASE y = x
  <2>1. \/ x.kind \notin Acting \/ x.kind = "CallBif"
        \/ x.kind \in Acting \ (JumpKinds \union {"CallBif"})
    OBVIOUS
  <2> QED
    BY <1>1, <2>1, QuietAlike, CallAlike, ActsAlike
<1>2. CASE Marked(x, y)
  <2>1. /\ x.kind = "Call" /\ y.kind = "TailCall"
    BY <1>2, MarkedInst DEF Marked
  <2>2. /\ x.kind \notin Acting \union Evaluated /\ y.kind \notin Acting \union Evaluated
    BY <2>1 DEF Acting, Evaluated, ArithmeticKinds, ComparisonKinds, TestKinds, Results, Passing
  <2>3. Step(g, s, x) = Next1(s) /\ Step(h, t, y) = Next1(t)
    BY <2>2, StepQuiet
  <2> QED
    BY <2>3, BesideSelf, OnwardDone
<1> QED
  BY <1>1, <1>2

-----------------------------------------------------------------------------
(* Code that does what other code does.                                    *)

\* at[b][i] is the place in new of position i of block b of old.  There stands the
\* same instruction; or it is silent, or jumps to what has taken its place.
Standing(old, new, R, D, at, b, i) ==
    LET x == old[b].insts[i]
        c == at[b][i][1]
        j == at[b][i][2]
    IN  /\ c \in R /\ j \in 1 .. Len(new[c].insts)
        /\ new[c].insts[j] = x \/ Marked(x, new[c].insts[j])
        /\ at[b][i + 1] = <<c, j + 1>>
        /\ Reads(x) \intersect D = {}
        /\ \A l \in Range(x.to) : /\ Entry(old, l) \in R
                                  /\ at[Entry(old, l)][1] = <<Entry(old, l), 1>>
Passed(old, D, at, b, i) ==
    Silent(old[b].insts[i], D) /\ at[b][i + 1] = at[b][i]
Short(old, R, at, b, i) ==
    LET x == old[b].insts[i]
    IN  x.kind \in JumpKinds /\ \E d \in R : Range(x.to) = {d} /\ at[d][1] = at[b][i]
Follows(old, new, R, D, at) ==
    /\ 0 \in R /\ R \subseteq DOMAIN old /\ DOMAIN new = DOMAIN old
    /\ at[0][1] = <<0, 1>>
    /\ \A b \in R :
        /\ IsCode(old[b].insts) /\ IsCode(new[b].insts)
        /\ \A i \in 1 .. Len(old[b].insts) :
               Standing(old, new, R, D, at, b, i) \/ Passed(old, D, at, b, i) \/ Short(old, R, at, b, i)
        /\ LET e == at[b][Len(old[b].insts) + 1]
           IN  e[1] \in R /\ e[2] = Len(new[e[1]].insts) + 1

\* A run of the old code and one of the new at the same point.
Related(old, R, D, at, s, t) ==
    /\ Like(s, t, D)
    /\ s.end = "running" => /\ s.blk \in R /\ s.pc \in 1 .. Len(old[s.blk].insts) + 1
                            /\ t.blk = at[s.blk][s.pc][1] /\ t.pc = at[s.blk][s.pc][2]

\* A step of the old run is matched by one of the new one, or by none.
LEMMA StepFollows ==
    ASSUME NEW g, NEW h, NEW R, NEW D, NEW at, Follows(g.blocks, h.blocks, R, D, at),
           NEW s, NEW t, Related(g.blocks, R, D, at, s, t)
    PROVE  \/ Stepped(g, s).end = "fault"
           \/ Related(g.blocks, R, D, at, Stepped(g, s), t)
           \/ Related(g.blocks, R, D, at, Stepped(g, s), Stepped(h, t))
<1> DEFINE old == g.blocks
           new == h.blocks
           b == s.blk
           i == s.pc
           x == old[b].insts[i]
           c == t.blk
           j == t.pc
           n == Len(old[b].insts)
           u == Stepped(g, s)
           v == Stepped(h, t)
<1>1. Like(s, t, D) /\ s.end = t.end
  BY DEF Related, Like
<1>2. CASE s.end # "running"
  BY <1>2 DEF Stepped
<1>3. CASE s.end = "running"
  <2>1. /\ b \in R /\ i \in 1 .. n + 1 /\ c = at[b][i][1] /\ j = at[b][i][2]
        /\ IsCode(old[b].insts)
    BY <1>3 DEF Related, Follows
  <2>2. n \in Nat /\ \A k \in 1 .. n : IsInst(old[b].insts[k])
    BY <2>1, CodeFacts
  <2>3. \A e \in R : Len(new[e].insts) \in Nat
    BY CodeFacts DEF Follows
  <2>4. ASSUME NEW l, Entry(old, l) \in R,
               NEW y, NEW z, Like(y, z, D), y.blk = Entry(old, l), y.pc = 1,
               z.blk = at[Entry(old, l)][1][1], z.pc = at[Entry(old, l)][1][2]
        PROVE  Related(old, R, D, at, y, z)
    <3>1. Len(old[Entry(old, l)].insts) \in Nat
      BY <2>4, CodeFacts DEF Follows
    <3>2. 1 \in 1 .. Len(old[Entry(old, l)].insts) + 1
      BY <3>1
    <3> QED
      BY <2>4, <3>2 DEF Related
  <2>5. CASE i = n + 1
    <3>1. /\ at[b][n + 1][1] \in R /\ at[b][n + 1][2] = Len(new[at[b][n + 1][1]].insts) + 1
      BY <2>1 DEF Follows
    <3>2. j > Len(new[c].insts) /\ i > n
      <4> HIDE DEF b, i, c, j, n, old, new
      <4>1. c \in R /\ j = Len(new[c].insts) + 1
        BY <2>1, <2>5, <3>1
      <4>2. Len(new[c].insts) \in Nat
        BY <2>3, <4>1
      <4> QED
        BY <2>2, <2>5, <4>1, <4>2
    <3>3. u = End(s, "ok", nil) /\ v = End(t, "ok", nil)
      BY <1>1, <1>3, <3>2 DEF Stepped
    <3>4. Like(End(s, "ok", nil), End(t, "ok", nil), D) /\ End(s, "ok", nil).end = "ok"
      BY <1>1, DoneAlike, DoneWhere
    <3> QED
      BY <3>3, <3>4 DEF Related
  <2>6. CASE i # n + 1
    <3>1. i \in 1 .. n /\ i + 1 \in 1 .. n + 1
      <4> HIDE DEF b, i, c, j, n, old
      <4> QED
        BY <2>1, <2>2, <2>6
    <3>2. u = Step(g, s, x) /\ IsInst(x)
      BY <1>3, <2>2, <3>1 DEF Stepped
    <3>3. CASE Standing(old, new, R, D, at, b, i)
      <4> DEFINE y == new[c].insts[j]
      <4>1. /\ c \in R /\ j \in 1 .. Len(new[c].insts)
            /\ y = x \/ Marked(x, y)
            /\ at[b][i + 1] = <<c, j + 1>>
            /\ Reads(x) \intersect D = {}
            /\ \A l \in Range(x.to) : /\ Entry(old, l) \in R
                                      /\ at[Entry(old, l)][1] = <<Entry(old, l), 1>>
        BY <2>1, <3>3 DEF Standing
      <4>2. ~(j > Len(new[c].insts))
        BY <2>3, <4>1
      <4>3. v = Step(h, t, y)
        BY <1>1, <1>3, <4>2 DEF Stepped
      <4>4. CASE x.kind \notin JumpKinds
        <5>1. Onward(s, t, D, Step(g, s, x), Step(h, t, y))
          BY <1>1, <3>2, <4>1, <4>4, StepAlike
        <5> HIDE DEF u, v
        <5>2. /\ Like(u, v, D)
              /\ u.end = "running" => u.blk = b /\ u.pc = i + 1 /\ v.blk = c /\ v.pc = j + 1
          BY <3>2, <4>3, <5>1 DEF Onward
        <5>3. at[b][i + 1][1] = c /\ at[b][i + 1][2] = j + 1
          BY <4>1
        <5>4. Related(old, R, D, at, u, v)
          BY <2>1, <3>1, <5>2, <5>3 DEF Related
        <5> QED
          BY <5>4 DEF u, v
      <4>5. CASE x.kind \in JumpKinds
        <5>1. y = x
          BY <4>1, <4>5 DEF Marked, JumpKinds
        <5>2. PICK l \in Range(x.to) : u = Goto(g, s, l) /\ v = Goto(h, t, l)
          <6>1. \E l \in Range(x.to) : Step(g, s, x) = Goto(g, s, l) /\ Step(h, t, x) = Goto(h, t, l)
            <7>1. Like(s, t, D) /\ IsInst(x) /\ x.kind \in JumpKinds /\ Reads(x) \intersect D = {}
              BY <1>1, <3>2, <4>1, <4>5, Zenon
            <7> HIDE DEF x
            <7> QED
              BY <7>1, JumpAlike
          <6>2. u = Step(g, s, x) /\ v = Step(h, t, x)
            BY <3>2, <4>3, <5>1
          <6> HIDE DEF u, v, x
          <6> QED
            BY <6>1, <6>2
        <5>3. /\ Like(u, v, D) /\ u.blk = Entry(old, l) /\ u.pc = 1
              /\ v.blk = Entry(new, l) /\ v.pc = 1
          BY <1>1, <5>2, DoneAlike, GotoWhere, LikeBoth
        <5>4. Entry(new, l) = Entry(old, l)
          BY DEF Entry, Follows
        <5>5. Entry(old, l) \in R /\ at[Entry(old, l)][1] = <<Entry(old, l), 1>>
          BY <4>1
        <5>6. Related(old, R, D, at, u, v)
          <6> HIDE DEF u, v, old, new
          <6> QED
            BY <2>4, <5>3, <5>4, <5>5
        <5> QED
          BY <5>6
      <4> QED
        BY <4>4, <4>5
    <3>4. CASE Passed(old, D, at, b, i)
      <4>1. Silent(x, D) /\ at[b][i + 1] = at[b][i]
        BY <3>4 DEF Passed
      <4>2. u.end = "fault" \/ (Like(u, t, D) /\ u.blk = b /\ u.pc = i + 1)
        BY <1>1, <3>2, <4>1, SilentStep
      <4>3. u.end = "fault" \/ Related(old, R, D, at, u, t)
        <5> HIDE DEF u, old, b, i, c, j
        <5> QED
          BY <2>1, <3>1, <4>1, <4>2 DEF Related, c, j
      <4> QED
        BY <4>3
    <3>5. CASE Short(old, R, at, b, i)
      <4>1. PICK d \in R : Range(x.to) = {d} /\ at[d][1] = at[b][i]
        BY <3>5 DEF Short
      <4>2. x.kind \in JumpKinds
        BY <3>5 DEF Short
      <4>3. Like(s, s, {}) /\ Reads(x) \intersect {} = {}
        BY <1>1 DEF Like
      <4>4. u = Goto(g, s, d)
        BY <3>2, <4>1, <4>2, <4>3, JumpAlike
      <4>5. Entry(old, d) = d
        BY <4>1 DEF Entry, Follows
      <4>6. Like(u, t, D) /\ u.blk = d /\ u.pc = 1
        <5>1. u.blk = d /\ u.pc = 1
          BY <4>3, <4>4, <4>5, GotoWhere
        <5>2. /\ DOMAIN s = {"blk", "pc", "env", "regs", "stack", "words", "effects", "end", "val"}
              /\ DOMAIN t = DOMAIN s
          BY <1>1, LikeFields
        <5>3. Like(Goto(g, s, d), t, D)
          BY <1>1, <5>2 DEF Goto, Like
        <5> QED
          BY <4>4, <5>1, <5>3
      <4>7. t.blk = at[d][1][1] /\ t.pc = at[d][1][2]
        BY <2>1, <4>1
      <4>8. Related(old, R, D, at, u, t)
        <5> HIDE DEF u, old
        <5> QED
          BY <2>4, <4>1, <4>5, <4>6, <4>7
      <4> QED
        BY <4>8
    <3>6. \/ Standing(old, new, R, D, at, b, i) \/ Passed(old, D, at, b, i)
          \/ Short(old, R, at, b, i)
      BY <2>1, <3>1 DEF Follows
    <3> QED
      BY <3>3, <3>4, <3>5, <3>6
  <2> QED
    BY <2>5, <2>6
<1> QED
  BY <1>2, <1>3

(* Such code honours the outcome of the old.                               *)
LEMMA FollowsHonours ==
    ASSUME NEW g, NEW h, g.arity = h.arity, NEW R, NEW D, NEW at,
           Follows(g.blocks, h.blocks, R, D, at), NEW args
    PROVE  Honours(Outcome(h, args), Outcome(g, args))
<1>1. PICK p : Runs(g, args, Fuel, p) /\ execute(g, args) = p[Fuel]
  BY ExecuteRuns
<1>2. PICK q : Runs(h, args, Fuel, q) /\ execute(h, args) = q[Fuel]
  BY ExecuteRuns
<1>3. Fuel \in Nat
  BY FuelAssumption
<1> DEFINE Met(k) == \E m \in 0 .. k : Related(g.blocks, R, D, at, p[k], q[m])
           S == {k \in 0 .. Fuel : p[k].end = "fault" \/ Met(k)}
<1>4. 0 \in S
  <2>1. p[0] = Start(g, args) /\ q[0] = Start(h, args)
    BY <1>1, <1>2 DEF Runs
  <2>2. Like(p[0], q[0], D)
    BY <2>1, StartAlike
  <2>3. p[0].blk = 0 /\ p[0].pc = 1 /\ q[0].blk = 0 /\ q[0].pc = 1
    BY <2>1, StateFields
  <2>4. 0 \in R /\ at[0][1] = <<0, 1>> /\ IsCode(g.blocks[0].insts)
    BY DEF Follows
  <2>5. Len(g.blocks[0].insts) \in Nat
    BY <2>4, CodeFacts
  <2>6. Related(g.blocks, R, D, at, p[0], q[0])
    BY <2>2, <2>3, <2>4, <2>5 DEF Related
  <2> QED
    BY <1>3, <2>6
<1>5. ASSUME NEW k \in 1 .. Fuel, k - 1 \in S PROVE k \in S
  <2>1. p[k] = Stepped(g, p[k - 1]) /\ k \in 0 .. Fuel
    BY <1>1, <1>3 DEF Runs
  <2>2. CASE p[k - 1].end = "fault"
    BY <2>1, <2>2 DEF Stepped
  <2>3. CASE Met(k - 1)
    <3>1. PICK m \in 0 .. k - 1 : Related(g.blocks, R, D, at, p[k - 1], q[m])
      BY <2>3
    <3>2. m \in 0 .. k /\ m + 1 \in 0 .. k /\ m + 1 \in 1 .. Fuel /\ (m + 1) - 1 = m
      BY <1>3
    <3>3. q[m + 1] = Stepped(h, q[m])
      BY <1>2, <3>2 DEF Runs
    <3>4. \/ p[k].end = "fault"
          \/ Related(g.blocks, R, D, at, p[k], q[m])
          \/ Related(g.blocks, R, D, at, p[k], q[m + 1])
      BY <2>1, <3>1, <3>3, StepFollows
    <3> QED
      BY <2>1, <3>2, <3>4
  <2> QED
    BY <1>5, <2>2, <2>3
<1>6. 0 .. Fuel \subseteq S
  <2> HIDE DEF S
  <2> QED
    BY <1>3, <1>4, <1>5, CountUp
<1>7. Fuel \in S
  BY <1>3, <1>6
<1> DEFINE got == Outcome(h, args)
           due == Outcome(g, args)
<1>8. /\ got = [end |-> q[Fuel].end, val |-> q[Fuel].val, effects |-> q[Fuel].effects]
      /\ due = [end |-> p[Fuel].end, val |-> p[Fuel].val, effects |-> p[Fuel].effects]
  BY <1>1, <1>2 DEF Outcome
<1>9. ASSUME p[Fuel].end \in {"ok", "throw"} PROVE got = due
  <2>1. PICK m \in 0 .. Fuel : Related(g.blocks, R, D, at, p[Fuel], q[m])
    BY <1>7, <1>9
  <2>2. Like(p[Fuel], q[m], D)
    BY <2>1 DEF Related
  <2>3. q[m].end # "running" /\ Runs(h, args, Fuel, q)
    BY <1>2, <1>9, <2>2 DEF Like
  <2>4. q[Fuel] = q[m]
    BY <1>3, <2>3, EndedRests
  <2> HIDE DEF got, due
  <2> QED
    BY <1>8, <2>2, <2>4 DEF Like
<1>10. due.end = p[Fuel].end
  BY <1>8
<1> HIDE DEF got, due
<1>11. Honours(got, due)
  BY <1>9, <1>10 DEF Honours
<1> QED
  BY <1>11 DEF got, due

-----------------------------------------------------------------------------
(* Blocks that lose instructions: where the others go.                     *)

\* Instruction i of s goes to e[i] of t, or it has no effect but on D and is not
\* needed by what it reads.
Slid(s, t, D, e) ==
    /\ e[1] = 1 /\ e[Len(s) + 1] = Len(t) + 1
    /\ \A i \in 1 .. Len(s) :
        \/ /\ e[i] \in 1 .. Len(t) /\ e[i + 1] = e[i] + 1
           /\ t[e[i]] = s[i] \/ Marked(s[i], t[e[i]])
        \/ e[i + 1] = e[i] /\ Silent(s[i], D) /\ ~Stays(s[i])
Slides(s, t, D) == \E e : Slid(s, t, D, e)

LEMMA KeepingSlides ==
    ASSUME NEW s, IsCode(s), NEW at, NEW D,
           \A i \in 1 .. Len(s) : i \notin at => Silent(s[i], D) /\ ~Stays(s[i])
    PROVE  Slides(s, Keeping(s, at), D)
<1> DEFINE n == Len(s)
<1>1. n \in Nat /\ DOMAIN s = 1 .. n /\ s \in Seq(Range(s))
  BY CodeFacts
<1>2. PICK q : Keeps(s, at, n, q) /\ Keeping(s, at) = q[n]
  BY <1>1, KeepingRuns
<1> HIDE DEF n
<1> DEFINE Here(k, i) == /\ Len(q[i - 1]) + 1 \in 1 .. Len(q[k])
                         /\ q[k][Len(q[i - 1]) + 1] = s[i]
           S == {k \in 0 .. n : /\ q[k] \in Seq(Range(s))
                                /\ \A i \in 1 .. k : i \in at => Here(k, i)}
<1>3. 0 \in S
  <2>1. q[0] = <<>> /\ <<>> \in Seq(Range(s))
    BY <1>2 DEF Keeps
  <2>2. 0 \in 0 .. n /\ 1 .. 0 = {}
    BY <1>1
  <2> HIDE DEF Here
  <2> QED
    BY <2>1, <2>2
<1>4. ASSUME NEW k \in 1 .. n, k - 1 \in S PROVE k \in S
  <2> DEFINE t == q[k - 1]
  <2>1. /\ t \in Seq(Range(s)) /\ Len(t) \in Nat /\ k \in 0 .. n
        /\ \A i \in 1 .. k - 1 : i \in at => Here(k - 1, i)
    BY <1>4, LenProperties
  <2>2. CASE k \notin at
    <3>1. q[k] = t
      BY <1>2, <2>2 DEF Keeps
    <3>2. ASSUME NEW i \in 1 .. k, i \in at PROVE Here(k, i)
      <4>1. i \in 1 .. k - 1
        BY <1>1, <2>2, <3>2
      <4>2. Here(k - 1, i)
        BY <2>1, <3>2, <4>1
      <4> QED
        BY <3>1, <4>2
    <3>3. q[k] \in Seq(Range(s))
      BY <2>1, <3>1
    <3> HIDE DEF Here, t
    <3> QED
      BY <2>1, <3>2, <3>3
  <2>3. CASE k \in at
    <3>1. q[k] = Append(t, s[k])
      BY <1>2, <2>3 DEF Keeps
    <3>2. s[k] \in Range(s)
      BY <1>1 DEF Range
    <3>3. /\ q[k] \in Seq(Range(s)) /\ Len(q[k]) = Len(t) + 1
          /\ \A i \in 1 .. Len(t) : q[k][i] = t[i]
          /\ q[k][Len(t) + 1] = s[k]
      BY <2>1, <3>1, <3>2, AppendProperties
    <3>4. ASSUME NEW i \in 1 .. k, i \in at PROVE Here(k, i)
      <4>1. CASE i = k
        BY <2>1, <3>3, <4>1
      <4>2. CASE i # k
        <5>1. i \in 1 .. k - 1
          BY <1>1, <4>2
        <5> DEFINE j == Len(q[i - 1]) + 1
        <5>2. j \in 1 .. Len(t) /\ t[j] = s[i]
          BY <2>1, <3>4, <5>1
        <5> HIDE DEF j, t
        <5>3. j \in 1 .. Len(q[k]) /\ q[k][j] = s[i]
          BY <2>1, <3>3, <5>2
        <5> QED
          BY <5>3 DEF j
      <4> QED
        BY <4>1, <4>2
    <3> HIDE DEF Here
    <3> QED
      BY <2>1, <3>3, <3>4
  <2> QED
    BY <2>2, <2>3
<1> HIDE DEF Here
<1>5. 0 .. n \subseteq S
  <2> HIDE DEF S
  <2> QED
    BY <1>1, <1>3, <1>4, CountUp
<1>6. \A k \in 0 .. n : q[k] \in Seq(Range(s)) /\ Len(q[k]) \in Nat
  BY <1>5, LenProperties
<1>7. \A i \in 1 .. n : i \in at => Here(n, i)
  <2>1. n \in S
    BY <1>1, <1>5
  <2> QED
    BY <2>1
<1> HIDE DEF S
<1> DEFINE t == Keeping(s, at)
           e == [i \in 1 .. n + 1 |-> Len(q[i - 1]) + 1]
<1>8. e[1] = 1 /\ e[n + 1] = Len(t) + 1
  <2>1. 1 \in 1 .. n + 1 /\ n + 1 \in 1 .. n + 1 /\ (n + 1) - 1 = n /\ 1 - 1 = 0
    BY <1>1
  <2>2. e[1] = Len(q[1 - 1]) + 1 /\ e[n + 1] = Len(q[(n + 1) - 1]) + 1
    BY <2>1
  <2>3. q[0] = <<>> /\ Len(<<>>) = 0
    BY <1>2 DEF Keeps
  <2> HIDE DEF e
  <2> QED
    BY <1>2, <2>1, <2>2, <2>3
<1>9. ASSUME NEW i \in 1 .. n
      PROVE  \/ /\ e[i] \in 1 .. Len(t) /\ e[i + 1] = e[i] + 1
                /\ t[e[i]] = s[i] \/ Marked(s[i], t[e[i]])
             \/ e[i + 1] = e[i] /\ Silent(s[i], D) /\ ~Stays(s[i])
  <2>1. i \in 1 .. n + 1 /\ i + 1 \in 1 .. n + 1 /\ (i + 1) - 1 = i /\ i - 1 \in 0 .. n
    BY <1>1
  <2>2. e[i] = Len(q[i - 1]) + 1 /\ e[i + 1] = Len(q[(i + 1) - 1]) + 1
    BY <2>1
  <2> HIDE DEF e
  <2>3. CASE i \in at
    <3>1. Here(n, i)
      BY <1>7, <2>3
    <3>2. e[i] \in 1 .. Len(t) /\ t[e[i]] = s[i]
      BY <1>2, <2>2, <3>1 DEF Here
    <3>3. q[i] = Append(q[i - 1], s[i])
      BY <1>2, <2>3 DEF Keeps
    <3>4. s[i] \in Range(s)
      BY <1>1 DEF Range
    <3>5. q[i - 1] \in Seq(Range(s)) /\ Len(q[i - 1]) \in Nat
      BY <1>6, <2>1
    <3>6. Len(q[i]) = Len(q[i - 1]) + 1
      BY <3>3, <3>4, <3>5, AppendProperties
    <3> QED
      BY <2>1, <2>2, <3>2, <3>5, <3>6
  <2>4. CASE i \notin at
    <3>1. q[i] = q[i - 1]
      BY <1>2, <2>4 DEF Keeps
    <3>2. Silent(s[i], D) /\ ~Stays(s[i])
      BY <2>4 DEF n
    <3> QED
      BY <2>1, <2>2, <3>1, <3>2
  <2> QED
    BY <2>3, <2>4
<1> HIDE DEF e, t
<1> QED
  BY <1>8, <1>9 DEF Slid, Slides, n, t

-----------------------------------------------------------------------------
(* What the passes rely on in the code that runs.                          *)

Insts(blocks, R)  == UNION {Range(blocks[b].insts) : b \in R}
Unread(blocks, R) == {x.res : x \in Insts(blocks, R)} \ UNION {Reads(x) : x \in Insts(blocks, R)}

\* A value that is read is in an operand list, and so is one that a move, push or
\* pop makes, of an instruction that stays; two instructions of a kind that compute
\* the same leave results nobody reads; and jumps end a block or lead to the only one.
Listed(x, y)     == x.res # NoValue /\ x.res \in Range(y.ids) => x.res \in Range(y.ops)
Twice(x, y)      == HasKey(x) /\ x.kind = y.kind /\ Range(x.ops) = Range(y.ops)
Wanted(x, insts) == x.kind \in Overlooked /\ x.res # NoValue =>
                        \E y \in Range(insts) : Stays(y) /\ x.res \in Range(y.ops)
JumpsAtEnd(insts) == \A i \in DOMAIN insts : i # Len(insts) => insts[i].to = <<>>
Sound(blocks, R) ==
    LET all == Insts(blocks, R)
    IN  /\ \A x, y \in all : Listed(x, y)
        /\ \A b, c \in R : \A i \in DOMAIN blocks[b].insts, j \in DOMAIN blocks[c].insts :
               (b # c \/ i # j) /\ Twice(blocks[b].insts[i], blocks[c].insts[j])
               => \A z \in all : blocks[b].insts[i].res \notin Reads(z)
        /\ \A b \in R : \A x \in Range(blocks[b].insts) : Wanted(x, blocks[b].insts)
        /\ DOMAIN blocks = {0} \/ \A b \in R : JumpsAtEnd(blocks[b].insts)

\* The same instruction, or the tail call it has become.
Still(x, y) == y = x \/ Marked(x, y)

\* Each instruction of new comes from a place of its own in old, from where
\* everything that stays has come too.
Drawn(old, new, R, from) ==
    /\ \A b \in R : \A i \in DOMAIN new[b].insts :
        LET p == from[b][i]
        IN  /\ p[1] \in R /\ p[2] \in DOMAIN old[p[1]].insts
            /\ Still(old[p[1]].insts[p[2]], new[b].insts[i])
            /\ \A y \in Range(old[p[1]].insts) :
                   Stays(y) => \E z \in Range(new[b].insts) : Still(y, z)
    /\ \A b, c \in R : \A i \in DOMAIN new[b].insts, j \in DOMAIN new[c].insts :
           b # c \/ i # j => from[b][i][1] # from[c][j][1] \/ from[b][i][2] # from[c][j][2]

LEMMA StillFacts ==
    ASSUME NEW x, IsInst(x), NEW y, Still(x, y)
    PROVE  /\ y.res = x.res /\ y.ops = x.ops /\ y.ids = x.ids /\ y.to = x.to
           /\ Reads(y) = Reads(x)
           /\ y = x \/ (x.kind = "Call" /\ y.kind = "TailCall")
           /\ Stays(x) => Stays(y)
<1>1. CASE y = x
  BY <1>1
<1>2. CASE Marked(x, y)
  <2>1. /\ x.kind = "Call" /\ y.kind = "TailCall"
        /\ y.res = x.res /\ y.ops = x.ops /\ y.ids = x.ids /\ y.to = x.to
    BY <1>2, MarkedInst DEF Marked
  <2>2. Reads(y) = Reads(x)
    BY <2>1 DEF Reads
  <2>3. Stays(y)
    BY <2>1 DEF Stays, has_side_effects, JumpKinds
  <2> QED
    BY <2>1, <2>2, <2>3
<1> QED
  BY <1>1, <1>2 DEF Still

(* What is drawn from sound code is sound.                                 *)
LEMMA SoundAgain ==
    ASSUME NEW old, NEW new, NEW R, NEW from, Sound(old, R), Drawn(old, new, R, from),
           \A b \in R : IsCode(old[b].insts), DOMAIN new = DOMAIN old,
           DOMAIN new = {0} \/ \A b \in R : JumpsAtEnd(new[b].insts)
    PROVE  Sound(new, R)
<1> DEFINE all == Insts(old, R)
           here == Insts(new, R)
<1>1. ASSUME NEW b \in R, NEW i \in DOMAIN new[b].insts
      PROVE  \E c \in R : \E j \in DOMAIN old[c].insts :
                 /\ from[b][i][1] = c /\ from[b][i][2] = j
                 /\ IsInst(old[c].insts[j]) /\ Still(old[c].insts[j], new[b].insts[i])
                 /\ old[c].insts[j] \in Range(old[c].insts) /\ old[c].insts[j] \in all
                 /\ \A y \in Range(old[c].insts) :
                        Stays(y) => IsInst(y) /\ \E z \in Range(new[b].insts) : Still(y, z)
  <2> DEFINE c == from[b][i][1]
             j == from[b][i][2]
  <2>1. /\ c \in R /\ j \in DOMAIN old[c].insts
        /\ Still(old[c].insts[j], new[b].insts[i])
        /\ \A y \in Range(old[c].insts) :
               Stays(y) => \E z \in Range(new[b].insts) : Still(y, z)
    BY <1>1 DEF Drawn
  <2> HIDE DEF c, j
  <2>2. \A k \in DOMAIN old[c].insts : IsInst(old[c].insts[k])
    BY <2>1 DEF IsCode
  <2>3. old[c].insts[j] \in Range(old[c].insts) /\ \A y \in Range(old[c].insts) : IsInst(y)
    BY <2>1, <2>2 DEF Range
  <2>4. old[c].insts[j] \in all
    BY <2>1, <2>3 DEF Insts
  <2> QED
    BY <2>1, <2>2, <2>3, <2>4 DEF c, j
<1>2. ASSUME NEW y \in here PROVE \E x \in all : IsInst(x) /\ Still(x, y)
  <2>1. PICK b \in R : y \in Range(new[b].insts)
    BY DEF Insts
  <2>2. PICK i \in DOMAIN new[b].insts : y = new[b].insts[i]
    BY <2>1 DEF Range
  <2> HIDE DEF all
  <2> QED
    BY <1>1, <2>2
<1>3. /\ \A x, y \in all : Listed(x, y)
      /\ \A b, c \in R : \A i \in DOMAIN old[b].insts, j \in DOMAIN old[c].insts :
             (b # c \/ i # j) /\ Twice(old[b].insts[i], old[c].insts[j])
             => \A z \in all : old[b].insts[i].res \notin Reads(z)
      /\ \A b \in R : \A x \in Range(old[b].insts) : Wanted(x, old[b].insts)
  BY Zenon DEF Sound
<1> HIDE DEF all, here
<1>4. ASSUME NEW x \in here, NEW y \in here PROVE Listed(x, y)
  <2>1. PICK v \in all : IsInst(v) /\ Still(v, x)
    BY <1>2
  <2>2. PICK w \in all : IsInst(w) /\ Still(w, y)
    BY <1>2
  <2>3. x.res = v.res /\ y.ids = w.ids /\ y.ops = w.ops
    BY <2>1, <2>2, StillFacts
  <2> QED
    BY <1>3, <2>3 DEF Listed
<1>5. ASSUME NEW b \in R, NEW c \in R,
             NEW i \in DOMAIN new[b].insts, NEW j \in DOMAIN new[c].insts, b # c \/ i # j,
             Twice(new[b].insts[i], new[c].insts[j]), NEW z \in here
      PROVE  new[b].insts[i].res \notin Reads(z)
  <2> DEFINE x == new[b].insts[i]
             y == new[c].insts[j]
  <2>1. PICK d \in R : \E k \in DOMAIN old[d].insts :
            /\ from[b][i][1] = d /\ from[b][i][2] = k
            /\ IsInst(old[d].insts[k]) /\ Still(old[d].insts[k], x)
    BY <1>1
  <2>2. PICK k \in DOMAIN old[d].insts :
            /\ from[b][i][1] = d /\ from[b][i][2] = k
            /\ IsInst(old[d].insts[k]) /\ Still(old[d].insts[k], x)
    BY <2>1
  <2>3. PICK e \in R : \E l \in DOMAIN old[e].insts :
            /\ from[c][j][1] = e /\ from[c][j][2] = l
            /\ IsInst(old[e].insts[l]) /\ Still(old[e].insts[l], y)
    BY <1>1
  <2>4. PICK l \in DOMAIN old[e].insts :
            /\ from[c][j][1] = e /\ from[c][j][2] = l
            /\ IsInst(old[e].insts[l]) /\ Still(old[e].insts[l], y)
    BY <2>3
  <2>5. d # e \/ k # l
    BY <1>5, <2>2, <2>4 DEF Drawn
  <2>6. Twice(x, y)
    BY <1>5
  <2> HIDE DEF x, y
  <2>7. x.kind # "TailCall" /\ y.kind # "TailCall"
    BY <2>6 DEF Twice, HasKey, KeyedTwo, KeyedOne, Commutative, TestKinds
  <2>8. old[d].insts[k] = x /\ old[e].insts[l] = y
    BY <2>2, <2>4, <2>7, StillFacts
  <2>9. PICK w \in all : IsInst(w) /\ Still(w, z)
    BY <1>2
  <2>10. x.res \notin Reads(w)
    BY <1>3, <2>5, <2>6, <2>8
  <2> QED
    BY <2>9, <2>10, StillFacts DEF x
<1>6. ASSUME NEW b \in R, NEW x \in Range(new[b].insts) PROVE Wanted(x, new[b].insts)
  <2>1. PICK i \in DOMAIN new[b].insts : x = new[b].insts[i]
    BY DEF Range
  <2>2. PICK d \in R : \E k \in DOMAIN old[d].insts :
            /\ IsInst(old[d].insts[k]) /\ Still(old[d].insts[k], x)
            /\ old[d].insts[k] \in Range(old[d].insts)
            /\ \A y \in Range(old[d].insts) :
                   Stays(y) => IsInst(y) /\ \E z \in Range(new[b].insts) : Still(y, z)
    BY <1>1, <2>1
  <2>3. PICK k \in DOMAIN old[d].insts :
            /\ IsInst(old[d].insts[k]) /\ Still(old[d].insts[k], x)
            /\ old[d].insts[k] \in Range(old[d].insts)
            /\ \A y \in Range(old[d].insts) :
                   Stays(y) => IsInst(y) /\ \E z \in Range(new[b].insts) : Still(y, z)
    BY <2>2
  <2> SUFFICES ASSUME x.kind \in Overlooked, x.res # NoValue
               PROVE  \E z \in Range(new[b].insts) : Stays(z) /\ x.res \in Range(z.ops)
    BY Zenon DEF Wanted
  <2>4. old[d].insts[k] = x
    BY <2>3, StillFacts DEF Overlooked
  <2>5. PICK y \in Range(old[d].insts) : Stays(y) /\ x.res \in Range(y.ops)
    BY <1>3, <2>3, <2>4 DEF Wanted
  <2>6. PICK z \in Range(new[b].insts) : IsInst(y) /\ Still(y, z)
    BY <2>3, <2>5
  <2> QED
    BY <2>5, <2>6, StillFacts
<1> QED
  BY <1>4, <1>5, <1>6, Zenon DEF Sound, here

(* Fewer blocks are sound too.                                             *)
LEMMA SoundLess ==
    ASSUME NEW blocks, NEW R, NEW S, Sound(blocks, R), S \subseteq R
    PROVE  Sound(blocks, S)
<1>1. Insts(blocks, S) \subseteq Insts(blocks, R)
  BY DEF Insts
<1> QED
  BY <1>1, Zenon DEF Sound

(* Jumps stay in what is reached.                                          *)
LEMMA LabelsReached ==
    ASSUME NEW blocks, NEW R, Good(blocks, R), Sound(blocks, R), NEW b \in R,
           NEW i \in 1 .. Len(blocks[b].insts), NEW l \in Range(blocks[b].insts[i].to)
    PROVE  Entry(blocks, l) \in R /\ (DOMAIN blocks # {0} => l \in Range(blocks[b].succs))
<1> DEFINE s == blocks[b].insts
<1>1. 0 \in R /\ R \subseteq DOMAIN blocks /\ Range(blocks[b].succs) \subseteq R
  BY DEF Good, Closed
<1>2. CASE DOMAIN blocks = {0}
  BY <1>1, <1>2 DEF Entry
<1>3. CASE DOMAIN blocks # {0}
  <2>1. IsCode(s) /\ Range(blocks[b].succs) = Targets(blocks[b])
    BY DEF Good, TidyBlock
  <2>2. i \in DOMAIN s /\ IsInst(s[i]) /\ s # <<>>
    BY <2>1, CodeFacts
  <2>3. s[i].to # <<>>
    BY RangeEmpty
  <2>4. i = Len(s)
    BY <1>3, <2>2, <2>3 DEF Sound, JumpsAtEnd
  <2>5. is_terminator(s[i])
    BY <2>2, <2>3 DEF IsInst, is_terminator, Terminators, JumpKinds
  <2>6. Targets(blocks[b]) = Range(s[i].to)
    BY <2>2, <2>4, <2>5 DEF Targets, is_terminated, Last
  <2> QED
    BY <1>1, <2>1, <2>6 DEF Entry
<1> QED
  BY <1>2, <1>3

LEMMA SelfSlides ==
    ASSUME NEW s, IsCode(s), NEW t, Len(t) = Len(s), NEW D,
           \A i \in 1 .. Len(s) : Still(s[i], t[i])
    PROVE  Slides(s, t, D)
<1> DEFINE e == [i \in 1 .. Len(s) + 1 |-> i]
<1>1. Len(s) \in Nat
  BY CodeFacts
<1>2. e[1] = 1 /\ e[Len(s) + 1] = Len(t) + 1
  BY <1>1
<1>3. ASSUME NEW i \in 1 .. Len(s) PROVE e[i] = i /\ e[i + 1] = i + 1
  BY <1>1
<1>4. Slid(s, t, D, e)
  BY <1>1, <1>2, <1>3 DEF Slid, Still
<1> QED
  BY <1>4 DEF Slides

(* Blocks whose instructions slide are sound again, and do what they did.   *)
LEMMA SlidesSound ==
    ASSUME NEW old, NEW new, NEW R, Good(old, R), Sound(old, R), DOMAIN new = DOMAIN old, NEW D,
           \A b \in R : /\ Thinned(old[b].insts, new[b].insts)
                        /\ Slides(old[b].insts, new[b].insts, D)
    PROVE  Sound(new, R)
<1> DEFINE Picked(b, p) ==
               LET s == old[b].insts  t == new[b].insts
               IN  /\ p \in [1 .. Len(t) -> 1 .. Len(s)]
                   /\ \A i, j \in 1 .. Len(t) : i < j => p[i] < p[j]
                   /\ \A i \in 1 .. Len(t) :
                          t[i] = s[p[i]] \/ (p[i] # Len(s) /\ Marked(s[p[i]], t[i]))
           q == [b \in R |-> CHOOSE p : Picked(b, p)]
           from == [b \in R |-> [i \in DOMAIN new[b].insts |-> <<b, q[b][i]>>]]
<1>1. ASSUME NEW b \in R PROVE Picked(b, q[b])
  <2>1. \E p : Picked(b, p)
    BY <1>1, Zenon DEF Thinned
  <2> HIDE DEF Picked
  <2> QED
    BY <1>1, <2>1
<1> HIDE DEF q
<1>2. ASSUME NEW b \in R
      PROVE  /\ IsCode(old[b].insts) /\ IsCode(new[b].insts)
             /\ Len(old[b].insts) \in Nat /\ DOMAIN old[b].insts = 1 .. Len(old[b].insts)
             /\ Len(new[b].insts) \in Nat /\ DOMAIN new[b].insts = 1 .. Len(new[b].insts)
             /\ \A i \in 1 .. Len(old[b].insts) : IsInst(old[b].insts[i])
  <2>1. IsCode(old[b].insts) /\ IsCode(new[b].insts)
    BY <1>2 DEF Good, TidyBlock, Thinned
  <2> QED
    BY <2>1, CodeFacts
<1>3. ASSUME NEW b \in R, NEW i \in DOMAIN new[b].insts
      PROVE  /\ from[b][i][1] = b /\ from[b][i][2] = q[b][i]
             /\ q[b][i] \in DOMAIN old[b].insts
             /\ Still(old[b].insts[q[b][i]], new[b].insts[i])
             /\ i # Len(new[b].insts) => q[b][i] # Len(old[b].insts)
  <2> DEFINE s == old[b].insts
             t == new[b].insts
             p == q[b]
  <2>1. /\ p \in [1 .. Len(t) -> 1 .. Len(s)]
        /\ \A k, j \in 1 .. Len(t) : k < j => p[k] < p[j]
        /\ t[i] = s[p[i]] \/ Marked(s[p[i]], t[i])
        /\ Len(t) \in Nat /\ DOMAIN t = 1 .. Len(t) /\ i \in 1 .. Len(t)
        /\ Len(s) \in Nat /\ DOMAIN s = 1 .. Len(s)
    BY <1>1, <1>2, <1>3
  <2> HIDE DEF s, t, p
  <2>2. i # Len(t) => p[i] # Len(s)
    <3>1. i # Len(t) => i < Len(t) /\ Len(t) \in 1 .. Len(t)
      BY <2>1
    <3>2. i # Len(t) => p[i] < p[Len(t)] /\ p[i] \in 1 .. Len(s) /\ p[Len(t)] \in 1 .. Len(s)
      BY <2>1, <3>1
    <3> QED
      BY <2>1, <3>2
  <2>3. p[i] \in DOMAIN s /\ Still(s[p[i]], t[i])
    BY <2>1 DEF Still
  <2> QED
    BY <1>3, <2>2, <2>3 DEF s, t, p
<1>4. ASSUME NEW b \in R, NEW y \in Range(old[b].insts), Stays(y)
      PROVE  \E z \in Range(new[b].insts) : Still(y, z)
  <2> DEFINE s == old[b].insts
             t == new[b].insts
  <2>1. PICK i \in 1 .. Len(s) : y = s[i]
    BY <1>2 DEF Range
  <2>2. PICK e : Slid(s, t, D, e)
    BY DEF Slides
  <2>3. e[i] \in 1 .. Len(t) /\ Still(s[i], t[e[i]])
    BY <1>4, <2>1, <2>2 DEF Slid, Still
  <2>4. DOMAIN t = 1 .. Len(t)
    BY <1>2
  <2> HIDE DEF s, t
  <2> QED
    BY <2>1, <2>3, <2>4 DEF Range, t
<1>5. ASSUME NEW b \in R, NEW i \in DOMAIN new[b].insts, NEW j \in DOMAIN new[b].insts, i # j
      PROVE  q[b][i] # q[b][j]
  <2> DEFINE p == q[b]
             t == new[b].insts
             s == old[b].insts
  <2>1. /\ p \in [1 .. Len(t) -> 1 .. Len(s)]
        /\ \A k, l \in 1 .. Len(t) : k < l => p[k] < p[l]
        /\ Len(t) \in Nat /\ DOMAIN t = 1 .. Len(t) /\ Len(s) \in Nat
    BY <1>1, <1>2
  <2>2. i \in 1 .. Len(t) /\ j \in 1 .. Len(t)
    BY <2>1
  <2> HIDE DEF p, s, t
  <2>3. i < j \/ j < i
    BY <1>5, <2>1, <2>2
  <2>4. p[i] < p[j] \/ p[j] < p[i]
    BY <2>1, <2>2, <2>3
  <2>5. p[i] \in Int /\ p[j] \in Int
    BY <2>1, <2>2
  <2> QED
    BY <2>4, <2>5 DEF p
<1> HIDE DEF from
<1>6. Drawn(old, new, R, from)
  BY <1>3, <1>4, <1>5 DEF Drawn
<1>7. DOMAIN new = {0} \/ \A b \in R : JumpsAtEnd(new[b].insts)
  <2> SUFFICES ASSUME DOMAIN new # {0}, NEW b \in R, NEW i \in DOMAIN new[b].insts,
                      i # Len(new[b].insts)
               PROVE  new[b].insts[i].to = <<>>
    BY DEF JumpsAtEnd
  <2>1. /\ q[b][i] \in DOMAIN old[b].insts /\ q[b][i] # Len(old[b].insts)
        /\ Still(old[b].insts[q[b][i]], new[b].insts[i])
    BY <1>3
  <2>2. old[b].insts[q[b][i]].to = <<>> /\ IsInst(old[b].insts[q[b][i]])
    BY <1>2, <2>1 DEF Sound, JumpsAtEnd
  <2> QED
    BY <2>1, <2>2, StillFacts
<1> QED
  BY <1>2, <1>6, <1>7, SoundAgain

LEMMA SlidesFollow ==
    ASSUME NEW old, NEW new, NEW R, Good(old, R), Sound(old, R), DOMAIN new = DOMAIN old,
           \A b \in R : /\ IsCode(new[b].insts)
                        /\ Slides(old[b].insts, new[b].insts, Unread(old, R))
    PROVE  \E at : Follows(old, new, R, Unread(old, R), at)
<1> DEFINE D == Unread(old, R)
           slide == [b \in R |-> CHOOSE e : Slid(old[b].insts, new[b].insts, D, e)]
           at == [b \in R |-> [i \in Nat |-> <<b, slide[b][i]>>]]
<1>1. \A b \in R : Slid(old[b].insts, new[b].insts, D, slide[b])
  <2> HIDE DEF D
  <2>1. \A b \in R : \E e : Slid(old[b].insts, new[b].insts, D, e)
    BY DEF Slides, D
  <2> QED
    BY <2>1
<1> HIDE DEF slide
<1>2. 0 \in R /\ R \subseteq DOMAIN old
  BY DEF Good, Closed
<1>3. \A b \in R : \A i \in Nat : at[b][i] = <<b, slide[b][i]>>
  OBVIOUS
<1> HIDE DEF at
<1>4. \A b \in R : at[b][1] = <<b, 1>>
  BY <1>1, <1>3 DEF Slid
<1>5. ASSUME NEW b \in R
      PROVE  /\ IsCode(old[b].insts) /\ Len(old[b].insts) \in Nat
             /\ DOMAIN old[b].insts = 1 .. Len(old[b].insts)
  <2>1. IsCode(old[b].insts)
    BY <1>5 DEF Good, TidyBlock
  <2> QED
    BY <2>1, CodeFacts
<1>6. ASSUME NEW b \in R, NEW i \in 1 .. Len(old[b].insts)
      PROVE  Standing(old, new, R, D, at, b, i) \/ Passed(old, D, at, b, i)
  <2> DEFINE x == old[b].insts[i]
             e == slide[b]
  <2>1. i \in Nat /\ i + 1 \in Nat
    BY <1>5
  <2>2. at[b][i] = <<b, e[i]>> /\ at[b][i + 1] = <<b, e[i + 1]>>
    BY <1>3, <2>1
  <2>3. \/ /\ e[i] \in 1 .. Len(new[b].insts) /\ e[i + 1] = e[i] + 1
           /\ new[b].insts[e[i]] = x \/ Marked(x, new[b].insts[e[i]])
        \/ e[i + 1] = e[i] /\ Silent(x, D)
    BY <1>1 DEF Slid
  <2>4. Reads(x) \intersect D = {}
    <3>1. x \in Insts(old, R)
      BY <1>5 DEF Insts, Range
    <3> QED
      BY <3>1 DEF Unread
  <2>5. \A l \in Range(x.to) : /\ Entry(old, l) \in R
                               /\ at[Entry(old, l)][1] = <<Entry(old, l), 1>>
    BY <1>4, LabelsReached
  <2> HIDE DEF x, e, D
  <2> QED
    BY <2>2, <2>3, <2>4, <2>5 DEF Standing, Passed, x
<1>7. ASSUME NEW b \in R
      PROVE  LET e == at[b][Len(old[b].insts) + 1]
             IN  e[1] \in R /\ e[2] = Len(new[e[1]].insts) + 1
  <2>1. Len(old[b].insts) + 1 \in Nat
    BY <1>5
  <2>2. at[b][Len(old[b].insts) + 1] = <<b, slide[b][Len(old[b].insts) + 1]>>
    BY <1>3, <2>1
  <2>3. slide[b][Len(old[b].insts) + 1] = Len(new[b].insts) + 1
    BY <1>1 DEF Slid
  <2> QED
    BY <2>2, <2>3
<1> HIDE DEF D
<1>8. Follows(old, new, R, D, at)
  BY <1>2, <1>4, <1>5, <1>6, <1>7, Zenon DEF Follows
<1> QED
  BY <1>8 DEF D

-----------------------------------------------------------------------------
(* What every pass keeps of the code that runs, and of its outcome.        *)

Sane(g) ==
    /\ Tidy(g) /\ mark_reachable(g) \subseteq Live(g)
    /\ Sound(g.blocks, mark_reachable(g))
Refines(g, h) == Sane(h) /\ \A args : Honours(Outcome(h, args), Outcome(g, args))

LEMMA RefinesSelf ==
    ASSUME NEW g, Sane(g)
    PROVE  Refines(g, g)
  BY DEF Refines, Honours

LEMMA RefinesChain ==
    ASSUME NEW g, NEW h, NEW k, Refines(g, h), Refines(h, k)
    PROVE  Refines(g, k)
<1>1. \A got, mid, due : Honours(mid, due) /\ Honours(got, mid) => Honours(got, due)
  BY DEF Honours
<1> QED
  BY <1>1 DEF Refines

(* A pass that thins the blocks that run of what nobody reads.             *)
LEMMA ThinnedRefines ==
    ASSUME NEW g, Sane(g), NEW blocks, DOMAIN blocks = DOMAIN g.blocks,
           Tidy([g EXCEPT !.blocks = blocks]),
           \A b \in mark_reachable(g) :
               /\ blocks[b].succs = g.blocks[b].succs
               /\ blocks[b].reachable = g.blocks[b].reachable
               /\ Thinned(g.blocks[b].insts, blocks[b].insts)
               /\ Slides(g.blocks[b].insts, blocks[b].insts, Unread(g.blocks, mark_reachable(g)))
    PROVE  Refines(g, [g EXCEPT !.blocks = blocks])
<1> DEFINE h == [g EXCEPT !.blocks = blocks]
           R == mark_reachable(g)
           D == Unread(g.blocks, R)
<1>1. h.blocks = blocks /\ h.arity = g.arity /\ Tidy(h)
  BY DEF Sane, Tidy, HasBlocks
<1> HIDE DEF h, D
<1>2. Good(g.blocks, R) /\ Sound(g.blocks, R) /\ Closed(g.blocks, R) /\ R \subseteq Live(g)
  BY DEF Sane, Tidy, Good
<1>3. mark_reachable(h) \subseteq R
  <2>1. Closed(blocks, R)
    BY <1>2 DEF Closed
  <2> HIDE DEF R
  <2> QED
    BY <1>1, <2>1, ReachedLeast
<1>4. mark_reachable(h) \subseteq Live(h)
  BY <1>1, <1>2, <1>3 DEF Live
<1>5. Sound(blocks, R)
  BY <1>2, SlidesSound DEF D
<1>6. PICK at : Follows(g.blocks, h.blocks, R, D, at)
  BY <1>1, <1>2, SlidesFollow DEF Thinned, D
<1> HIDE DEF R
<1>7. Sane(h)
  BY <1>1, <1>3, <1>4, <1>5, SoundLess DEF Sane
<1>8. \A args : Honours(Outcome(h, args), Outcome(g, args))
  BY <1>1, <1>6, FollowsHonours
<1> QED
  BY <1>7, <1>8 DEF Refines, h

(* A pass that leaves the blocks that run alone.                           *)
LEMMA SameRefines ==
    ASSUME NEW g, Sane(g), NEW blocks, DOMAIN blocks = DOMAIN g.blocks,
           Tidy([g EXCEPT !.blocks = blocks]),
           \A b \in mark_reachable(g) :
               /\ blocks[b].succs = g.blocks[b].succs
               /\ blocks[b].reachable = g.blocks[b].reachable
               /\ blocks[b].insts = g.blocks[b].insts
    PROVE  Refines(g, [g EXCEPT !.blocks = blocks])
<1>1. ASSUME NEW b \in mark_reachable(g), NEW D
      PROVE  /\ Thinned(g.blocks[b].insts, blocks[b].insts)
             /\ Slides(g.blocks[b].insts, blocks[b].insts, D)
  <2>1. IsCode(g.blocks[b].insts)
    BY <1>1, ReachedTidy DEF Sane
  <2> QED
    BY <1>1, <2>1, ThinnedSelf, SelfSlides DEF Still
<1> QED
  BY <1>1, ThinnedRefines

(* A pass that keeps some of the instructions of a block.                  *)
LEMMA SweptRefines ==
    ASSUME NEW g, Sane(g), NEW blocks, NEW at,
           DOMAIN blocks = DOMAIN g.blocks,
           \A b \in DOMAIN g.blocks :
               blocks[b] = IF b \in Live(g)
                           THEN [g.blocks[b] EXCEPT !.insts = Keeping(@, at[b])]
                           ELSE g.blocks[b],
           \A b \in mark_reachable(g) : \A i \in DOMAIN g.blocks[b].insts : i \notin at[b] =>
               /\ Silent(g.blocks[b].insts[i], Unread(g.blocks, mark_reachable(g)))
               /\ ~Stays(g.blocks[b].insts[i])
    PROVE  Refines(g, [g EXCEPT !.blocks = blocks])
<1> DEFINE R == mark_reachable(g)
           D == Unread(g.blocks, R)
<1>1. Tidy(g) /\ R \subseteq Live(g)
  BY DEF Sane
<1>2. ASSUME NEW b \in R
      PROVE  /\ b \in DOMAIN g.blocks /\ IsCode(g.blocks[b].insts)
             /\ DOMAIN g.blocks[b].insts = 1 .. Len(g.blocks[b].insts)
             /\ Len(g.blocks[b].insts) \in Nat
             /\ g.blocks[b].insts = <<>> <=> Len(g.blocks[b].insts) = 0
  BY <1>1, <1>2, ReachedTidy, CodeFacts
<1>3. \A x, E : Silent(x, E) /\ ~Stays(x) => ~is_terminator(x)
  BY DEF Silent, Stays, Acting, is_terminator, Terminators, has_side_effects, JumpKinds
<1>4. ASSUME NEW b \in R, g.blocks[b].insts # <<>>,
             is_terminator(g.blocks[b].insts[Len(g.blocks[b].insts)])
      PROVE  Len(g.blocks[b].insts) \in at[b]
  <2>1. Len(g.blocks[b].insts) \in DOMAIN g.blocks[b].insts
    BY <1>2, <1>4
  <2> QED
    BY <1>3, <1>4, <2>1
<1>5. Tidy([g EXCEPT !.blocks = blocks])
  BY <1>1, <1>4, SweptTidy
<1>6. ASSUME NEW b \in R
      PROVE  /\ blocks[b].succs = g.blocks[b].succs
             /\ blocks[b].reachable = g.blocks[b].reachable
             /\ blocks[b].insts = Keeping(g.blocks[b].insts, at[b])
  <2>1. DOMAIN g.blocks[b] = {"insts", "preds", "succs", "reachable"}
    BY <1>1, <1>2, <1>6 DEF Tidy, Good, IsFramed, BasicBlock
  <2>2. b \in Live(g)
    BY <1>1, <1>6
  <2> QED
    BY <1>2, <1>6, <2>1, <2>2
<1>7. ASSUME NEW b \in R
      PROVE  /\ Thinned(g.blocks[b].insts, blocks[b].insts)
             /\ Slides(g.blocks[b].insts, blocks[b].insts, D)
  BY <1>2, <1>4, <1>6, <1>7, KeepingThins, KeepingSlides
<1> QED
  BY <1>5, <1>6, <1>7, ThinnedRefines

-----------------------------------------------------------------------------
(* The passes that take instructions away.                                 *)

LEMMA UnreachableRefines ==
    ASSUME NEW g, Sane(g)
    PROVE  Refines(g, remove_unreachable(g).f)
<1> DEFINE R == mark_reachable(g)
           dead == Live(g) \ R
           changed == dead # {}
           swept(b, block) ==
               IF b \in dead THEN [block EXCEPT !.reachable = FALSE, !.insts = <<>>, !.succs = <<>>]
               ELSE block
           blocks == [b \in DOMAIN g.blocks |->
                         IF b \in Live(g) THEN swept(b, g.blocks[b]) ELSE g.blocks[b]]
<1>1. remove_unreachable(g).f = [g EXCEPT !.blocks = blocks]
  BY Zenon DEF remove_unreachable, Blockwise, Pass
<1>2. ASSUME NEW b \in R PROVE blocks[b] = g.blocks[b]
  <2>1. b \in DOMAIN g.blocks
    BY <1>2, ReachedTidy DEF Sane
  <2> QED
    BY <1>2, <2>1
<1>3. DOMAIN blocks = DOMAIN g.blocks
  OBVIOUS
<1> HIDE DEF blocks
<1>4. Tidy([g EXCEPT !.blocks = blocks])
  BY <1>1, UnreachableTidy DEF Sane
<1> QED
  BY <1>1, <1>2, <1>3, <1>4, SameRefines

LEMMA UnusedRefines ==
    ASSUME NEW g, Sane(g)
    PROVE  Refines(g, remove_unused_instructions(g).f)
<1> DEFINE used == used_values(g)
           R == mark_reachable(g)
           swept(b, block) ==
               [block EXCEPT !.insts = Keeping(@, {i \in DOMAIN @ : Kept(@[i], used)})]
           blocks == [b \in DOMAIN g.blocks |->
                         IF b \in Live(g) THEN swept(b, g.blocks[b]) ELSE g.blocks[b]]
           at == [b \in DOMAIN g.blocks |->
                     {i \in DOMAIN g.blocks[b].insts : Kept(g.blocks[b].insts[i], used)}]
<1>1. remove_unused_instructions(g).f = [g EXCEPT !.blocks = blocks]
  BY Zenon DEF remove_unused_instructions, Blockwise, Report, Pass
<1>2. ASSUME NEW b \in DOMAIN g.blocks
      PROVE  /\ blocks[b] = IF b \in Live(g)
                            THEN [g.blocks[b] EXCEPT !.insts = Keeping(@, at[b])]
                            ELSE g.blocks[b]
             /\ \A i \in DOMAIN g.blocks[b].insts :
                    i \notin at[b] => ~Kept(g.blocks[b].insts[i], used)
  BY <1>2
<1>3. DOMAIN blocks = DOMAIN g.blocks
  OBVIOUS
<1> HIDE DEF blocks, at, R
<1>4. R \subseteq Live(g) /\ R \subseteq DOMAIN g.blocks /\ Sound(g.blocks, R)
  BY ReachedTidy DEF Sane, R
<1>5. ASSUME NEW y \in Insts(g.blocks, R) PROVE Range(y.ops) \subseteq used
  <2>1. PICK b \in R : y \in Range(g.blocks[b].insts)
    BY <1>5 DEF Insts
  <2>2. y \in LiveInsts(g)
    BY <1>4, <2>1 DEF LiveInsts, Range
  <2> QED
    BY <2>2 DEF used_values
<1> HIDE DEF used
<1>6. ASSUME NEW b \in R, NEW i \in DOMAIN g.blocks[b].insts, i \notin at[b]
      PROVE  /\ Silent(g.blocks[b].insts[i], Unread(g.blocks, R))
             /\ ~Stays(g.blocks[b].insts[i])
  <2> DEFINE x == g.blocks[b].insts[i]
  <2>1. x.res # NoValue /\ x.res \notin used /\ ~has_side_effects(x)
    BY <1>2, <1>4, <1>6 DEF Kept
  <2>2. x \in Range(g.blocks[b].insts) /\ x \in Insts(g.blocks, R)
    BY <1>6 DEF Insts, Range
  <2>3. Wanted(x, g.blocks[b].insts) /\ \A y \in Insts(g.blocks, R) : Listed(x, y)
    BY <1>4, <1>6, <2>2 DEF Sound
  <2>4. \A y \in Range(g.blocks[b].insts) : y \in Insts(g.blocks, R)
    BY <1>6 DEF Insts
  <2> HIDE DEF x
  <2>5. x.kind \notin Overlooked
    BY <1>5, <2>1, <2>3, <2>4 DEF Wanted
  <2>6. x.kind \notin Acting
    BY <2>1, <2>5 DEF Acting, Overlooked, has_side_effects
  <2>7. \A y \in Insts(g.blocks, R) : x.res \notin Reads(y)
    BY <1>5, <2>1, <2>3 DEF Listed, Reads, Range
  <2>8. x.res \in Unread(g.blocks, R)
    BY <2>2, <2>7 DEF Unread
  <2>9. Silent(x, Unread(g.blocks, R)) /\ ~Stays(x)
    BY <2>1, <2>6, <2>8 DEF Silent, Stays
  <2> QED
    BY <2>9 DEF x
<1>7. Refines(g, [g EXCEPT !.blocks = blocks])
  BY <1>2, <1>3, <1>6, SweptRefines DEF R
<1> QED
  BY <1>1, <1>7

LEMMA DeadCodeRefines ==
    ASSUME NEW g, Sane(g)
    PROVE  Refines(g, eliminate_dead_code(g).f)
<1> DEFINE h == remove_unreachable(g).f
           k == remove_unused_instructions(h).f
<1>1. eliminate_dead_code(g).f = k
  BY Zenon DEF eliminate_dead_code, Then, Combine, Pass
<1>2. Refines(g, h)
  BY UnreachableRefines
<1> HIDE DEF h
<1>3. Refines(h, k)
  BY <1>2, UnusedRefines DEF Refines
<1> HIDE DEF k
<1> QED
  BY <1>1, <1>2, <1>3, RefinesChain

(* Equal keys are of equal expressions.                                    *)
LEMMA SameKey ==
    ASSUME NEW x, NEW y, IsInst(x), IsInst(y), HasKey(x), HasKey(y), expr_key(x) = expr_key(y)
    PROVE  x.kind = y.kind /\ Range(x.ops) = Range(y.ops)
<1>1. /\ x.ops \in Seq(Int) /\ y.ops \in Seq(Int)
      /\ Len(x.ops) \in Nat /\ Len(y.ops) \in Nat
  BY LenProperties DEF IsInst
<1>2. ASSUME NEW k, NEW s \in Seq(Int)
      PROVE  /\ (<<k>> \o s)[1] = k
             /\ Len(<<k>> \o s) = Len(s) + 1
             /\ \A i \in 1 .. Len(s) : (<<k>> \o s)[i + 1] = s[i]
  <2>1. <<k>> \in Seq({k} \union Int) /\ s \in Seq({k} \union Int) /\ Len(<<k>>) = 1
        /\ Len(s) \in Nat
    BY SeqMonotonic, LenProperties
  <2>2. /\ Len(<<k>> \o s) = 1 + Len(s)
        /\ \A i \in 1 .. 1 + Len(s) : (<<k>> \o s)[i] = IF i <= 1 THEN <<k>>[i] ELSE s[i - 1]
    BY <2>1, ConcatProperties
  <2> QED
    BY <2>1, <2>2
<1>3. expr_key(x)[1] = x.kind /\ expr_key(y)[1] = y.kind
  BY <1>1, <1>2 DEF expr_key
<1>4. x.kind = y.kind
  BY <1>3
<1>5. CASE x.kind \in Commutative
  <2>1. ASSUME NEW s \in Seq(Int), Len(s) = 2
        PROVE  Range(s) = {Min(Range(s)), Max(Range(s))}
    <3>1. DOMAIN s = {1, 2} /\ s[1] \in Int /\ s[2] \in Int
      BY <2>1, LenProperties, ElementOfSeq
    <3>2. Range(s) = {s[1], s[2]}
      BY <3>1 DEF Range
    <3> DEFINE a == s[1]
               c == s[2]
    <3>3. a \in Int /\ c \in Int
      BY <3>1
    <3> HIDE DEF a, c
    <3>4. CASE a <= c
      <4>1. Min({a, c}) = a /\ Max({a, c}) = c
        BY <3>3, <3>4 DEF Min, Max
      <4> QED
        BY <3>2, <4>1 DEF a, c
    <3>5. CASE c <= a
      <4>1. Min({a, c}) = c /\ Max({a, c}) = a
        BY <3>3, <3>5 DEF Min, Max
      <4>2. {a, c} = {c, a}
        OBVIOUS
      <4> QED
        BY <3>2, <4>1, <4>2 DEF a, c
    <3> QED
      BY <3>3, <3>4, <3>5
  <2>2. Len(x.ops) = 2 /\ Len(y.ops) = 2
    BY <1>4, <1>5 DEF HasKey, KeyedTwo, KeyedOne, Commutative, TestKinds
  <2>3. /\ expr_key(x)[2] = Min(Range(x.ops)) /\ expr_key(x)[3] = Max(Range(x.ops))
        /\ expr_key(y)[2] = Min(Range(y.ops)) /\ expr_key(y)[3] = Max(Range(y.ops))
    BY <1>4, <1>5 DEF expr_key
  <2> QED
    BY <1>1, <1>4, <2>1, <2>2, <2>3
<1>6. CASE x.kind \notin Commutative
  <2> DEFINE s == x.ops
             t == y.ops
  <2>1. <<x.kind>> \o s = <<y.kind>> \o t
    BY <1>4, <1>6 DEF expr_key
  <2>2. DOMAIN s = 1 .. Len(s) /\ DOMAIN t = 1 .. Len(t)
    BY <1>1, LenProperties
  <2> HIDE DEF s, t
  <2>3. s \in Seq(Int) /\ t \in Seq(Int) /\ Len(s) \in Nat /\ Len(t) \in Nat
    BY <1>1 DEF s, t
  <2>4. Len(s) = Len(t)
    BY <1>2, <2>1, <2>3
  <2>5. \A i \in 1 .. Len(s) : s[i] = t[i]
    BY <1>2, <2>1, <2>3, <2>4
  <2>6. Range(s) = Range(t)
    BY <2>2, <2>4, <2>5 DEF Range
  <2> QED
    BY <1>4, <2>6 DEF s, t
<1> QED
  BY <1>5, <1>6

LEMMA SubexprsRefines ==
    ASSUME NEW g, Sane(g)
    PROVE  Refines(g, eliminate_common_subexprs(g).f)
<1> DEFINE stays(insts, i) == insts[i].kind # "Nop" /\ ~repeated(insts, i)
           R == mark_reachable(g)
           blocks == [b \in DOMAIN g.blocks |->
                         IF b \in Live(g) THEN cse_block(b, g.blocks[b]) ELSE g.blocks[b]]
           at == [b \in DOMAIN g.blocks |->
                     {i \in DOMAIN g.blocks[b].insts : stays(g.blocks[b].insts, i)}]
<1>1. eliminate_common_subexprs(g).f = [g EXCEPT !.blocks = blocks]
  BY Zenon DEF eliminate_common_subexprs, Blockwise, Pass
<1>2. ASSUME NEW b \in DOMAIN g.blocks
      PROVE  /\ blocks[b] = IF b \in Live(g)
                            THEN [g.blocks[b] EXCEPT !.insts = Keeping(@, at[b])]
                            ELSE g.blocks[b]
             /\ \A i \in DOMAIN g.blocks[b].insts : i \notin at[b] =>
                    g.blocks[b].insts[i].kind = "Nop" \/ repeated(g.blocks[b].insts, i)
  BY <1>2 DEF cse_block
<1>3. DOMAIN blocks = DOMAIN g.blocks
  OBVIOUS
<1> HIDE DEF blocks, at
<1>4. ASSUME NEW b \in R, NEW i \in DOMAIN g.blocks[b].insts, i \notin at[b]
      PROVE  /\ Silent(g.blocks[b].insts[i], Unread(g.blocks, R))
             /\ ~Stays(g.blocks[b].insts[i])
  <2> DEFINE s == g.blocks[b].insts
  <2>1. b \in DOMAIN g.blocks /\ IsCode(s)
    BY <1>4, ReachedTidy DEF Sane
  <2>2. s[i].kind = "Nop" \/ repeated(s, i)
    BY <1>2, <1>4, <2>1
  <2>3. CASE s[i].kind = "Nop"
    <3>1. \A x, D : x.kind = "Nop" => Silent(x, D) /\ ~Stays(x)
      BY DEF Silent, Stays, Acting
    <3> QED
      BY <2>3, <3>1
  <2>4. CASE repeated(s, i)
    <3>1. PICK j \in 1 .. i - 1 : keyed(s[i]) /\ keyed(s[j]) /\ expr_key(s[j]) = expr_key(s[i])
      BY <2>4 DEF repeated
    <3>2. /\ i \in 1 .. Len(s) /\ Len(s) \in Nat /\ DOMAIN s = 1 .. Len(s)
          /\ \A n \in 1 .. Len(s) : IsInst(s[n])
      BY <1>4, <2>1, CodeFacts
    <3>3. j \in 1 .. Len(s) /\ i # j
      <4> DEFINE n == Len(s)
      <4>1. n \in Nat /\ i \in 1 .. n
        BY <3>2
      <4> HIDE DEF n
      <4>2. j \in 1 .. n /\ i # j
        BY <4>1
      <4> QED
        BY <4>2 DEF n
    <3>4. Twice(s[i], s[j])
      BY <3>1, <3>2, <3>3, SameKey DEF Twice, keyed
    <3>5. \A z \in Insts(g.blocks, R) : s[i].res \notin Reads(z)
      BY <1>4, <3>2, <3>3, <3>4 DEF Sane, Sound
    <3>6. s[i] \in Insts(g.blocks, R)
      BY <1>4 DEF Insts, Range
    <3>7. s[i].res \in Unread(g.blocks, R)
      BY <3>5, <3>6 DEF Unread
    <3> DEFINE x == s[i]
    <3>8. keyed(x) /\ x.res \in Unread(g.blocks, R)
      BY <3>1, <3>7
    <3> HIDE DEF x, R
    <3>9. x.kind \in KeyedTwo \union KeyedOne /\ x.res # NoValue
      BY <3>8 DEF keyed, HasKey
    <3>10. x.kind \notin Acting /\ ~has_side_effects(x)
      BY <3>9 DEF KeyedTwo, KeyedOne, Commutative, TestKinds, Acting, has_side_effects
    <3>11. Silent(x, Unread(g.blocks, R)) /\ ~Stays(x)
      BY <3>8, <3>9, <3>10 DEF Silent, Stays
    <3> QED
      BY <3>11 DEF x, R
  <2> QED
    BY <2>2, <2>3, <2>4
<1>5. Refines(g, [g EXCEPT !.blocks = blocks])
  BY <1>2, <1>3, <1>4, SweptRefines
<1> QED
  BY <1>1, <1>5

-----------------------------------------------------------------------------
(* The passes that find nothing to take away.                              *)

LEMMA TailsRefine ==
    ASSUME NEW g, Sane(g)
    PROVE  Refines(g, analyze_tail_calls(g).f)
<1> DEFINE blocks == [b \in DOMAIN g.blocks |->
                         IF b \in Live(g) THEN mark_tail_call(b, g.blocks[b]) ELSE g.blocks[b]]
           D == Unread(g.blocks, mark_reachable(g))
<1>1. analyze_tail_calls(g).f = [g EXCEPT !.blocks = blocks]
  BY Zenon DEF analyze_tail_calls, Blockwise, Pass
<1>2. ASSUME NEW b \in mark_reachable(g)
      PROVE  /\ b \in DOMAIN g.blocks /\ IsCode(g.blocks[b].insts)
             /\ DOMAIN g.blocks[b] = DOMAIN BasicBlock
             /\ DOMAIN g.blocks[b] = {"insts", "preds", "succs", "reachable"}
  <2>1. b \in DOMAIN g.blocks /\ IsCode(g.blocks[b].insts)
    BY <1>2, ReachedTidy DEF Sane
  <2> QED
    BY <2>1 DEF Sane, Tidy, Good, IsFramed, BasicBlock
<1>3. ASSUME NEW b \in mark_reachable(g)
      PROVE  /\ blocks[b].succs = g.blocks[b].succs
             /\ blocks[b].reachable = g.blocks[b].reachable
  BY <1>2, <1>3 DEF mark_tail_call
<1>4. ASSUME NEW b \in mark_reachable(g)
      PROVE  /\ Thinned(g.blocks[b].insts, blocks[b].insts)
             /\ Slides(g.blocks[b].insts, blocks[b].insts, D)
  <2> DEFINE s == g.blocks[b].insts
             t == blocks[b].insts
  <2>1. /\ Thinned(s, t) /\ Len(t) = Len(s)
        /\ \A i \in 1 .. Len(s) : t[i] = s[i] \/ Marked(s[i], t[i])
    BY <1>2, <1>4, ThinnedSelf, TailBlock
  <2> HIDE DEF s, t
  <2>2. IsCode(s)
    BY <1>2, <1>4 DEF s
  <2>3. Slides(s, t, D)
    BY <2>1, <2>2, SelfSlides DEF Still
  <2> QED
    BY <2>1, <2>3 DEF s, t
<1>5. DOMAIN blocks = DOMAIN g.blocks
  OBVIOUS
<1> HIDE DEF blocks
<1>6. Tidy([g EXCEPT !.blocks = blocks])
  BY <1>1, TailsTidy DEF Sane
<1> QED
  BY <1>1, <1>3, <1>4, <1>5, <1>6, ThinnedRefines

LEMMA PatternsRefine ==
    ASSUME NEW g, Sane(g)
    PROVE  Refines(g, optimize_patterns(g).f)
<1> DEFINE blocks == [b \in DOMAIN g.blocks |->
                         IF b \in Live(g) THEN [g.blocks[b] EXCEPT !.insts = optimize_insts(@)]
                         ELSE g.blocks[b]]
<1>1. optimize_patterns(g).f = [g EXCEPT !.blocks = blocks]
  BY Zenon DEF optimize_patterns, Blockwise, Report, Pass
<1>2. ASSUME NEW b \in mark_reachable(g)
      PROVE  /\ blocks[b].succs = g.blocks[b].succs
             /\ blocks[b].reachable = g.blocks[b].reachable
             /\ blocks[b].insts = g.blocks[b].insts
  <2>1. b \in DOMAIN g.blocks /\ IsCode(g.blocks[b].insts)
    BY <1>2, ReachedTidy DEF Sane
  <2>2. /\ \A i, j \in DOMAIN g.blocks[b].insts :
               i # j => Apart(g.blocks[b].insts[i], g.blocks[b].insts[j])
        /\ \A i \in DOMAIN g.blocks[b].insts :
               g.blocks[b].insts[i].kind = "TupleGet" => g.blocks[b].insts[i].ns[1] >= FastIndex
    BY <1>2 DEF Sane, Tidy, Good, Lasting
  <2>3. optimize_insts(g.blocks[b].insts) = g.blocks[b].insts
    BY <2>1, <2>2, PatternsIdle
  <2>4. DOMAIN g.blocks[b] = {"insts", "preds", "succs", "reachable"}
    BY <2>1 DEF Sane, Tidy, Good, IsFramed, BasicBlock
  <2> QED
    BY <2>1, <2>3, <2>4
<1>3. DOMAIN blocks = DOMAIN g.blocks
  OBVIOUS
<1> HIDE DEF blocks
<1>4. Tidy([g EXCEPT !.blocks = blocks])
  BY <1>1, PatternsTidy DEF Sane
<1> QED
  BY <1>1, <1>2, <1>3, <1>4, SameRefines

LEMMA CutRefines ==
    ASSUME NEW g, Sane(g)
    PROVE  Refines(g, eliminate_fallthrough_branches(g).f)
<1> DEFINE cut(b, block) ==
               IF falls_through(b, block)
               THEN [block EXCEPT !.insts = SubSeq(@, 1, Len(@) - 1),
                                  !.succs = Keeping(@, {i \in DOMAIN @ : @[i] # b + 1})]
               ELSE block
           blocks == [b \in DOMAIN g.blocks |->
                         IF b \in Live(g) THEN cut(b, g.blocks[b]) ELSE g.blocks[b]]
<1>1. eliminate_fallthrough_branches(g).f = [g EXCEPT !.blocks = blocks]
  BY Zenon DEF eliminate_fallthrough_branches, Blockwise, Pass
<1>2. ASSUME NEW b \in mark_reachable(g) PROVE blocks[b] = g.blocks[b]
  BY <1>2, ReachedTidy, NoFall DEF Sane
<1>3. DOMAIN blocks = DOMAIN g.blocks
  OBVIOUS
<1> HIDE DEF blocks
<1>4. Tidy([g EXCEPT !.blocks = blocks])
  BY <1>1, CutTidy DEF Sane
<1> QED
  BY <1>1, <1>2, <1>3, <1>4, SameRefines

-----------------------------------------------------------------------------
(* Merged blocks do what they did.                                         *)

LEMMA FusedFrom ==
    ASSUME NEW g, NEW R, NEW blocks, NEW b, NEW d, NEW new, Fused(g, R, blocks, b, d, new),
           Joining(g, R, blocks, b + 1), NEW x \in R, x # b
    PROVE  d \notin Range(blocks[x].succs)
<1> SUFFICES ASSUME d \in Range(blocks[x].succs) PROVE FALSE
  OBVIOUS
<1>1. R \subseteq DOMAIN g.blocks /\ R \subseteq Nat /\ b \in Nat
  BY DEF Joining, Good, Closed, IsFramed, Fused
<1>2. PICK e \in R : e >= x /\ d \in Range(g.blocks[e].succs)
  BY DEF Joining
<1>3. e = b
  BY <1>1, <1>2 DEF Fused
<1>4. x < b + 1
  BY <1>1, <1>2, <1>3
<1>5. blocks[x] = g.blocks[x]
  BY <1>4 DEF Joining
<1> QED
  BY <1>1, <1>5 DEF Fused

\* The facts about it that the proofs need.
Seam(R, blocks, b, d, new) ==
    LET s == blocks[b].insts
        t == blocks[d].insts
        body == new[b].insts
    IN  /\ b \in R /\ d \in R /\ b # d /\ d # 0 /\ 0 \in R /\ R \subseteq DOMAIN blocks
        /\ DOMAIN new = DOMAIN blocks /\ DOMAIN blocks # {0}
        /\ \A x \in R : x = b \/ x = d \/ (x # b /\ x # d /\ new[x] = blocks[x])
        /\ \A x \in R : IsCode(blocks[x].insts) /\ IsCode(new[x].insts)
        /\ Len(s) \in Nat /\ Len(s) # 0 /\ Len(t) \in Nat
        /\ DOMAIN s = 1 .. Len(s) /\ DOMAIN t = 1 .. Len(t)
        /\ DOMAIN body = 1 .. Len(body) /\ Len(body) = Len(s) - 1 + Len(t)
        /\ \A i \in 1 .. Len(s) - 1 : body[i] = s[i]
        /\ \A i \in 1 .. Len(t) : body[Len(s) - 1 + i] = t[i]
        /\ \A i \in 1 .. Len(s) - 1 : s[i].to = <<>>
        /\ s[Len(s)].kind \in JumpKinds /\ Range(s[Len(s)].to) = {d}
        /\ new[d].insts = <<>>

LEMMA FusedFacts ==
    ASSUME NEW g, NEW R, NEW blocks, NEW b, NEW d, NEW new, Fused(g, R, blocks, b, d, new),
           Joining(g, R, blocks, b + 1)
    PROVE  Seam(R, blocks, b, d, new)
<1> DEFINE s == blocks[b].insts
           t == blocks[d].insts
           body == new[b].insts
<1>1. /\ b \in R /\ d \in R /\ b \in Nat /\ d \in Nat /\ d > b
      /\ Targets(blocks[b]) = {d}
      /\ IsCode(s) /\ s # <<>> /\ IsCode(t) /\ IsCode(body)
      /\ \A i \in DOMAIN s : i # Len(s) => s[i].to = <<>>
      /\ Len(body) = Len(s) - 1 + Len(t)
      /\ \A i \in 1 .. Len(s) - 1 : body[i] = s[i]
      /\ \A i \in 1 .. Len(t) : body[Len(s) - 1 + i] = t[i]
      /\ DOMAIN new = DOMAIN blocks /\ new[d].insts = <<>>
      /\ \A x \in DOMAIN blocks \ {b, d} : new[x] = blocks[x]
  BY DEF Fused
<1>2. 0 \in R /\ R \subseteq DOMAIN blocks /\ \A x \in R : IsCode(blocks[x].insts)
  BY DEF Joining, Good, Closed, TidyBlock
<1>3. b # d /\ d # 0 /\ DOMAIN blocks # {0}
  <2>1. b # d /\ d # 0
    BY <1>1
  <2> QED
    BY <1>1, <1>2, <2>1
<1>4. \A x \in R : x = b \/ x = d \/ (x # b /\ x # d /\ new[x] = blocks[x])
  BY <1>1, <1>2
<1>5. \A x \in R : IsCode(new[x].insts)
  BY <1>1, <1>2, <1>4, EmptyCode
<1>6. Range(s[Len(s)].to) = {d}
  BY <1>1 DEF Targets, is_terminated, Last
<1> HIDE DEF s, t, body
<1>7. /\ Len(s) \in Nat /\ Len(s) # 0 /\ DOMAIN s = 1 .. Len(s)
      /\ Len(t) \in Nat /\ DOMAIN t = 1 .. Len(t) /\ DOMAIN body = 1 .. Len(body)
      /\ \A i \in 1 .. Len(s) : IsInst(s[i])
  BY <1>1, CodeFacts
<1>8. ASSUME NEW i \in 1 .. Len(s) - 1 PROVE s[i].to = <<>>
  <2> DEFINE n == Len(s)
  <2>1. n \in Nat
    BY <1>7
  <2> HIDE DEF n
  <2>2. \A k \in 1 .. n - 1 : k \in 1 .. n /\ k # n
    BY <2>1
  <2>3. i \in 1 .. n /\ i # n
    BY <1>8, <2>2 DEF n
  <2> QED
    BY <1>1, <1>7, <2>3 DEF n
<1>9. s[Len(s)].kind \in JumpKinds
  <2>1. s[Len(s)].to # <<>>
    BY <1>6, RangeEmpty
  <2>2. Len(s) \in 1 .. Len(s)
    BY <1>7
  <2> QED
    BY <1>7, <2>1, <2>2 DEF IsInst
<1> QED
  BY <1>1, <1>2, <1>3, <1>4, <1>5, <1>6, <1>7, <1>8, <1>9 DEF Seam, s, t, body

(* The merged code follows the old: the jump is a step less.                *)
LEMMA FusedFollows ==
    ASSUME NEW g, NEW R, NEW blocks, NEW b, NEW d, NEW new, Fused(g, R, blocks, b, d, new),
           Joining(g, R, blocks, b + 1), Sound(blocks, R)
    PROVE  \E at : Follows(blocks, new, R, {}, at)
<1> DEFINE s == blocks[b].insts
           t == blocks[d].insts
           body == new[b].insts
           m == Len(s) - 1
           where(x, i) == IF x = d THEN <<b, m + i>>
                          ELSE IF x = b /\ i = Len(s) + 1 THEN <<b, Len(body) + 1>> ELSE <<x, i>>
           at == [x \in R |-> [i \in Nat |-> where(x, i)]]
<1>0. Seam(R, blocks, b, d, new)
  BY FusedFacts
<1>1. /\ b \in R /\ d \in R /\ b # d /\ d # 0 /\ 0 \in R /\ R \subseteq DOMAIN blocks
      /\ DOMAIN new = DOMAIN blocks /\ DOMAIN blocks # {0}
      /\ \A x \in R : x = b \/ x = d \/ (x # b /\ x # d /\ new[x] = blocks[x])
      /\ \A x \in R : IsCode(blocks[x].insts) /\ IsCode(new[x].insts)
  BY <1>0 DEF Seam
<1>2. /\ Len(s) \in Nat /\ Len(s) # 0 /\ Len(t) \in Nat
      /\ DOMAIN s = 1 .. Len(s) /\ DOMAIN t = 1 .. Len(t)
      /\ DOMAIN body = 1 .. Len(body) /\ Len(body) = Len(s) - 1 + Len(t)
  BY <1>0 DEF Seam
<1>3. /\ \A i \in 1 .. Len(s) - 1 : body[i] = s[i]
      /\ \A i \in 1 .. Len(t) : body[Len(s) - 1 + i] = t[i]
      /\ \A i \in 1 .. Len(s) - 1 : s[i].to = <<>>
      /\ s[Len(s)].kind \in JumpKinds /\ Range(s[Len(s)].to) = {d}
  BY <1>0 DEF Seam
<1> HIDE DEF s, t, body
<1>4. m \in Nat /\ Len(s) = m + 1 /\ Len(body) = m + Len(t)
  BY <1>2
<1> HIDE DEF m
<1>5. \A x \in R : \A i \in Nat : at[x][i] = where(x, i)
  OBVIOUS
<1> HIDE DEF at
<1>6. ASSUME NEW x \in R, x # d PROVE at[x][1] = <<x, 1>>
  <2>1. 1 # Len(s) + 1
    BY <1>4
  <2> QED
    BY <1>5, <1>6, <2>1
<1>7. Good(blocks, R) /\ Closed(blocks, R)
  BY DEF Joining, Good
<1>8. ASSUME NEW x \in R, x # b, NEW i \in 1 .. Len(blocks[x].insts),
             NEW l \in Range(blocks[x].insts[i].to)
      PROVE  Entry(blocks, l) \in R /\ at[Entry(blocks, l)][1] = <<Entry(blocks, l), 1>>
  <2>1. Entry(blocks, l) \in R /\ l \in Range(blocks[x].succs)
    BY <1>1, <1>7, <1>8, LabelsReached
  <2>2. l # d
    BY <1>8, <2>1, FusedFrom
  <2>3. l \in DOMAIN blocks
    BY <1>1, <1>7, <2>1 DEF Closed
  <2>4. Entry(blocks, l) # d
    BY <2>2, <2>3 DEF Entry
  <2> QED
    BY <1>6, <2>1, <2>4
<1>9. ASSUME NEW i \in 1 .. m PROVE Standing(blocks, new, R, {}, at, b, i)
  <2>1. i \in Nat /\ i + 1 \in Nat /\ i # Len(s) + 1 /\ i + 1 # Len(s) + 1 /\ i \in 1 .. Len(s) - 1
        /\ i \in 1 .. Len(body)
    <3> DEFINE n == Len(s)
               k == Len(body)
               j == Len(t)
    <3>1. m \in Nat /\ n = m + 1 /\ k = m + j /\ j \in Nat
      BY <1>2, <1>4
    <3> HIDE DEF n, k, j
    <3>2. i \in Nat /\ i + 1 \in Nat /\ i # n + 1 /\ i + 1 # n + 1
      BY <3>1
    <3>3. i \in 1 .. n - 1 /\ i \in 1 .. k
      BY <3>1
    <3> QED
      BY <3>2, <3>3 DEF n, k
  <2>2. at[b][i] = <<b, i>> /\ at[b][i + 1] = <<b, i + 1>>
    BY <1>1, <1>5, <2>1
  <2>3. body[i] = s[i] /\ Range(s[i].to) = {}
    BY <1>3, <2>1, RangeEmpty
  <2> QED
    BY <1>1, <2>1, <2>2, <2>3 DEF Standing, s, body
<1>10. Short(blocks, R, at, b, m + 1)
  <2>1. at[d][1] = <<b, m + 1>>
    BY <1>1, <1>5
  <2>2. at[b][m + 1] = <<b, m + 1>>
    <3>1. m + 1 \in Nat /\ m + 1 # (m + 1) + 1
      BY <1>4
    <3>2. m + 1 # Len(s) + 1
      BY <1>4, <3>1
    <3> QED
      BY <1>1, <1>5, <3>1, <3>2
  <2>3. blocks[b].insts[m + 1].kind \in JumpKinds /\ Range(blocks[b].insts[m + 1].to) = {d}
    BY <1>3, <1>4 DEF s
  <2>4. at[d][1] = at[b][m + 1]
    BY <2>1, <2>2
  <2> QED
    BY <1>1, <2>3, <2>4 DEF Short
<1>11. ASSUME NEW i \in 1 .. Len(t) PROVE Standing(blocks, new, R, {}, at, d, i)
  <2>1. i \in Nat /\ i + 1 \in Nat /\ m + i \in 1 .. Len(body) /\ m + (i + 1) = (m + i) + 1
    BY <1>2, <1>4
  <2>2. at[d][i] = <<b, m + i>> /\ at[d][i + 1] = <<b, (m + i) + 1>>
    BY <1>1, <1>5, <2>1
  <2>3. body[m + i] = t[i]
    BY <1>3 DEF m
  <2>4. \A l \in Range(t[i].to) :
            Entry(blocks, l) \in R /\ at[Entry(blocks, l)][1] = <<Entry(blocks, l), 1>>
    BY <1>1, <1>8 DEF t
  <2> QED
    BY <1>1, <2>1, <2>2, <2>3, <2>4 DEF Standing, t, body
<1>12. ASSUME NEW x \in R, x # b, x # d, NEW i \in 1 .. Len(blocks[x].insts)
       PROVE  Standing(blocks, new, R, {}, at, x, i)
  <2>1. Len(blocks[x].insts) \in Nat
    BY <1>1, CodeFacts
  <2>2. i \in Nat /\ i + 1 \in Nat
    BY <2>1
  <2>3. at[x][i] = <<x, i>> /\ at[x][i + 1] = <<x, i + 1>>
    BY <1>5, <1>12, <2>2
  <2>4. new[x] = blocks[x]
    BY <1>1, <1>12
  <2>5. \A l \in Range(blocks[x].insts[i].to) :
            Entry(blocks, l) \in R /\ at[Entry(blocks, l)][1] = <<Entry(blocks, l), 1>>
    BY <1>8, <1>12
  <2> QED
    BY <2>3, <2>4, <2>5 DEF Standing
<1>13. ASSUME NEW x \in R, NEW i \in 1 .. Len(blocks[x].insts)
       PROVE  Standing(blocks, new, R, {}, at, x, i) \/ Short(blocks, R, at, x, i)
  <2>1. CASE x = b
    <3>1. i \in 1 .. m + 1
      BY <1>4, <2>1 DEF s
    <3>2. i \in 1 .. m \/ i = m + 1
      BY <1>4, <3>1
    <3> QED
      BY <1>9, <1>10, <2>1, <3>2
  <2>2. CASE x = d
    BY <1>11, <2>2 DEF t
  <2> QED
    BY <1>12, <2>1, <2>2
<1>14. ASSUME NEW x \in R
       PROVE  LET e == at[x][Len(blocks[x].insts) + 1]
              IN  e[1] \in R /\ e[2] = Len(new[e[1]].insts) + 1
  <2>1. CASE x = b
    <3>1. Len(s) + 1 \in Nat
      BY <1>4
    <3>2. at[b][Len(s) + 1] = <<b, Len(body) + 1>>
      BY <1>1, <1>5, <3>1
    <3>3. at[x][Len(blocks[x].insts) + 1] = <<b, Len(body) + 1>>
      BY <2>1, <3>2 DEF s
    <3> QED
      BY <1>1, <3>3 DEF body
  <2>2. CASE x = d
    <3>1. Len(t) + 1 \in Nat
      BY <1>2
    <3>2. at[d][Len(t) + 1] = <<b, m + (Len(t) + 1)>>
      BY <1>1, <1>5, <3>1
    <3>3. m + (Len(t) + 1) = Len(body) + 1
      BY <1>2, <1>4
    <3>4. at[x][Len(blocks[x].insts) + 1] = <<b, Len(body) + 1>>
      BY <2>2, <3>2, <3>3 DEF t
    <3> QED
      BY <1>1, <3>4 DEF body
  <2>3. CASE x # b /\ x # d
    <3>1. Len(blocks[x].insts) + 1 \in Nat
      BY <1>1, CodeFacts
    <3>2. at[x][Len(blocks[x].insts) + 1] = <<x, Len(blocks[x].insts) + 1>>
      BY <1>5, <2>3, <3>1
    <3> QED
      BY <1>1, <2>3, <3>2
  <2> QED
    BY <2>1, <2>2, <2>3
<1>15. at[0][1] = <<0, 1>>
  BY <1>1, <1>6
<1>16. Follows(blocks, new, R, {}, at)
  BY <1>1, <1>13, <1>14, <1>15, Zenon DEF Follows
<1> QED
  BY <1>16

LEMMA FusedSound ==
    ASSUME NEW g, NEW R, NEW blocks, NEW b, NEW d, NEW new, Fused(g, R, blocks, b, d, new),
           Joining(g, R, blocks, b + 1), Sound(blocks, R)
    PROVE  Sound(new, R)
<1> DEFINE s == blocks[b].insts
           t == blocks[d].insts
           body == new[b].insts
           m == Len(s) - 1
           place(x, i) == IF x = b /\ i > m THEN <<d, i - m>> ELSE <<x, i>>
           from == [x \in R |-> [i \in Nat |-> place(x, i)]]
<1>0. Seam(R, blocks, b, d, new)
  BY FusedFacts
<1>1. /\ b \in R /\ d \in R /\ b # d /\ R \subseteq DOMAIN blocks
      /\ DOMAIN new = DOMAIN blocks /\ DOMAIN blocks # {0}
      /\ \A x \in R : x = b \/ x = d \/ (x # b /\ x # d /\ new[x] = blocks[x])
      /\ \A x \in R : IsCode(blocks[x].insts) /\ IsCode(new[x].insts)
      /\ new[d].insts = <<>>
  BY <1>0 DEF Seam
<1>2. /\ Len(s) \in Nat /\ Len(s) # 0 /\ Len(t) \in Nat
      /\ DOMAIN s = 1 .. Len(s) /\ DOMAIN t = 1 .. Len(t)
      /\ DOMAIN body = 1 .. Len(body) /\ Len(body) = Len(s) - 1 + Len(t)
      /\ \A i \in 1 .. Len(s) - 1 : body[i] = s[i]
      /\ \A i \in 1 .. Len(t) : body[Len(s) - 1 + i] = t[i]
      /\ \A i \in 1 .. Len(s) - 1 : s[i].to = <<>>
      /\ s[Len(s)].kind \in JumpKinds /\ Range(s[Len(s)].to) = {d}
  BY <1>0 DEF Seam
<1> HIDE DEF s, t, body
<1>4. /\ m \in Nat /\ Len(s) = m + 1 /\ Len(body) = m + Len(t) /\ Len(t) \in Nat
      /\ \A i \in 1 .. m : body[i] = s[i] /\ s[i].to = <<>>
      /\ \A i \in 1 .. Len(t) : body[m + i] = t[i]
  BY <1>2
<1> HIDE DEF m
<1>5. \A x \in R : \A i \in Nat : from[x][i] = place(x, i)
  OBVIOUS
<1> HIDE DEF from
<1>6. ASSUME NEW i \in DOMAIN body
      PROVE  \/ i \in 1 .. m /\ from[b][i] = <<b, i>> /\ i \in DOMAIN s /\ body[i] = s[i]
             \/ /\ i > m /\ i - m \in 1 .. Len(t) /\ from[b][i] = <<d, i - m>>
                /\ i - m \in DOMAIN t /\ body[i] = t[i - m]
  <2> DEFINE k == Len(body)
             j == Len(t)
             n == Len(s)
  <2>1. m \in Nat /\ j \in Nat /\ k = m + j /\ n = m + 1 /\ i \in 1 .. k
    BY <1>2, <1>4
  <2> HIDE DEF k, j, n
  <2>2. i \in Nat /\ (i \in 1 .. m \/ i > m)
    BY <2>1
  <2>3. CASE i \in 1 .. m
    <3>1. ~(i > m) /\ i \in 1 .. n
      BY <2>1, <2>3
    <3> QED
      BY <1>1, <1>2, <1>4, <1>5, <2>2, <2>3, <3>1 DEF n
  <2>4. CASE i > m
    <3>1. i - m \in 1 .. j /\ m + (i - m) = i
      BY <2>1, <2>4
    <3>2. body[m + (i - m)] = t[i - m]
      BY <1>4, <3>1 DEF j
    <3>3. from[b][i] = <<d, i - m>>
      BY <1>1, <1>5, <2>2, <2>4
    <3> QED
      BY <1>2, <2>4, <3>1, <3>2, <3>3 DEF j
  <2> QED
    BY <2>2, <2>3, <2>4
<1>7. ASSUME NEW x \in R, x # b, NEW i \in DOMAIN new[x].insts
      PROVE  x # d /\ from[x][i] = <<x, i>> /\ new[x] = blocks[x]
  <2>1. x # d
    BY <1>1, <1>7
  <2>2. i \in Nat
    <3>1. DOMAIN new[x].insts = 1 .. Len(new[x].insts) /\ Len(new[x].insts) \in Nat
      BY <1>1, CodeFacts
    <3> QED
      BY <3>1
  <2> QED
    BY <1>1, <1>5, <1>7, <2>1, <2>2
<1>8. ~Stays(s[Len(s)])
  <2>1. Range(s[Len(s)].to) = {d} /\ s[Len(s)].kind \in JumpKinds
    BY <1>2
  <2> QED
    BY <2>1 DEF Stays
<1>9. \A i \in DOMAIN s : Stays(s[i]) => i \in 1 .. m
  BY <1>2, <1>4, <1>8
<1>10. /\ \A y \in Range(s) : Stays(y) => y \in Range(body)
       /\ Range(t) \subseteq Range(body)
  <2>1. ASSUME NEW i \in DOMAIN s, Stays(s[i]) PROVE s[i] \in Range(body)
    <3>1. i \in DOMAIN body /\ body[i] = s[i]
      BY <1>2, <1>4, <1>9, <2>1
    <3> QED
      BY <3>1 DEF Range
  <2>2. ASSUME NEW i \in DOMAIN t PROVE t[i] \in Range(body)
    <3>1. m + i \in DOMAIN body /\ body[m + i] = t[i]
      BY <1>2, <1>4, <2>2
    <3> QED
      BY <3>1 DEF Range
  <2> QED
    BY <2>1, <2>2 DEF Range
<1>11. ASSUME NEW x \in R, NEW i \in DOMAIN new[x].insts
       PROVE  LET p == from[x][i]
              IN  /\ p[1] \in R /\ p[2] \in DOMAIN blocks[p[1]].insts
                  /\ Still(blocks[p[1]].insts[p[2]], new[x].insts[i])
                  /\ \A y \in Range(blocks[p[1]].insts) :
                         Stays(y) => \E z \in Range(new[x].insts) : Still(y, z)
  <2>1. CASE x # b
    BY <1>7, <2>1 DEF Still
  <2>2. CASE x = b
    <3>1. CASE i \in 1 .. m /\ from[b][i] = <<b, i>> /\ i \in DOMAIN s /\ body[i] = s[i]
      BY <1>1, <1>10, <2>2, <3>1 DEF Still, s, body
    <3>2. CASE from[b][i] = <<d, i - m>> /\ i - m \in DOMAIN t /\ body[i] = t[i - m]
      BY <1>1, <1>10, <2>2, <3>2 DEF Still, t, body
    <3> QED
      BY <1>6, <2>2, <3>1, <3>2 DEF body
  <2> QED
    BY <2>1, <2>2
<1>12. ASSUME NEW x \in R, NEW y \in R,
              NEW i \in DOMAIN new[x].insts, NEW j \in DOMAIN new[y].insts,
              from[x][i][1] = from[y][j][1], from[x][i][2] = from[y][j][2]
       PROVE  x = y /\ i = j
  <2>1. CASE x # b /\ y # b
    BY <1>7, <1>12, <2>1
  <2>2. CASE x = b /\ y # b
    BY <1>1, <1>6, <1>7, <1>12, <2>2 DEF body
  <2>3. CASE x # b /\ y = b
    BY <1>1, <1>6, <1>7, <1>12, <2>3 DEF body
  <2>4. CASE x = b /\ y = b
    <3>1. i \in Int /\ j \in Int
      <4>1. DOMAIN body = 1 .. Len(body)
        BY <1>2
      <4>2. i \in DOMAIN body /\ j \in DOMAIN body
        BY <2>4 DEF body
      <4> QED
        BY <4>1, <4>2
    <3>2. from[b][i] = <<b, i>> \/ from[b][i] = <<d, i - m>>
      BY <1>6, <2>4 DEF body
    <3>3. from[b][j] = <<b, j>> \/ from[b][j] = <<d, j - m>>
      BY <1>6, <2>4 DEF body
    <3>4. i = j \/ i - m = j - m
      BY <1>1, <1>12, <2>4, <3>2, <3>3
    <3> QED
      BY <1>4, <2>4, <3>1, <3>4
  <2> QED
    BY <2>1, <2>2, <2>3, <2>4
<1>13. Drawn(blocks, new, R, from)
  <2>1. \A x, y \in R : \A i \in DOMAIN new[x].insts, j \in DOMAIN new[y].insts :
            x # y \/ i # j => from[x][i][1] # from[y][j][1] \/ from[x][i][2] # from[y][j][2]
    BY <1>12
  <2> QED
    BY <1>11, <2>1, Zenon DEF Drawn
<1>14. \A x \in R : JumpsAtEnd(blocks[x].insts)
  BY <1>1 DEF Sound
<1>15. ASSUME NEW i \in DOMAIN body, i # Len(body) PROVE body[i].to = <<>>
  <2>1. CASE i \in 1 .. m
    BY <1>4, <2>1
  <2>2. CASE i > m /\ i - m \in DOMAIN t /\ body[i] = t[i - m]
    <3>1. i \in Int
      BY <1>2
    <3>2. i - m # Len(t)
      BY <1>4, <1>15, <3>1
    <3> QED
      BY <1>1, <1>14, <2>2, <3>2 DEF JumpsAtEnd, t
  <2> QED
    BY <1>6, <2>1, <2>2
<1>16. ASSUME NEW x \in R PROVE JumpsAtEnd(new[x].insts)
  <2>1. CASE x = b
    BY <1>15, <2>1 DEF JumpsAtEnd, body
  <2>2. CASE x = d
    <3>1. DOMAIN <<>> = {}
      OBVIOUS
    <3> QED
      BY <1>1, <2>2, <3>1 DEF JumpsAtEnd
  <2>3. CASE x # b /\ x # d
    BY <1>1, <1>14, <2>3
  <2> QED
    BY <2>1, <2>2, <2>3
<1> QED
  BY <1>1, <1>13, <1>16, SoundAgain

LEMMA FusedLive ==
    ASSUME NEW g, NEW R, NEW blocks, NEW b, NEW d, NEW new, Fused(g, R, blocks, b, d, new),
           Joining(g, R, blocks, b + 1),
           Closed(blocks, {x \in R : blocks[x].reachable})
    PROVE  Closed(new, {x \in R : new[x].reachable})
<1> DEFINE L == {x \in R : blocks[x].reachable}
           M == {x \in R : new[x].reachable}
<1>1. /\ b \in R /\ d \in R /\ b # d /\ d # 0 /\ 0 \in R /\ R \subseteq DOMAIN blocks
      /\ DOMAIN new = DOMAIN blocks
      /\ \A x \in R : x = b \/ x = d \/ (x # b /\ x # d /\ new[x] = blocks[x])
  <2>1. Seam(R, blocks, b, d, new)
    BY FusedFacts
  <2> QED
    BY <2>1 DEF Seam
<1>2. /\ new[b].reachable = blocks[b].reachable /\ blocks[b].reachable /\ ~new[d].reachable
      /\ new[b].succs = blocks[d].succs /\ Range(blocks[b].succs) = {d}
  BY <1>1 DEF Fused, Joining, Good, TidyBlock
<1>3. M = L \ {d}
  BY <1>1, <1>2
<1>4. b \in L /\ d \in L /\ 0 \in L
  BY <1>1, <1>2 DEF Closed
<1>5. ASSUME NEW x \in M PROVE Range(new[x].succs) \subseteq L \ {d}
  <2>1. CASE x = b
    <3>1. d \notin Range(blocks[d].succs)
      BY <1>1, FusedFrom
    <3> QED
      BY <1>2, <1>4, <2>1, <3>1 DEF Closed
  <2>2. CASE x # b
    <3>1. x \in R /\ x \in L /\ x # d /\ new[x] = blocks[x]
      BY <1>1, <1>3, <2>2
    <3>2. d \notin Range(blocks[x].succs)
      BY <2>2, <3>1, FusedFrom
    <3> QED
      BY <3>1, <3>2 DEF Closed
  <2> QED
    BY <2>1, <2>2
<1> HIDE DEF L, M
<1>6. Closed(new, M)
  <2>1. L \subseteq DOMAIN blocks
    BY <1>1 DEF L
  <2> QED
    BY <1>1, <1>3, <1>4, <1>5, <2>1 DEF Closed
<1> QED
  BY <1>6 DEF M

LEMMA BlocksHonour ==
    ASSUME NEW g, HasBlocks(g), NEW old, NEW new, NEW R, NEW D, NEW at,
           Follows(old, new, R, D, at), NEW args
    PROVE  Honours(Outcome([g EXCEPT !.blocks = new], args), Outcome([g EXCEPT !.blocks = old], args))
<1> DEFINE h == [g EXCEPT !.blocks = old]
           k == [g EXCEPT !.blocks = new]
<1>1. h.blocks = old /\ h.arity = g.arity /\ k.blocks = new /\ k.arity = g.arity
  BY DEF HasBlocks
<1> HIDE DEF h, k
<1>2. Honours(Outcome(k, args), Outcome(h, args))
  BY <1>1, FollowsHonours
<1> QED
  BY <1>2 DEF h, k

LEMMA HonoursChain ==
    ASSUME NEW due, NEW mid, Honours(mid, due), NEW got, Honours(got, mid)
    PROVE  Honours(got, due)
  BY DEF Honours

\* The blocks when those from b on have been looked at do what they did.
Fusing(g, R, blocks, b) ==
    /\ Joining(g, R, blocks, b) /\ Sound(blocks, R)
    /\ Closed(blocks, {x \in R : blocks[x].reachable})
    /\ \A args : Honours(Outcome([g EXCEPT !.blocks = blocks], args), Outcome(g, args))

LEMMA FusedInside ==
    ASSUME NEW g, Tidy(g), NEW b \in Mergeable(g), b \in mark_reachable(g),
           NEW blocks, Fusing(g, mark_reachable(g), blocks, b + 1),
           fits(blocks, b, g.blocks[b].succs[1])
    PROVE  Fusing(g, mark_reachable(g), merge(blocks, b, g.blocks[b].succs[1]), b)
<1> DEFINE R == mark_reachable(g)
           d == g.blocks[b].succs[1]
           new == merge(blocks, b, d)
<1>1. Joining(g, R, blocks, b + 1) /\ Sound(blocks, R)
      /\ Closed(blocks, {x \in R : blocks[x].reachable})
      /\ \A args : Honours(Outcome([g EXCEPT !.blocks = blocks], args), Outcome(g, args))
  BY Zenon DEF Fusing
<1>2. Joining(g, R, new, b)
  BY <1>1, MergeInside
<1>3. Fused(g, R, blocks, b, d, new)
  BY <1>1, MergeMakes
<1> HIDE DEF R, d, new
<1>4. Sound(new, R)
  BY <1>1, <1>3, FusedSound
<1>5. Closed(new, {x \in R : new[x].reachable})
  BY <1>1, <1>3, FusedLive
<1>6. PICK at : Follows(blocks, new, R, {}, at)
  BY <1>1, <1>3, FusedFollows
<1>7. HasBlocks(g)
  BY DEF Tidy
<1>8. ASSUME NEW args PROVE Honours(Outcome([g EXCEPT !.blocks = new], args), Outcome(g, args))
  <2>1. Honours(Outcome([g EXCEPT !.blocks = new], args), Outcome([g EXCEPT !.blocks = blocks], args))
    BY <1>6, <1>7, BlocksHonour
  <2>2. Honours(Outcome([g EXCEPT !.blocks = blocks], args), Outcome(g, args))
    BY <1>1
  <2> QED
    BY <2>1, <2>2, HonoursChain
<1>9. Fusing(g, R, new, b)
  BY <1>2, <1>4, <1>5, <1>8, Zenon DEF Fusing
<1> QED
  BY <1>9 DEF R, d, new

LEMMA FusedOutside ==
    ASSUME NEW g, Tidy(g), NEW b \in Mergeable(g), b \notin mark_reachable(g),
           NEW blocks, Fusing(g, mark_reachable(g), blocks, b + 1),
           fits(blocks, b, g.blocks[b].succs[1])
    PROVE  Fusing(g, mark_reachable(g), merge(blocks, b, g.blocks[b].succs[1]), b)
<1> DEFINE R == mark_reachable(g)
           new == merge(blocks, b, g.blocks[b].succs[1])
<1>1. Joining(g, R, blocks, b + 1) /\ Sound(blocks, R)
      /\ Closed(blocks, {x \in R : blocks[x].reachable})
      /\ \A args : Honours(Outcome([g EXCEPT !.blocks = blocks], args), Outcome(g, args))
  BY Zenon DEF Fusing
<1>2. Joining(g, R, new, b)
  BY <1>1, MergeOutside
<1>3. DOMAIN new = DOMAIN g.blocks /\ \A x \in R : new[x] = blocks[x]
  BY <1>1, MergeMisses
<1> HIDE DEF R, new
<1>4. Good(blocks, R) /\ DOMAIN new = DOMAIN blocks
  BY <1>1, <1>3 DEF Joining
<1>5. ASSUME NEW x \in R, NEW D
      PROVE  /\ IsCode(new[x].insts)
             /\ Thinned(blocks[x].insts, new[x].insts)
             /\ Slides(blocks[x].insts, new[x].insts, D)
  <2>1. IsCode(blocks[x].insts)
    BY <1>4 DEF Good, TidyBlock
  <2> QED
    BY <1>3, <2>1, ThinnedSelf, SelfSlides DEF Still
<1>6. Sound(new, R)
  BY <1>1, <1>4, <1>5, SlidesSound
<1>7. PICK at : Follows(blocks, new, R, Unread(blocks, R), at)
  BY <1>1, <1>4, <1>5, SlidesFollow
<1>8. Closed(new, {x \in R : new[x].reachable})
  <2>1. {x \in R : new[x].reachable} = {x \in R : blocks[x].reachable}
    BY <1>3
  <2> QED
    BY <1>1, <1>3, <1>4, <2>1 DEF Closed
<1>9. HasBlocks(g)
  BY DEF Tidy
<1>10. ASSUME NEW args PROVE Honours(Outcome([g EXCEPT !.blocks = new], args), Outcome(g, args))
  <2>1. Honours(Outcome([g EXCEPT !.blocks = new], args), Outcome([g EXCEPT !.blocks = blocks], args))
    BY <1>7, <1>9, BlocksHonour
  <2>2. Honours(Outcome([g EXCEPT !.blocks = blocks], args), Outcome(g, args))
    BY <1>1
  <2> QED
    BY <2>1, <2>2, HonoursChain
<1>11. Fusing(g, R, new, b)
  BY <1>2, <1>6, <1>8, <1>10, Zenon DEF Fusing
<1> QED
  BY <1>11 DEF R, new

LEMMA MergeRefines ==
    ASSUME NEW g, Sane(g)
    PROVE  Refines(g, merge_blocks(g).f)
<1> DEFINE n == Cardinality(DOMAIN g.blocks)
           R == mark_reachable(g)
<1>1. HasBlocks(g) /\ Tidy(g) /\ R \subseteq Live(g) /\ Sound(g.blocks, R)
  BY DEF Sane, Tidy
<1>2. PICK p : /\ Merging(g, n, p)
               /\ merge_blocks(g) =
                      Pass([g EXCEPT !.blocks = p[n]],
                           \E k \in 1 .. n : /\ n - k \in Mergeable(g)
                                            /\ fits(p[k - 1], n - k, g.blocks[n - k].succs[1]))
  BY <1>1, Merged, Zenon
<1>3. n \in Nat
  BY <1>1, Merged, Zenon
<1>4. merge_blocks(g).f = [g EXCEPT !.blocks = p[n]]
  <2> DEFINE changed == \E k \in 1 .. n :
                            /\ n - k \in Mergeable(g)
                            /\ fits(p[k - 1], n - k, g.blocks[n - k].succs[1])
             h == [g EXCEPT !.blocks = p[n]]
  <2>1. merge_blocks(g) = Pass(h, changed)
    BY <1>2, Zenon
  <2>2. Pass(h, changed).f = h
    BY Zenon DEF Pass
  <2> HIDE DEF changed
  <2> QED
    BY <2>1, <2>2
<1>5. R \subseteq Nat
  <2>1. IsFramed(g.blocks) /\ R \subseteq DOMAIN g.blocks
    BY <1>1 DEF Tidy, Good, Closed
  <2>2. PICK m \in Nat : DOMAIN g.blocks = 0 .. m
    BY <2>1 DEF IsFramed
  <2> QED
    BY <2>1, <2>2
<1>6. \A b : Fusing(g, R, g.blocks, b)
  <2>1. \A b : Joining(g, R, g.blocks, b)
    BY <1>1, JoiningStart
  <2>2. Closed(g.blocks, {x \in R : g.blocks[x].reachable})
    <3>1. {x \in R : g.blocks[x].reachable} = R
      BY <1>1 DEF Live
    <3> QED
      BY <1>1, <3>1 DEF Tidy, Good
  <2> DEFINE h == [g EXCEPT !.blocks = g.blocks]
  <2>3. h.blocks = g.blocks /\ h.arity = g.arity
    BY <1>1 DEF HasBlocks
  <2> HIDE DEF R, h
  <2>4. \E at : Follows(g.blocks, h.blocks, R, Unread(g.blocks, R), at)
    <3>1. Good(g.blocks, R)
      BY <1>1 DEF Tidy, R
    <3>2. \A x \in R : /\ IsCode(g.blocks[x].insts)
                       /\ Slides(g.blocks[x].insts, g.blocks[x].insts, Unread(g.blocks, R))
      BY <3>1, SelfSlides DEF Still, Good, TidyBlock
    <3> QED
      BY <1>1, <2>3, <3>1, <3>2, SlidesFollow
  <2>5. \A args : Honours(Outcome(h, args), Outcome(g, args))
    BY <2>3, <2>4, FollowsHonours
  <2> QED
    BY <1>1, <2>1, <2>2, <2>5, Zenon DEF Fusing, h
<1> HIDE DEF R
<1> DEFINE S == {k \in 0 .. n : Fusing(g, R, p[k], n - k)}
<1>7. 0 \in S
  <2>1. p[0] = g.blocks
    BY <1>2 DEF Merging
  <2> QED
    BY <1>3, <1>6, <2>1
<1>8. ASSUME NEW k \in 1 .. n, k - 1 \in S PROVE k \in S
  <2> DEFINE b == n - k
             cur == p[k - 1]
             d == g.blocks[b].succs[1]
  <2>1. b \in Nat /\ n - (k - 1) = b + 1 /\ k \in 0 .. n
    BY <1>3
  <2>2. Fusing(g, R, cur, b + 1)
    BY <1>8, <2>1
  <2>3. p[k] = IF b \in Mergeable(g) THEN merge(cur, b, d) ELSE cur
    BY <1>2 DEF Merging, MergeStep
  <2> HIDE DEF b, cur, n, S
  <2>4. Fusing(g, R, cur, b)
    <3>1. \A x \in R : x < b => x < b + 1
      BY <1>5, <2>1
    <3>2. Joining(g, R, cur, b)
      BY <2>2, <3>1 DEF Joining, Fusing
    <3> QED
      BY <2>2, <3>2, Zenon DEF Fusing
  <2>5. CASE b \in Mergeable(g) /\ fits(cur, b, d)
    <3>1. Fusing(g, R, merge(cur, b, d), b)
      BY <1>1, <2>2, <2>5, FusedInside, FusedOutside DEF R
    <3> QED
      BY <2>1, <2>3, <2>5, <3>1 DEF S, b
  <2>6. CASE b \in Mergeable(g) /\ ~fits(cur, b, d)
    <3>1. merge(cur, b, d) = cur
      BY <2>6, Zenon DEF merge
    <3> QED
      BY <2>1, <2>3, <2>4, <2>6, <3>1 DEF S, b
  <2>7. CASE b \notin Mergeable(g)
    BY <2>1, <2>3, <2>4, <2>7 DEF S, b
  <2> QED
    BY <2>5, <2>6, <2>7
<1> HIDE DEF S, n
<1>9. 0 .. n \subseteq S
  BY <1>3, <1>7, <1>8, CountUp
<1>10. \E b : Fusing(g, R, p[n], b)
  <2>1. n \in S
    BY <1>3, <1>9
  <2> QED
    BY <2>1 DEF S
<1> DEFINE h == [g EXCEPT !.blocks = p[n]]
           L == {x \in R : p[n][x].reachable}
<1>11. /\ DOMAIN p[n] = DOMAIN g.blocks /\ Good(p[n], R) /\ Sound(p[n], R) /\ Closed(p[n], L)
       /\ \A args : Honours(Outcome(h, args), Outcome(g, args))
  BY <1>10 DEF Fusing, Joining
<1>12. HasBlocks(h) /\ h.blocks = p[n]
  BY <1>1, <1>11, WithBlocks
<1> HIDE DEF h
<1>13. Tidy(h)
  BY <1>11, <1>12, GoodReached DEF Tidy
<1>14. mark_reachable(h) \subseteq L
  <2> HIDE DEF L
  <2> QED
    BY <1>11, <1>12, ReachedLeast
<1>15. mark_reachable(h) \subseteq R /\ mark_reachable(h) \subseteq Live(h)
  BY <1>11, <1>12, <1>14 DEF Live, Good, Closed
<1>16. Sane(h)
  BY <1>11, <1>12, <1>13, <1>15, SoundLess DEF Sane
<1> QED
  BY <1>4, <1>11, <1>16 DEF Refines, h

(* Every pass leaves a function that does what it did.                     *)
LEMMA SimplifyRefines ==
    ASSUME NEW g, Sane(g)
    PROVE  Refines(g, simplify(g).f)
<1> DEFINE p == eliminate_fallthrough_branches(g)
           q == merge_blocks(p.f)
           r == remove_unreachable(q.f)
<1>1. Refines(g, p.f)
  BY CutRefines
<1> HIDE DEF p
<1>2. Refines(g, q.f)
  <2>1. Refines(p.f, q.f)
    BY <1>1, MergeRefines DEF Refines
  <2> QED
    BY <1>1, <2>1, RefinesChain
<1> HIDE DEF q
<1>3. Refines(g, r.f)
  <2>1. Refines(q.f, r.f)
    BY <1>2, UnreachableRefines DEF Refines
  <2> QED
    BY <1>2, <2>1, RefinesChain
<1> HIDE DEF r
<1>4. simplify(g) = Combine(Combine(p, q), remove_unreachable(Combine(p, q).f))
  BY Zenon DEF simplify, Then, p, q
<1>5. Combine(p, q).f = q.f
  BY DEF Combine, Pass
<1>6. simplify(g).f = r.f
  BY <1>4, <1>5 DEF Combine, Pass, r
<1> QED
  BY <1>3, <1>6

LEMMA PassRefines ==
    ASSUME NEW g, Sane(g), NEW i \in DOMAIN PassNames
    PROVE  Refines(g, run_pass(g, PassNames[i]).f)
<1> DEFINE p == run_pass(g, PassNames[i])
<1>1. PassNames[i] \in {"dce", "const-prop", "fold", "cse", "simplify-cfg", "tail-call",
          "pattern-match", "type-inference", "escape-analysis", "native-specialize", "speculative"}
  BY DEF PassNames
<1>2. \/ p \in {eliminate_dead_code(g), eliminate_common_subexprs(g), simplify(g),
                analyze_tail_calls(g), optimize_patterns(g)}
      \/ p \in {propagate_constants(g), fold_constants(g), infer_and_annotate(g),
                optimize_escapes(g), specialize(g), speculate(g)}
  BY <1>1 DEF run_pass
<1>3. \A q \in {propagate_constants(g), fold_constants(g), infer_and_annotate(g),
                optimize_escapes(g), specialize(g), speculate(g)} : q.f = g
  BY DEF propagate_constants, fold_constants, infer_and_annotate, optimize_escapes,
         specialize, speculate, Pass
<1> QED
  BY <1>2, <1>3, RefinesSelf, DeadCodeRefines, SubexprsRefines, SimplifyRefines, TailsRefine,
     PatternsRefine

-----------------------------------------------------------------------------
(* So does every round of passes, on a function and on a module.            *)

LEMMA RoundRefines ==
    ASSUME NEW g, Sane(g)
    PROVE  Refines(g, optimize_round(g).f)
<1>1. PICK p : Rounding(g, 11, p) /\ optimize_round(g) = p[11]
  BY RoundRuns
<1> DEFINE S == {k \in 0 .. 11 : Refines(g, p[k].f)}
<1>2. 0 \in S
  BY <1>1, RefinesSelf DEF Rounding, Pass
<1>3. ASSUME NEW k \in 1 .. 11, k - 1 \in S PROVE k \in S
  <2> DEFINE cur == p[k - 1]
             next == run_pass(cur.f, PassNames[k])
  <2>1. k \in DOMAIN PassNames /\ k \in 0 .. 11
    BY DEF PassNames
  <2>2. p[k] = Combine(cur, next)
    BY <1>1 DEF Rounding
  <2>3. \A a, c : Combine(a, c).f = c.f
    BY DEF Combine, Pass
  <2>4. Refines(g, cur.f)
    BY <1>3
  <2> HIDE DEF cur
  <2>5. Refines(cur.f, next.f)
    BY <2>1, <2>4, PassRefines DEF Refines
  <2> HIDE DEF next
  <2>6. Refines(g, next.f)
    BY <2>4, <2>5, RefinesChain
  <2>7. p[k].f = next.f
    BY <2>2, <2>3
  <2> QED
    BY <2>1, <2>6, <2>7
<1> HIDE DEF S
<1>4. 0 .. 11 \subseteq S
  BY <1>2, <1>3, CountUp
<1> QED
  BY <1>1, <1>4 DEF S

LEMMA OptimizeRefines ==
    ASSUME NEW g, Sane(g)
    PROVE  Refines(g, optimize(g))
<1>1. PICK p : Repeating(g, MaxRounds, p) /\ optimize(g) = p[MaxRounds].of
  BY OptimizeRuns
<1> DEFINE S == {k \in 0 .. MaxRounds : Refines(g, p[k].of)}
<1>2. 0 \in S
  BY <1>1, RefinesSelf DEF Repeating, MaxRounds
<1>3. ASSUME NEW k \in 1 .. MaxRounds, k - 1 \in S PROVE k \in S
  <2> DEFINE cur == p[k - 1].of
  <2>1. \A h : round(h).of = optimize_round(h).f
    BY DEF round
  <2>2. p[k] = IF p[k - 1].more THEN round(cur) ELSE p[k - 1]
    BY <1>1 DEF Repeating
  <2>3. Refines(g, cur) /\ k \in 0 .. MaxRounds
    BY <1>3 DEF MaxRounds
  <2>4. Refines(g, round(cur).of)
    <3> HIDE DEF cur
    <3>1. Refines(cur, optimize_round(cur).f)
      BY <2>3, RoundRefines DEF Refines
    <3> QED
      BY <2>1, <2>3, <3>1, RefinesChain
  <2>5. Refines(g, p[k].of)
    BY <2>2, <2>3, <2>4
  <2> QED
    BY <2>3, <2>5
<1> HIDE DEF S
<1>4. 0 .. MaxRounds \subseteq S
  BY <1>2, <1>3, CountUp DEF MaxRounds
<1>5. MaxRounds \in S
  BY <1>4 DEF MaxRounds
<1> QED
  BY <1>1, <1>5 DEF S

LEMMA ModuleRefines ==
    ASSUME NEW g, Sane(g)
    PROVE  Refines(g, optimize_module(<<g>>)[1])
<1> DEFINE fs == <<g>>
           n == MaxIter(fs)
<1>1. n = 10
  BY DEF MaxIter
<1>2. PICK p : ModuleRepeating(fs, n, p) /\ optimize_module(fs) = p[n].of
  BY <1>1, OptimizeModuleRuns
<1> DEFINE Fine(hs) == DOMAIN hs = {1} /\ Refines(g, hs[1])
           S == {k \in 0 .. n : Fine(p[k].of)}
<1>3. Fine(fs)
  BY RefinesSelf
<1> HIDE DEF fs, n
<1>4. 0 \in S
  BY <1>1, <1>2, <1>3 DEF ModuleRepeating
<1>5. ASSUME NEW hs, Fine(hs) PROVE Fine(module_round(hs).of)
  <2>1. module_round(hs).of = [i \in DOMAIN hs |-> optimize(hs[i])]
    BY DEF module_round
  <2>2. Refines(hs[1], optimize(hs[1]))
    BY <1>5, OptimizeRefines DEF Refines
  <2>3. Refines(g, optimize(hs[1]))
    BY <1>5, <2>2, RefinesChain
  <2> QED
    BY <1>5, <2>1, <2>3
<1> HIDE DEF Fine
<1>6. ASSUME NEW k \in 1 .. n, k - 1 \in S PROVE k \in S
  <2>1. p[k] = IF p[k - 1].more THEN module_round(p[k - 1].of) ELSE p[k - 1]
    BY <1>2 DEF ModuleRepeating
  <2>2. Fine(p[k - 1].of) /\ k \in 0 .. n
    BY <1>1, <1>6
  <2> QED
    BY <1>5, <2>1, <2>2
<1> HIDE DEF S
<1>7. 0 .. n \subseteq S
  BY <1>1, <1>4, <1>6, CountUp
<1>8. n \in S
  BY <1>1, <1>7
<1>9. Fine(optimize_module(fs))
  BY <1>2, <1>8 DEF S
<1> QED
  BY <1>9 DEF Fine, fs

-----------------------------------------------------------------------------
(* What a function means is kept.                                          *)

(* A function the passes are trusted with has all that they keep.          *)
LEMMA TrustedSane ==
    ASSUME NEW g, Framed(g), Trusted(g), Tidy(g),
           DOMAIN g.blocks = {0} \/ \A b \in DOMAIN g.blocks : JumpsAtEnd(g.blocks[b].insts)
    PROVE  Sane(g)
<1> DEFINE R == mark_reachable(g)
           all == Insts(g.blocks, R)
<1>1. R \subseteq DOMAIN g.blocks /\ R \subseteq Live(g)
  BY DEF Framed, Tidy, Good, Closed, Live
<1> HIDE DEF R
<1>2. ASSUME NEW b \in R, NEW i \in DOMAIN g.blocks[b].insts
      PROVE  <<b, i>> \in Places(g) /\ At(g, <<b, i>>) = g.blocks[b].insts[i]
  BY <1>1, <1>2 DEF Places, Positions, At
<1>3. ASSUME NEW x \in all
      PROVE  \E p \in Places(g) : At(g, p) = x
  <2>1. PICK b \in R : x \in Range(g.blocks[b].insts)
    BY <1>3 DEF Insts
  <2>2. PICK i \in DOMAIN g.blocks[b].insts : x = g.blocks[b].insts[i]
    BY <2>1 DEF Range
  <2> QED
    BY <1>2, <2>2
<1>4. ASSUME NEW x \in all, NEW y \in all PROVE Listed(x, y)
  <2> HIDE DEF all
  <2>1. PICK p \in Places(g) : At(g, p) = x
    BY <1>3
  <2>2. PICK q \in Places(g) : At(g, q) = y
    BY <1>3
  <2>3. x.res # NoValue => x.res \in Results_of(g)
    BY <2>1 DEF Results_of
  <2> QED
    BY <2>2, <2>3 DEF Listed, Trusted, OperandsListed
<1>5. ASSUME NEW b \in R, NEW c \in R,
             NEW i \in DOMAIN g.blocks[b].insts, NEW j \in DOMAIN g.blocks[c].insts,
             b # c \/ i # j, Twice(g.blocks[b].insts[i], g.blocks[c].insts[j]), NEW z \in all
      PROVE  g.blocks[b].insts[i].res \notin Reads(z)
  <2>1. PICK r \in Places(g) : At(g, r) = z
    BY <1>3
  <2>2. /\ <<b, i>> \in Places(g) /\ At(g, <<b, i>>) = g.blocks[b].insts[i]
        /\ <<c, j>> \in Places(g) /\ At(g, <<c, j>>) = g.blocks[c].insts[j]
        /\ <<b, i>> # <<c, j>>
    BY <1>2, <1>5
  <2>3. NoRepeats(g)
    BY DEF Trusted
  <2> QED
    BY <1>5, <2>1, <2>2, <2>3 DEF NoRepeats, Twice
<1>6. ASSUME NEW b \in R, NEW x \in Range(g.blocks[b].insts)
      PROVE  Wanted(x, g.blocks[b].insts)
  <2>1. PICK i \in DOMAIN g.blocks[b].insts : x = g.blocks[b].insts[i]
    BY DEF Range
  <2>2. <<b, i>> \in Places(g) /\ At(g, <<b, i>>) = x
    BY <1>2, <2>1
  <2>3. OverlookedRead(g)
    BY DEF Trusted
  <2>4. ASSUME NEW q \in Places(g), q[1] = b
        PROVE  At(g, q) \in Range(g.blocks[b].insts)
    BY <2>4 DEF Places, Positions, At, Range
  <2> QED
    BY <2>2, <2>3, <2>4 DEF OverlookedRead, Wanted
<1>7. DOMAIN g.blocks = {0} \/ \A b \in R : JumpsAtEnd(g.blocks[b].insts)
  BY <1>1
<1>8. Sound(g.blocks, R)
  BY <1>4, <1>5, <1>6, <1>7, Zenon DEF Sound
<1> QED
  BY <1>1, <1>8 DEF Sane, R

LEMMA BuiltJumps ==
    ASSUME NEW g, WellBuilt(g), NEW b \in DOMAIN g.blocks
    PROVE  JumpsAtEnd(g.blocks[b].insts)
<1> DEFINE s == g.blocks[b].insts
<1>1. IsCode(s)
  BY DEF WellBuilt, IsFunction, IsBlock
<1>2. ASSUME NEW i \in DOMAIN s, i # Len(s) PROVE s[i].to = <<>>
  <2>1. s[i].kind \notin JumpKinds
    BY <1>2 DEF WellBuilt
  <2>2. IsInst(s[i])
    BY <1>1, <1>2 DEF IsCode
  <2> QED
    BY <2>1, <2>2 DEF IsInst
<1> QED
  BY <1>2 DEF JumpsAtEnd

\* Once the passes are trusted with a function it stays sane, and what it does
\* honours the promise.
KeptInv ==
    Trusting => Sane(f) /\ \A args \in Inputs : Honours(Outcome(f, args), promised[args])

LEMMA PromiseKept ==
    ASSUME NEW g, Promise(g) # <<>>, NEW args \in Inputs
    PROVE  Honours(Outcome(g, args), Promise(g)[args])
  BY DEF Promise, Honours

LEMMA InitKept == OptimizerInit /\ TidyInv => KeptInv
<1> SUFFICES ASSUME OptimizerInit, TidyInv, Trusting
             PROVE  Sane(f) /\ \A args \in Inputs : Honours(Outcome(f, args), promised[args])
  BY DEF KeptInv
<1>1. Tidy(f)
  BY DEF TidyInv
<1>2. ~\E m \in Menus : Building(m)
  BY DEF Building, Trusting
<1>3. ASSUME NEW g, Ready(g), Framed(g),
             DOMAIN g.blocks = {0} \/ \A b \in DOMAIN g.blocks : JumpsAtEnd(g.blocks[b].insts)
      PROVE  Sane(f) /\ \A args \in Inputs : Honours(Outcome(f, args), promised[args])
  <2>1. f = g /\ promised = Promise(g) /\ Promise(g) # <<>>
    BY <1>3 DEF Ready, Trusting
  <2> QED
    BY <1>1, <1>3, <2>1, PromiseTrusted, TrustedSane, PromiseKept
<1>4. ASSUME NEW g \in Graphs, Ready(g)
      PROVE  Sane(f) /\ \A args \in Inputs : Honours(Outcome(f, args), promised[args])
  <2>1. WellBuilt(g)
    BY OptimizerAssumption
  <2> QED
    BY <1>3, <1>4, <2>1, BuiltFramed, BuiltJumps
<1>5. ASSUME NEW p \in Programs, Ready(translate_beam_function(p.arity, p.code))
      PROVE  Sane(f) /\ \A args \in Inputs : Honours(Outcome(f, args), promised[args])
  <2> DEFINE g == translate_beam_function(p.arity, p.code)
  <2>1. Single(g)
    BY OptimizerAssumption, TranslatedSingle
  <2>2. Ready(g)
    BY <1>5
  <2> HIDE DEF g
  <2>3. Framed(g) /\ DOMAIN g.blocks = {0}
    BY <2>1, SingleFramed DEF Single
  <2> QED
    BY <1>3, <2>2, <2>3
<1> QED
  BY <1>2, <1>4, <1>5 DEF OptimizerInit

LEMMA StepKept == TidyInv /\ TidyInv' /\ KeptInv /\ [OptimizerNext]_ovars => KeptInv'
<1> SUFFICES ASSUME TidyInv, TidyInv', KeptInv, [OptimizerNext]_ovars PROVE KeptInv'
  OBVIOUS
<1>1. ASSUME NEW g, Emit(g), phase = "build" PROVE KeptInv'
  BY <1>1 DEF Emit, KeptInv, Trusting
<1>2. ASSUME phase = "build", EmitTwo \/ EmitOne \/ EmitNone PROVE KeptInv'
  BY <1>1, <1>2, Zenon DEF EmitTwo, EmitOne, EmitNone
<1>3. ASSUME phase = "build", EmitNaming \/ EmitEffect PROVE KeptInv'
  BY <1>1, <1>3, Zenon DEF EmitNaming, EmitEffect
<1>4. ASSUME phase = "build", Finish PROVE KeptInv'
  <2> SUFFICES ASSUME promised' # <<>>
               PROVE  Sane(f') /\ \A args \in Inputs : Honours(Outcome(f', args), promised'[args])
    BY DEF KeptInv, Trusting
  <2>1. PICK v \in Defined : \E ret \in AsListed(Ret(v)) :
            phase' = "optimise" /\ f' = emit(f, 0, ret) /\ promised' = Promise(f')
    BY <1>4 DEF Finish
  <2>2. PICK ret \in AsListed(Ret(v)) :
            phase' = "optimise" /\ f' = emit(f, 0, ret) /\ promised' = Promise(f')
    BY <2>1
  <2>3. Straight(f) /\ v \in Int
    <3>1. Straight(f)
      BY <1>4 DEF TidyInv
    <3>2. Len(f.blocks[0].insts) \in Nat
      BY <3>1, CodeFacts DEF Straight, Single
    <3> QED
      BY <3>1, <3>2 DEF Defined, next_value_id
  <2>4. Straight(f')
    BY <2>2, <2>3, PlainInst, EmitStraight
  <2>5. Framed(f') /\ DOMAIN f'.blocks = {0}
    BY <2>4, SingleFramed DEF Straight, Single
  <2>6. Tidy(f')
    BY <2>2 DEF TidyInv, Trusting
  <2>7. Trusted(f') /\ Promise(f') # <<>>
    BY <2>2, PromiseTrusted
  <2>8. Sane(f')
    BY <2>5, <2>6, <2>7, TrustedSane
  <2> QED
    BY <2>2, <2>7, <2>8, PromiseKept
<1>5. ASSUME Refines(f, f') \/ ~Sane(f), promised' = promised, phase # "build" PROVE KeptInv'
  <2> SUFFICES ASSUME promised # <<>>
               PROVE  Sane(f') /\ \A args \in Inputs : Honours(Outcome(f', args), promised[args])
    BY <1>5 DEF KeptInv, Trusting
  <2>1. Sane(f) /\ \A args \in Inputs : Honours(Outcome(f, args), promised[args])
    BY <1>5 DEF KeptInv, Trusting
  <2>2. Sane(f') /\ \A args : Honours(Outcome(f', args), Outcome(f, args))
    BY <1>5, <2>1 DEF Refines
  <2> QED
    BY <2>1, <2>2, HonoursChain
<1>6. ASSUME NEW i \in DOMAIN PassNames, RunPass(PassNames[i]) PROVE KeptInv'
  <2>1. /\ phase = "optimise" /\ promised' = promised
        /\ f' = run_pass(f, PassNames[i]).f
    BY <1>6 DEF RunPass, Take
  <2>2. Sane(f) => Refines(f, f')
    BY <2>1, PassRefines
  <2> QED
    BY <1>5, <2>1, <2>2
<1>7. ASSUME OptimizeModule PROVE KeptInv'
  <2>1. /\ phase = "optimise" /\ promised' = promised
        /\ f' = optimize_module(<<f>>)[1]
    BY <1>7 DEF OptimizeModule
  <2>2. Sane(f) => Refines(f, f')
    BY <2>1, ModuleRefines
  <2> QED
    BY <1>5, <2>1, <2>2
<1>8. ASSUME UNCHANGED ovars PROVE KeptInv'
  BY <1>8 DEF ovars, KeptInv, Trusting
<1> QED
  BY <1>2, <1>3, <1>4, <1>6, <1>7, <1>8 DEF OptimizerNext

(* Whatever passes have run, in whatever order and however often, on a      *)
(* function they can be trusted with, it means what it meant: a run that    *)
(* ended still ends the same way with the same word, and has the same       *)
(* effects on the process on the way.                                       *)
THEOREM OptimizerOutcomeKept == OptimizerSpec => []OutcomeKept
<1>1. KeptInv => OutcomeKept
  BY DEF KeptInv, OutcomeKept
<1> QED
  BY <1>1, InitTidy, StepTidy, InitKept, StepKept, PTL DEF OptimizerSpec

-----------------------------------------------------------------------------
(* BEAM code that moves registers and throws what one holds: what it       *)
(* becomes, and what its run in the interpreter has in the registers.      *)

\* The instruction that one of these becomes.
Became(i) ==
    IF i.op = 0 THEN Move(X(i.args[1].n), X(i.args[2].n))
    ELSE IF i.op = 40 THEN Throw(i.args[1].n) ELSE Inst("Nop")

LEMMA PlainOperands ==
    ASSUME NEW p, p.code \in Seq([op : Nat, args : Seq([o : DOMAIN FirstId, n : Int])]),
           Plainly(p), NEW k \in 1 .. Len(p.code)
    PROVE  LET i == p.code[k]
           IN  /\ i.op \in {0, 1, 40}
               /\ i.op = 0 => /\ DOMAIN i.args = {1, 2}
                              /\ i.args[1].o = "X" /\ i.args[1].n \in Nat
                              /\ i.args[2].o = "X" /\ i.args[2].n \in Nat
               /\ i.op = 40 => /\ DOMAIN i.args = {1}
                               /\ i.args[1].o = "X" /\ i.args[1].n \in Nat
<1> DEFINE i == p.code[k]
<1>1. k \in DOMAIN p.code /\ i \in [op : Nat, args : Seq([o : DOMAIN FirstId, n : Int])]
  BY LenProperties, ElementOfSeq
<1>2. /\ i.op \in {0, 1, 40} /\ \A j \in DOMAIN i.args : i.args[j].o = "X" /\ i.args[j].n \in Nat
      /\ i.op = 0 => Len(i.args) = 2
      /\ i.op = 40 => Len(i.args) = 1
  BY <1>1 DEF Plainly
<1>3. DOMAIN i.args = 1 .. Len(i.args)
  BY <1>1, LenProperties
<1> HIDE DEF i
<1>4. 1 .. 1 = {1} /\ 1 .. 2 = {1, 2}
  OBVIOUS
<1>5. /\ i.op = 0 => DOMAIN i.args = {1, 2}
      /\ i.op = 40 => DOMAIN i.args = {1}
  BY <1>2, <1>3, <1>4
<1> QED
  BY <1>2, <1>5 DEF i

LEMMA NotPlain == \A op \in {0, 1, 40} : Plain(op) = {}
<1>1. \A op \in {0, 1, 40} : \A k \in DOMAIN PlainOpcodes : op \notin PlainOpcodes[k]
  BY DEF PlainOpcodes
<1> QED
  BY <1>1 DEF Plain

LEMMA PlainBecame ==
    ASSUME NEW p, p.code \in Seq([op : Nat, args : Seq([o : DOMAIN FirstId, n : Int])]),
           Plainly(p), NEW k \in 1 .. Len(p.code)
    PROVE  translate_beam_instruction(p.code[k]) = <<Became(p.code[k])>>
<1> DEFINE i == p.code[k]
<1>1. /\ i.op \in {0, 1, 40}
      /\ i.op = 0 => /\ DOMAIN i.args = {1, 2}
                     /\ i.args[1].o = "X" /\ i.args[1].n \in Nat
                     /\ i.args[2].o = "X" /\ i.args[2].n \in Nat
      /\ i.op = 40 => /\ DOMAIN i.args = {1}
                      /\ i.args[1].o = "X" /\ i.args[1].n \in Nat
  BY PlainOperands
<1> HIDE DEF i
<1>2. Plain(i.op) = {}
  BY <1>1, NotPlain
<1>3. CASE i.op = 0
  <2>1. reg(i, 0) = X(i.args[1].n) /\ reg(i, 1) = X(i.args[2].n)
    BY <1>1, <1>3 DEF reg, X
  <2>2. translate_beam_instruction(i) = <<Move(reg(i, 0), reg(i, 1))>>
    BY <1>2, <1>3 DEF translate_beam_instruction, BifCalling, GcBifCalling, Calling, TailCalling,
                      FirstElement, Throwing, Extracting
  <2> QED
    BY <1>3, <2>1, <2>2 DEF Became, i
<1>4. CASE i.op = 40
  <2>1. operand(i, 0) = i.args[1].n
    BY <1>1, <1>4 DEF operand, FirstId
  <2>2. translate_beam_instruction(i) = <<Throw(operand(i, 0))>>
    BY <1>2, <1>4 DEF translate_beam_instruction, BifCalling, GcBifCalling, Calling, TailCalling,
                      FirstElement, Throwing, Extracting
  <2> QED
    BY <1>4, <2>1, <2>2 DEF Became, i
<1>5. CASE i.op = 1
  <2>1. translate_beam_instruction(i) = <<Inst("Nop")>>
    BY <1>2, <1>5 DEF translate_beam_instruction, BifCalling, GcBifCalling, Calling, TailCalling,
                      FirstElement, Throwing, Extracting
  <2> QED
    BY <1>5, <2>1 DEF Became, i
<1> QED
  BY <1>1, <1>3, <1>4, <1>5

\* Such code is translated instruction by instruction.
LEMMA PlainMaking ==
    ASSUME NEW p, p.code \in Seq([op : Nat, args : Seq([o : DOMAIN FirstId, n : Int])]),
           Plainly(p), NEW made, Making(p.code, Len(p.code), made)
    PROVE  made[Len(p.code)] = [k \in 1 .. Len(p.code) |-> Became(p.code[k])]
<1> DEFINE n == Len(p.code)
           B(k) == Became(p.code[k])
           Made == {B(k) : k \in 1 .. n}
           S == {m \in Nat : m <= n => made[m] = [k \in 1 .. m |-> B(k)]}
<1>1. n \in Nat
  BY LenProperties
<1>2. \A k \in 1 .. n : made[k] = made[k - 1] \o <<B(k)>>
  BY PlainBecame DEF Making
<1>3. made[0] = <<>>
  BY DEF Making
<1> HIDE DEF n, B
<1>4. 0 \in S
  <2>1. [k \in 1 .. 0 |-> B(k)] = <<>>
    OBVIOUS
  <2> QED
    BY <1>3, <2>1
<1>5. ASSUME NEW m \in 1 .. n, m - 1 \in S PROVE m \in S
  <2> DEFINE s == [k \in 1 .. m - 1 |-> B(k)]
             t == s \o <<B(m)>>
  <2>1. made[m] = t
    <3>1. made[m - 1] = s
      BY <1>1, <1>5
    <3>2. made[m] = made[m - 1] \o <<B(m)>>
      BY <1>2
    <3> QED
      BY <3>1, <3>2
  <2>2. s \in Seq(Made) /\ Len(s) = m - 1 /\ <<B(m)>> \in Seq(Made) /\ Len(<<B(m)>>) = 1
    <3>1. m - 1 \in Nat
      BY <1>1
    <3>2. s \in [1 .. m - 1 -> Made] /\ B(m) \in Made
      BY <1>1
    <3>3. s \in Seq(Made)
      BY <3>1, <3>2, IsASeq
    <3>4. Len(s) = m - 1
      BY <3>1
    <3> QED
      BY <3>2, <3>3, <3>4
  <2>3. /\ t \in Seq(Made) /\ Len(t) = m
        /\ \A k \in 1 .. m : t[k] = B(k)
    <3> HIDE DEF Made
    <3>1. /\ t \in Seq(Made) /\ Len(t) = (m - 1) + 1
          /\ \A k \in 1 .. (m - 1) + 1 : t[k] = IF k <= m - 1 THEN s[k] ELSE <<B(m)>>[k - (m - 1)]
      <4> HIDE DEF s
      <4> QED
        BY <2>2, ConcatProperties
    <3>2. (m - 1) + 1 = m /\ \A k \in 1 .. m : k <= m - 1 \/ (k = m /\ k - (m - 1) = 1)
      BY <1>1
    <3>3. \A k \in 1 .. m : k <= m - 1 => s[k] = B(k)
      OBVIOUS
    <3> QED
      BY <3>1, <3>2, <3>3
  <2>4. t = [k \in 1 .. m |-> B(k)]
    <3> HIDE DEF t
    <3>1. DOMAIN t = 1 .. m
      BY <2>3, LenProperties
    <3>2. t = [k \in DOMAIN t |-> t[k]]
      BY <2>3, LenProperties
    <3> QED
      BY <2>3, <3>1, <3>2
  <2> QED
    BY <1>1, <2>1, <2>4
<1> HIDE DEF S
<1>6. n \in S
  <2>1. 0 .. n \subseteq S
    BY <1>1, <1>4, <1>5, CountUp
  <2>2. n \in 0 .. n
    BY <1>1
  <2> QED
    BY <2>1, <2>2
<1>7. made[n] = [k \in 1 .. n |-> B(k)]
  BY <1>1, <1>6 DEF S
<1> QED
  BY <1>7 DEF n, B

LEMMA PlainCode ==
    ASSUME NEW p, p.code \in Seq([op : Nat, args : Seq([o : DOMAIN FirstId, n : Int])]),
           Plainly(p)
    PROVE  LET g == translate_beam_function(p.arity, p.code)
               insts == g.blocks[0].insts
           IN  /\ Single(g) /\ is_terminated(g.blocks[0]) /\ g.arity = p.arity
               /\ Len(insts) \in {Len(p.code), Len(p.code) + 1}
               /\ Len(insts) = Len(p.code) => insts[Len(p.code)].kind = "Throw"
               /\ \A k \in 1 .. Len(p.code) : insts[k] = Became(p.code[k])
               /\ Len(insts) # Len(p.code) => insts[Len(p.code) + 1] = Ret(0)
<1> DEFINE n == Len(p.code)
           g == translate_beam_function(p.arity, p.code)
           insts == g.blocks[0].insts
<1>1. n \in Nat
  BY LenProperties
<1>2. PICK made : /\ Making(p.code, n, made)
                  /\ g = LET body == made[n]
                             ends == body # <<>> /\ is_terminator(body[Len(body)])
                         IN  [IRFunction(p.arity) EXCEPT
                                 !.blocks[0].insts = IF ends THEN body ELSE Append(body, Ret(0))]
  BY <1>1, TranslationRuns, Zenon
<1> DEFINE body == made[n]
           ends == body # <<>> /\ is_terminator(body[Len(body)])
           all == IF ends THEN body ELSE Append(body, Ret(0))
<1>3. g = [IRFunction(p.arity) EXCEPT !.blocks[0].insts = all]
  BY <1>2, Zenon
<1>4. body = [k \in 1 .. n |-> Became(p.code[k])]
  BY <1>2, PlainMaking
<1>5. Single(g) /\ is_terminated(g.blocks[0])
  BY TranslatedSingle
<1>6. /\ body \in Seq(Range(body)) /\ Len(body) = n
      /\ \A k \in 1 .. n : body[k] = Became(p.code[k])
  <2> HIDE DEF n, body
  <2>1. DOMAIN body = 1 .. n /\ \A k \in 1 .. n : body[k] = Became(p.code[k])
    BY <1>4
  <2>2. body \in [1 .. n -> Range(body)]
    <3>1. body = [k \in 1 .. n |-> body[k]]
      BY <1>4
    <3>2. \A k \in 1 .. n : body[k] \in Range(body)
      BY <2>1 DEF Range
    <3> QED
      BY <3>1, <3>2
  <2>3. body \in Seq(Range(body))
    BY <1>1, <2>2, IsASeq
  <2>4. Len(body) = n
    BY <1>1, <2>1, <2>3, LenProperties
  <2> QED
    BY <2>1, <2>3, <2>4
<1>7. insts = all /\ g.arity = p.arity
  <2>1. /\ DOMAIN IRFunction(p.arity) = {"arity", "blocks"}
        /\ IRFunction(p.arity).arity = p.arity
        /\ DOMAIN IRFunction(p.arity).blocks = {0}
        /\ DOMAIN IRFunction(p.arity).blocks[0] = {"insts", "preds", "succs", "reachable"}
    BY DEF IRFunction, BasicBlock
  <2> HIDE DEF g, all
  <2> QED
    BY <1>3, <2>1
<1>8. CASE ends
  <2>1. all = body /\ is_terminator(body[n]) /\ n \in 1 .. n
    BY <1>1, <1>6, <1>8, EmptySeq
  <2>2. body[n] = Became(p.code[n])
    BY <1>6, <2>1
  <2>3. is_terminator(Became(p.code[n])) => Became(p.code[n]).kind = "Throw"
    BY DEF is_terminator, Terminators, Became, Move, Throw, Inst
  <2> HIDE DEF body, all, g
  <2> QED
    BY <1>1, <1>5, <1>6, <1>7, <2>1, <2>2, <2>3 DEF g
<1>9. CASE ~ends
  <2>1. all = Append(body, Ret(0))
    BY <1>9
  <2> HIDE DEF body, all, g, n
  <2>2. /\ Len(all) = n + 1 /\ all[n + 1] = Ret(0)
        /\ \A k \in 1 .. n : all[k] = body[k]
    <3>1. body \in Seq(Range(body) \union {Ret(0)})
      BY <1>6
    <3> QED
      BY <1>6, <2>1, <3>1, AppendProperties
  <2>3. n + 1 # n
    BY <1>1
  <2> QED
    BY <1>5, <1>6, <1>7, <2>2, <2>3 DEF g, n
<1> QED
  BY <1>8, <1>9

\* The passes can be trusted with it: it defines no values and has no jumps.
LEMMA PlainTrusted ==
    ASSUME NEW p, p.code \in Seq([op : Nat, args : Seq([o : DOMAIN FirstId, n : Int])]),
           Plainly(p)
    PROVE  Trusted(translate_beam_function(p.arity, p.code))
<1> DEFINE g == translate_beam_function(p.arity, p.code)
           insts == g.blocks[0].insts
           n == Len(p.code)
<1>1. /\ Single(g) /\ is_terminated(g.blocks[0])
      /\ Len(insts) \in {n, n + 1}
      /\ \A k \in 1 .. n : insts[k] = Became(p.code[k])
      /\ Len(insts) # n => insts[n + 1] = Ret(0)
  BY PlainCode
<1>2. n \in Nat
  BY LenProperties
<1> HIDE DEF g, n
<1>3. \A i : LET inst == Became(i)
             IN  /\ inst.kind \in {"Move", "Throw", "Nop"}
                 /\ inst.res = NoValue /\ inst.ops = <<>> /\ inst.to = <<>>
  BY DEF Became, Move, Throw, Inst
<1>4. Ret(0).kind = "Ret" /\ Ret(0).res = NoValue /\ Ret(0).ops = <<>> /\ Ret(0).to = <<>>
  BY DEF Ret, Inst
<1>5. ASSUME NEW k \in DOMAIN insts
      PROVE  /\ insts[k].kind \in {"Move", "Throw", "Nop", "Ret"}
             /\ insts[k].res = NoValue /\ insts[k].ops = <<>> /\ insts[k].to = <<>>
  <2>1. DOMAIN insts = 1 .. Len(insts)
    BY <1>1, CodeFacts DEF Single
  <2>2. k \in 1 .. n \/ (k = n + 1 /\ Len(insts) # n)
    BY <1>1, <1>2, <2>1
  <2> QED
    BY <1>1, <1>3, <1>4, <2>2
<1>6. ASSUME NEW q \in Places(g)
      PROVE  /\ At(g, q).kind \in {"Move", "Throw", "Nop", "Ret"}
             /\ At(g, q).res = NoValue /\ At(g, q).ops = <<>> /\ At(g, q).to = <<>>
  <2>1. q \in Positions(g)
    BY DEF Places
  <2>2. q[1] = 0 /\ q[2] \in DOMAIN insts
    BY <1>1, <2>1 DEF Positions, Single
  <2>3. At(g, q) = insts[q[2]]
    BY <2>2 DEF At
  <2> QED
    BY <1>5, <2>2, <2>3
<1>7. OperandsListed(g)
  <2>1. Results_of(g) = {}
    BY <1>6 DEF Results_of
  <2> QED
    BY <2>1 DEF OperandsListed
<1>8. NoRepeats(g)
  <2>1. \A q \in Places(g) : ~HasKey(At(g, q))
    BY <1>6 DEF HasKey, KeyedTwo, KeyedOne, Commutative, TestKinds
  <2> QED
    BY <2>1 DEF NoRepeats
<1>9. NoChains(g)
  <2>1. \A q \in Places(g) : At(g, q).kind \notin Range(ChainTests)
    <3>1. Range(ChainTests) \subseteq TestKinds
      BY DEF ChainTests, TestKinds, Range
    <3> QED
      BY <1>6, <3>1 DEF TestKinds
  <2> QED
    BY <2>1 DEF NoChains
<1>10. NoFastAccess(g) /\ OverlookedRead(g) /\ NoFallThrough(g)
  BY <1>6 DEF NoFastAccess, OverlookedRead, NoFallThrough
<1>11. /\ g.blocks[0].succs = <<>>
       /\ \A b \in mark_reachable(g) : b = 0
  BY <1>1 DEF Single, mark_reachable
<1>12. JumpsForward(g)
  BY <1>11 DEF JumpsForward
<1>13. EdgesRecorded(g)
  <2>1. insts # <<>> /\ IsCode(insts)
    BY <1>1 DEF Single, is_terminated
  <2>2. Len(insts) \in DOMAIN insts
    BY <2>1, CodeFacts
  <2>3. Last(g.blocks[0]).to = <<>>
    BY <1>5, <2>2 DEF Last
  <2>4. Targets(g.blocks[0]) = {}
    BY <2>3, RangeEmpty DEF Targets
  <2> QED
    BY <1>11, <2>4, RangeEmpty DEF EdgesRecorded
<1>14. Trusted(g)
  BY <1>7, <1>8, <1>9, <1>10, <1>12, <1>13 DEF Trusted
<1> QED
  BY <1>14 DEF g

\* The run of the BEAM code.
BeamRun(p, args, n, q) ==
    q[0] = AtEntry(p, args) /\ \A k \in 1 .. n : q[k] = Does(q[k - 1], p.code[k])

LEMMA BeamRunExists ==
    ASSUME NEW p, NEW args, NEW n \in Nat
    PROVE  \E q : BeamRun(p, args, n, q)
<1> DEFINE S == {m \in Nat : \E q : BeamRun(p, args, m, q)}
<1>1. 0 \in S
  <2>1. BeamRun(p, args, 0, [i \in {0} |-> AtEntry(p, args)])
    BY DEF BeamRun
  <2> QED
    BY <2>1
<1>2. ASSUME NEW m \in 1 .. n, m - 1 \in S PROVE m \in S
  <2>1. PICK q : BeamRun(p, args, m - 1, q)
    BY <1>2
  <2> DEFINE one == Does(q[m - 1], p.code[m])
             r == [i \in 0 .. m |-> IF i = m THEN one ELSE q[i]]
  <2> HIDE DEF one
  <2>2. r[0] = AtEntry(p, args)
    <3>1. r[0] = q[0]
      OBVIOUS
    <3> QED
      BY <2>1, <3>1 DEF BeamRun
  <2>3. ASSUME NEW i \in 1 .. m
        PROVE  r[i] = Does(r[i - 1], p.code[i])
    <3>1. r[i - 1] = q[i - 1]
      OBVIOUS
    <3>2. i # m => i \in 1 .. m - 1 /\ r[i] = q[i]
      OBVIOUS
    <3>3. r[m] = one
      OBVIOUS
    <3> QED
      BY <2>1, <3>1, <3>2, <3>3 DEF BeamRun, one
  <2>4. BeamRun(p, args, m, r)
    BY <2>2, <2>3 DEF BeamRun
  <2> QED
    BY <2>4
<1> HIDE DEF S
<1>3. 0 .. n \subseteq S
  BY <1>1, <1>2, CountUp
<1>4. n \in 0 .. n
  OBVIOUS
<1> QED
  BY <1>3, <1>4 DEF S

LEMMA ThrownRuns ==
    ASSUME NEW p, NEW args, Len(p.code) \in Nat
    PROVE  \E q : BeamRun(p, args, Len(p.code), q) /\ Thrown(p, args) = q[Len(p.code)]
<1> DEFINE n == Len(p.code)
           run(q) == [k \in 0 .. n |-> IF k = 0 THEN AtEntry(p, args) ELSE Does(q[k - 1], p.code[k])]
           after == CHOOSE q : q = run(q)
<1>1. Thrown(p, args) = after[n]
  BY Zenon DEF Thrown
<1>2. n \in Nat
  OBVIOUS
<1>3. PICK r : BeamRun(p, args, n, r)
  BY <1>2, BeamRunExists
<1> HIDE DEF n
<1> DEFINE q == [k \in 0 .. n |-> r[k]]
<1>4. q = run(q)
  <2>1. ASSUME NEW k \in 0 .. n PROVE q[k] = run(q)[k]
    <3>1. k # 0 => k \in 1 .. n /\ k - 1 \in 0 .. n
      BY <1>2
    <3>2. k # 0 => q[k - 1] = r[k - 1] /\ q[k] = r[k]
      BY <3>1
    <3> QED
      BY <1>3, <3>1, <3>2 DEF BeamRun
  <2> QED
    BY <2>1
<1>5. after = run(after)
  BY <1>4, Zenon
<1> HIDE DEF after
<1>6. BeamRun(p, args, n, after)
  <2>1. after[0] = AtEntry(p, args)
    BY <1>2, <1>5
  <2>2. ASSUME NEW k \in 1 .. n
        PROVE  after[k] = Does(after[k - 1], p.code[k])
    <3>1. k # 0 /\ k \in 0 .. n
      BY <1>2
    <3>2. after[k] = run(after)[k]
      BY <1>5
    <3> QED
      BY <3>1, <3>2
  <2> QED
    BY <2>1, <2>2 DEF BeamRun
<1> QED
  BY <1>1, <1>6 DEF n

\* A state of the interpreter with the registers of the BEAM code after n instructions.
Mirrors(s, b, n) ==
    /\ DOMAIN b = {"x", "end", "val"} /\ b.end \in {"ok", "throw"}
    /\ b.end = "throw" => s.end = "throw" /\ s.val = b.val
    /\ b.end = "ok" =>
           /\ DOMAIN s = {"blk", "pc", "env", "regs", "stack", "words", "effects", "end", "val"}
           /\ DOMAIN b.x = Nat
           /\ s.end = "running" /\ s.blk = 0 /\ s.pc = n + 1
           /\ \A k \in Nat : read_reg(s, X(k)) = b.x[k] /\ resolve_value(s, k) = b.x[k]

LEMMA MirrorsStart ==
    ASSUME NEW p, NEW args, p.arity \in Nat, Len(args) \in Nat, NEW g, g.arity = p.arity
    PROVE  Mirrors(Start(g, args), AtEntry(p, args), 0)
<1> DEFINE s == Start(g, args)
           b == AtEntry(p, args)
           given == 0 .. (IF Len(args) < g.arity THEN Len(args) ELSE g.arity) - 1
<1>1. /\ DOMAIN b = {"x", "end", "val"} /\ b.end = "ok" /\ DOMAIN b.x = Nat
      /\ \A k \in Nat : b.x[k] = IF k < p.arity /\ k < Len(args) THEN args[k + 1] ELSE nil
  BY DEF AtEntry
<1>2. /\ s.blk = 0 /\ s.pc = 1 /\ s.end = "running"
      /\ s.env = [i \in given |-> args[i + 1]]
      /\ s.regs = [r \in {X(i) : i \in given} |-> args[r[2] + 1]]
      /\ DOMAIN s = {"blk", "pc", "env", "regs", "stack", "words", "effects", "end", "val"}
  BY DEF Start
<1>3. ASSUME NEW k \in Nat
      PROVE  read_reg(s, X(k)) = b.x[k] /\ resolve_value(s, k) = b.x[k]
  <2>1. k \in given <=> k < p.arity /\ k < Len(args)
    OBVIOUS
  <2>2. X(k) \in {X(i) : i \in given} <=> k \in given
    BY DEF X
  <2>3. X(k)[1] = "X" /\ X(k)[2] = k
    BY DEF X
  <2> HIDE DEF s, b, given
  <2>4. read_reg(s, X(k)) = b.x[k]
    <3>1. CASE k \in given
      BY <1>1, <1>2, <2>1, <2>2, <2>3, <3>1 DEF read_reg
    <3>2. CASE k \notin given
      BY <1>1, <1>2, <2>1, <2>2, <2>3, <3>2 DEF read_reg
    <3> QED
      BY <3>1, <3>2
  <2>5. resolve_value(s, k) = b.x[k]
    <3>1. CASE k \in given
      BY <1>1, <1>2, <2>1, <3>1 DEF resolve_value
    <3>2. CASE k \notin given
      <4>1. b.x[k] = nil /\ k \notin DOMAIN s.env
        BY <1>1, <1>2, <2>1, <3>2
      <4> QED
        BY <2>4, <4>1 DEF resolve_value
    <3> QED
      BY <3>1, <3>2
  <2> QED
    BY <2>4, <2>5
<1> HIDE DEF s, b
<1>4. Mirrors(s, b, 0)
  BY <1>1, <1>2, <1>3 DEF Mirrors
<1> QED
  BY <1>4 DEF s, b

LEMMA MirrorsStep ==
    ASSUME NEW p, p.code \in Seq([op : Nat, args : Seq([o : DOMAIN FirstId, n : Int])]),
           Plainly(p), NEW k \in 1 .. Len(p.code), NEW s, NEW b, Mirrors(s, b, k - 1),
           NEW g, g.blocks[0].insts[k] = Became(p.code[k]), Len(g.blocks[0].insts) >= k
    PROVE  Mirrors(Stepped(g, s), Does(b, p.code[k]), k)
<1> DEFINE i == p.code[k]
<1>1. /\ i.op \in {0, 1, 40}
      /\ i.op = 0 => i.args[1].n \in Nat /\ i.args[2].n \in Nat
      /\ i.op = 40 => i.args[1].n \in Nat
  BY PlainOperands
<1>2. k \in Nat /\ (k - 1) + 1 = k
  BY LenProperties
<1> HIDE DEF i
<1>3. CASE b.end # "ok"
  <2>1. b.end = "throw" /\ s.end = "throw"
    BY <1>3 DEF Mirrors
  <2>2. Does(b, i) = b /\ Stepped(g, s) = s
    BY <2>1 DEF Does, Stepped
  <2>3. Mirrors(s, b, k)
    BY <2>1 DEF Mirrors
  <2> QED
    BY <2>2, <2>3 DEF i
<1>4. CASE b.end = "ok"
  <2>1. /\ DOMAIN b = {"x", "end", "val"} /\ DOMAIN b.x = Nat
        /\ DOMAIN s = {"blk", "pc", "env", "regs", "stack", "words", "effects", "end", "val"}
        /\ s.end = "running" /\ s.blk = 0 /\ s.pc = k
        /\ \A r \in Nat : read_reg(s, X(r)) = b.x[r] /\ resolve_value(s, r) = b.x[r]
    BY <1>2, <1>4 DEF Mirrors
  <2>2. Stepped(g, s) = Step(g, s, Became(i))
    <3>1. ~(k > Len(g.blocks[0].insts))
      BY <1>2
    <3> QED
      BY <2>1, <3>1 DEF Stepped, i
  <2>3. CASE i.op = 0
    <3> DEFINE src == i.args[1].n
               dst == i.args[2].n
               w == b.x[src]
               t == Next1(write_reg(s, X(dst), w))
               c == [b EXCEPT !.x[dst] = b.x[src]]
    <3>1. src \in Nat /\ dst \in Nat
      BY <1>1, <2>3
    <3>2. Does(b, i) = c
      BY <1>4, <2>3 DEF Does
    <3>3. Stepped(g, s) = t
      <4>1. Became(i).kind = "Move" /\ Became(i).regs = <<X(src), X(dst)>>
        BY <2>3 DEF Became, Move, Inst
      <4>2. read_reg(s, X(src)) = w
        BY <2>1, <3>1
      <4> QED
        BY <2>2, <4>1, <4>2, StepMove
    <3>4. /\ DOMAIN c = {"x", "end", "val"} /\ c.end = "ok" /\ DOMAIN c.x = Nat
          /\ \A r \in Nat : c.x[r] = IF r = dst THEN w ELSE b.x[r]
      BY <1>4, <2>1, <3>1
    <3> HIDE DEF src, dst, w
    <3>5. /\ DOMAIN t = {"blk", "pc", "env", "regs", "stack", "words", "effects", "end", "val"}
          /\ t.end = "running" /\ t.blk = 0 /\ t.pc = k + 1
          /\ t.regs = Insert(s.regs, X(dst), w) /\ t.env = Insert(s.env, dst, w)
      <4>1. X(dst)[1] = "X" /\ X(dst)[2] = dst
        BY DEF X
      <4> QED
        BY <2>1, <4>1 DEF Next1, write_reg
    <3> HIDE DEF t, c
    <3>6. ASSUME NEW r \in Nat
          PROVE  read_reg(t, X(r)) = c.x[r] /\ resolve_value(t, r) = c.x[r]
      <4>1. X(r) = X(dst) <=> r = dst
        BY DEF X
      <4>2. read_reg(t, X(r)) = IF r = dst THEN w ELSE read_reg(s, X(r))
        BY <3>5, <4>1 DEF read_reg, Insert
      <4>3. resolve_value(t, r) = IF r = dst THEN w ELSE resolve_value(s, r)
        BY <3>5, <4>2 DEF resolve_value, Insert
      <4> QED
        BY <2>1, <3>4, <4>2, <4>3
    <3>7. Mirrors(t, c, k)
      BY <3>4, <3>5, <3>6 DEF Mirrors
    <3> QED
      BY <3>2, <3>3, <3>7 DEF i
  <2>4. CASE i.op = 40
    <3> DEFINE src == i.args[1].n
               c == [b EXCEPT !.end = "throw", !.val = b.x[src]]
    <3>1. src \in Nat
      BY <1>1, <2>4
    <3>2. Does(b, i) = c
      BY <1>4, <2>4 DEF Does
    <3>3. Stepped(g, s) = End(s, "throw", b.x[src])
      <4>1. Became(i).kind = "Throw" /\ Became(i).ids[1] = src
        BY <2>4 DEF Became, Throw, Inst
      <4>2. named(s, Became(i), 1) = b.x[src]
        BY <2>1, <3>1, <4>1 DEF named
      <4> QED
        BY <2>2, <4>1, <4>2, StepThrow
    <3>4. DOMAIN c = {"x", "end", "val"} /\ c.end = "throw" /\ c.val = b.x[src]
      BY <2>1
    <3>5. End(s, "throw", b.x[src]).end = "throw" /\ End(s, "throw", b.x[src]).val = b.x[src]
      BY <2>1 DEF End
    <3> HIDE DEF c, src
    <3> QED
      BY <3>2, <3>3, <3>4, <3>5 DEF Mirrors, i
  <2>5. CASE i.op = 1
    <3>1. Does(b, i) = b
      BY <1>4, <2>5 DEF Does
    <3>2. Became(i).kind = "Nop"
      BY <2>5 DEF Became, Inst
    <3>3. "Nop" \notin Acting \union Evaluated
      BY DEF Acting, Evaluated, ArithmeticKinds, ComparisonKinds, TestKinds, Results, Passing
    <3>4. Stepped(g, s) = Next1(s)
      BY <2>2, <3>2, <3>3, StepQuiet
    <3> DEFINE t == Next1(s)
    <3>5. /\ DOMAIN t = {"blk", "pc", "env", "regs", "stack", "words", "effects", "end", "val"}
          /\ t.end = "running" /\ t.blk = 0 /\ t.pc = k + 1
          /\ t.regs = s.regs /\ t.env = s.env
      BY <2>1 DEF Next1
    <3> HIDE DEF t
    <3>6. \A r \in Nat : read_reg(t, X(r)) = b.x[r] /\ resolve_value(t, r) = b.x[r]
      BY <2>1, <3>5 DEF read_reg, resolve_value
    <3>7. Mirrors(t, b, k)
      BY <1>4, <2>1, <3>5, <3>6 DEF Mirrors
    <3> QED
      BY <3>1, <3>4, <3>7 DEF i, t
  <2> QED
    BY <1>1, <2>3, <2>4, <2>5
<1> QED
  BY <1>3, <1>4

\* The translation ends as the BEAM code does, as long as the fuel lasts.
LEMMA PlainOutcome ==
    ASSUME NEW p, p.code \in Seq([op : Nat, args : Seq([o : DOMAIN FirstId, n : Int])]),
           p.arity \in Nat, Plainly(p), Len(p.code) < Fuel, NEW args, Len(args) \in Nat
    PROVE  LET r == Thrown(p, args)
               out == Outcome(translate_beam_function(p.arity, p.code), args)
           IN  /\ r.end \in {"ok", "throw"} /\ out.end = r.end
               /\ r.end = "throw" => out.val = r.val
<1> DEFINE g == translate_beam_function(p.arity, p.code)
           insts == g.blocks[0].insts
           n == Len(p.code)
<1>1. n \in Nat /\ Fuel \in Nat /\ n + 1 \in 0 .. Fuel /\ n \in 0 .. Fuel
  BY LenProperties, FuelAssumption
<1>2. /\ g.arity = p.arity /\ Len(insts) \in {n, n + 1}
      /\ Len(insts) = n => insts[n].kind = "Throw"
      /\ \A k \in 1 .. n : insts[k] = Became(p.code[k])
      /\ Len(insts) # n => insts[n + 1] = Ret(0)
  BY PlainCode
<1>3. PICK b : BeamRun(p, args, n, b) /\ Thrown(p, args) = b[n]
  BY <1>1, ThrownRuns
<1> HIDE DEF g
<1>4. PICK s : Runs(g, args, Fuel, s) /\ execute(g, args) = s[Fuel]
  BY ExecuteRuns
<1> DEFINE S == {k \in 0 .. n : Mirrors(s[k], b[k], k)}
<1>5. 0 \in S
  <2>1. s[0] = Start(g, args) /\ b[0] = AtEntry(p, args)
    BY <1>3, <1>4 DEF Runs, BeamRun
  <2>2. Mirrors(s[0], b[0], 0)
    BY <1>2, <2>1, MirrorsStart
  <2> QED
    BY <1>1, <2>2
<1>6. ASSUME NEW k \in 1 .. n, k - 1 \in S PROVE k \in S
  <2>1. k \in 1 .. Fuel /\ k \in 0 .. n /\ Len(insts) >= k
    BY <1>1, <1>2
  <2>2. s[k] = Stepped(g, s[k - 1]) /\ b[k] = Does(b[k - 1], p.code[k])
    BY <1>3, <1>4, <2>1 DEF Runs, BeamRun
  <2>3. Mirrors(s[k - 1], b[k - 1], k - 1)
    BY <1>6
  <2>4. Mirrors(Stepped(g, s[k - 1]), Does(b[k - 1], p.code[k]), k)
    BY <1>2, <2>1, <2>3, MirrorsStep
  <2> QED
    BY <2>1, <2>2, <2>4
<1>7. Mirrors(s[n], b[n], n)
  <2> HIDE DEF S, n
  <2>1. 0 .. n \subseteq S /\ n \in 0 .. n
    <3>1. 0 .. n \subseteq S
      BY <1>1, <1>5, <1>6, CountUp
    <3> QED
      BY <1>1, <3>1
  <2> QED
    BY <2>1 DEF S
<1>8. /\ Outcome(g, args).end = s[Fuel].end /\ Outcome(g, args).val = s[Fuel].val
  BY <1>4 DEF Outcome
<1>9. CASE b[n].end = "throw"
  <2>1. s[n].end = "throw" /\ s[n].val = b[n].val
    BY <1>7, <1>9 DEF Mirrors
  <2>2. s[Fuel] = s[n]
    <3>1. s[n].end # "running"
      BY <2>1
    <3> HIDE DEF n
    <3> QED
      BY <1>1, <1>4, <3>1, EndedRests
  <2> QED
    BY <1>3, <1>8, <1>9, <2>1, <2>2 DEF g
<1>10. CASE b[n].end = "ok"
  <2>1. s[n].end = "running" /\ s[n].blk = 0 /\ s[n].pc = n + 1
        /\ DOMAIN s[n] = {"blk", "pc", "env", "regs", "stack", "words", "effects", "end", "val"}
    BY <1>7, <1>10 DEF Mirrors
  <2>2. s[n + 1] = Stepped(g, s[n])
    <3>1. n + 1 \in 1 .. Fuel /\ (n + 1) - 1 = n
      BY <1>1
    <3> QED
      BY <1>4, <3>1 DEF Runs
  <2>3. s[n + 1].end = "ok"
    <3>1. CASE Len(insts) = n
      <4>1. Stepped(g, s[n]) = End(s[n], "ok", nil)
        BY <1>1, <2>1, <3>1 DEF Stepped
      <4> QED
        BY <2>1, <2>2, <4>1 DEF End
    <3>2. CASE Len(insts) # n
      <4>1. insts[n + 1] = Ret(0) /\ ~(n + 1 > Len(insts))
        BY <1>1, <1>2, <3>2
      <4>2. Stepped(g, s[n]) = Step(g, s[n], Ret(0))
        BY <2>1, <4>1 DEF Stepped
      <4>3. Ret(0).kind = "Ret"
        BY DEF Ret, Inst
      <4>4. Step(g, s[n], Ret(0)).end = "ok"
        <5>1. \A w : End(s[n], "ok", w).end = "ok"
          BY <2>1 DEF End
        <5> QED
          BY <4>3, <5>1, StepRet
      <4> QED
        BY <2>2, <4>2, <4>4
    <3> QED
      BY <3>1, <3>2
  <2>4. s[Fuel] = s[n + 1]
    <3> DEFINE m == n + 1
    <3>1. s[m].end # "running" /\ m \in 0 .. Fuel
      BY <1>1, <2>3
    <3> HIDE DEF m
    <3>2. s[Fuel] = s[m]
      BY <1>1, <1>4, <3>1, EndedRests
    <3> QED
      BY <3>2 DEF m
  <2> QED
    BY <1>3, <1>8, <1>10, <2>3, <2>4 DEF g
<1> QED
  BY <1>7, <1>9, <1>10 DEF Mirrors

\* The function of a program was promised what its translation does.
ProgramInv ==
    menu \in Programs =>
        /\ phase # "build"
        /\ promised = Promise(translate_beam_function(menu.arity, menu.code))

LEMMA InitProgram == OptimizerInit => ProgramInv
<1> SUFFICES ASSUME OptimizerInit, menu \in Programs
             PROVE  /\ phase # "build"
                    /\ promised = Promise(translate_beam_function(menu.arity, menu.code))
  BY DEF ProgramInv
<1>1. menu \notin Menus /\ menu # <<>>
  BY OptimizerAssumption
<1>2. PICK p \in Programs : menu = p /\ Ready(translate_beam_function(p.arity, p.code))
  BY <1>1 DEF OptimizerInit, Building
<1> QED
  BY <1>2 DEF Ready

LEMMA StepProgram == TidyInv /\ ProgramInv /\ [OptimizerNext]_ovars => ProgramInv'
<1> SUFFICES ASSUME TidyInv, ProgramInv, [OptimizerNext]_ovars PROVE ProgramInv'
  OBVIOUS
<1>1. phase = "build" => menu \notin Programs
  BY DEF ProgramInv
<1>2. ASSUME NEW g, Emit(g), phase = "build" PROVE ProgramInv'
  BY <1>1, <1>2 DEF Emit, ProgramInv
<1>3. ASSUME phase = "build", EmitTwo \/ EmitOne \/ EmitNone \/ EmitNaming \/ EmitEffect
      PROVE  ProgramInv'
  BY <1>2, <1>3, Zenon DEF EmitTwo, EmitOne, EmitNone, EmitNaming, EmitEffect
<1>4. ASSUME phase = "build", Finish PROVE ProgramInv'
  BY <1>1, <1>4 DEF Finish, ProgramInv
<1>5. ASSUME NEW i \in DOMAIN PassNames, RunPass(PassNames[i]) PROVE ProgramInv'
  BY <1>5 DEF RunPass, ProgramInv
<1>6. ASSUME OptimizeModule PROVE ProgramInv'
  BY <1>6 DEF OptimizeModule, ProgramInv
<1>7. ASSUME UNCHANGED ovars PROVE ProgramInv'
  BY <1>7 DEF ovars, ProgramInv
<1> QED
  BY <1>3, <1>4, <1>5, <1>6, <1>7 DEF OptimizerNext

(* BEAM code that moves registers and throws what one of them holds still   *)
(* throws that word after its translation and any passes: the translator    *)
(* numbers the registers as the interpreter reads them, and no pass takes   *)
(* out what writes one.                                                     *)
THEOREM OptimizerThrowsAsWritten == OptimizerSpec => []ThrowsAsWritten
<1>1. KeptInv /\ ProgramInv => ThrowsAsWritten
  <2> SUFFICES ASSUME KeptInv, ProgramInv, menu \in Programs, Plainly(menu),
                      Len(menu.code) < Fuel, NEW args \in Inputs
               PROVE  LET r == Thrown(menu, args)
                          out == Outcome(f, args)
                      IN  r.end = out.end /\ (r.end = "throw" => r.val = out.val)
    BY DEF ThrowsAsWritten
  <2> DEFINE g == translate_beam_function(menu.arity, menu.code)
             r == Thrown(menu, args)
  <2>1. /\ menu.arity \in Nat /\ Len(args) \in Nat
        /\ menu.code \in Seq([op : Nat, args : Seq([o : DOMAIN FirstId, n : Int])])
    BY OptimizerAssumption
  <2>2. /\ r.end \in {"ok", "throw"} /\ Outcome(g, args).end = r.end
        /\ r.end = "throw" => Outcome(g, args).val = r.val
    BY <2>1, PlainOutcome
  <2>3. Trusted(g)
    BY <2>1, PlainTrusted
  <2>4. phase # "build" /\ promised = Promise(g)
    BY DEF ProgramInv
  <2> HIDE DEF g, r
  <2>5. promised = [a \in Inputs |-> Outcome(g, a)]
    BY <2>3, <2>4 DEF Promise
  <2>6. Trusting /\ promised[args] = Outcome(g, args)
    <3>1. DOMAIN promised # {} /\ promised[args] = Outcome(g, args)
      BY <2>5
    <3>2. promised # <<>>
      BY <3>1
    <3> QED
      BY <2>4, <3>1, <3>2 DEF Trusting
  <2>7. Honours(Outcome(f, args), Outcome(g, args))
    BY <2>6 DEF KeptInv
  <2>8. Outcome(f, args) = Outcome(g, args)
    BY <2>2, <2>7 DEF Honours
  <2> QED
    BY <2>2, <2>8 DEF r
<1> QED
  BY <1>1, InitTidy, StepTidy, InitKept, StepKept, InitProgram, StepProgram, PTL DEF OptimizerSpec

=============================================================================
