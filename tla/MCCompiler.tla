----------------------------- MODULE MCCompiler -----------------------------
(***************************************************************************)
(* The compiler for TLC.  A behaviour moves one thing: the type of a       *)
(* variable along a path, a function on its way through the passes, or a   *)
(* value through calls of built-in functions.  The three share operators   *)
(* and no state, so that `tier` picks the one that moves.                  *)
(***************************************************************************)
EXTENDS TypeFlow, Inference, Words

CONSTANT Tiers

VARIABLE tier
compilerVars == <<tier, tvars, ovars, wvars>>

-----------------------------------------------------------------------------
(* Words: a pair, a list of two elements, a float and a map on the heap;   *)
(* the address of the float has the bits of an atom.                       *)

Pair      == Word(5, 0, 0, 1, 0)
FirstCell == Word(5, 0, 0, 2, 0)
LastCell  == Word(5, 0, 0, 3, 0)
Number    == Word(5, 3, 0, 4, 0)
Entries   == Word(5, 0, 0, 5, 0)
MCHeap == Pair      :> <<header(0, 2), small(1), small(2)>>
       @@ FirstCell :> <<small(3), cons(LastCell)>>
       @@ LastCell  :> <<boxed(Pair), nil>>
       @@ Number    :> <<header(3, 1), raw(0)>>
       @@ Entries   :> <<header(8, 0)>>

FloatV == [k |-> "float"]
MapV   == [k |-> "map"]
Short  == ListV(<<TupleV(2)>>)
Long   == ListV(<<IntV(3), TupleV(2)>>)
MCObjects == TupleV(2) :> Pair @@ Long :> cons(FirstCell) @@ Short :> cons(LastCell)
          @@ FloatV :> Number @@ MapV :> Entries
MCValues == {IntV(-3), IntV(2), IntV(0), IntV(3), AtomV(6), AtomV(1), NilV, BoolV(TRUE),
             TupleV(2), Long, Short, FloatV, MapV}

MCInputs == {<<small(-3), small(2)>>, <<small(0), small(0)>>, <<atom(6), Pair>>}

-----------------------------------------------------------------------------
(* Functions of one block: arithmetic with a constant, with a repeated     *)
(* negation, tests with tuple accesses, effects, chains of dead values.    *)

Menu(two, one, none, naming, effects, limit) ==
    [two |-> two, one |-> one, none |-> none, naming |-> naming, effects |-> effects,
     limit |-> limit]
MCMenus ==
    {Menu({"Sub"}, {}, {Numbered("ConstSmallInt", 2)}, {}, {}, 2),
     Menu({"Add"}, {"Neg"}, {}, {}, {}, 2),
     Menu({}, {"IsTuple", "IsTrue"}, {}, {Numbered("TupleGet", 9)}, {}, 2),
     Menu({}, {}, {Numbered("Alloc", 2), Inst("Pop")}, {Inst("Call")},
          {Inst("Push"), Numbered("ConsumeReductions", 1)}, 2),
     Menu({}, {"Neg"}, {}, {}, {}, 3)}

\* Graphs of blocks: a diamond, branches that meet again, chains of jumps
\* across dead blocks, one of them backwards, a call of a built-in function,
\* and n dead values each computed from the one before.
Graph(blocks) == [arity |-> 2, blocks |-> [b \in 0 .. Len(blocks) - 1 |-> blocks[b + 1]]]
Result2(kind, vs, v) == WithResult(WithOperands(Inst(kind), vs), v)
Back(v) == Complete(Ret(v))
Fork(v) == Complete(BrIf(v, 1, 2))
Args == <<WithResult(GetReg(X(0)), 0), WithResult(GetReg(X(1)), 1)>>

Diamond(test) == Graph(<<
    Block(Args \o <<test, Fork(2)>>, {}, <<1, 2>>),
    Block(<<Result2("Add", <<0, 1>>, 3), Back(3)>>, {0}, <<>>),
    Block(<<Result2("Sub", <<0, 1>>, 4), Back(4)>>, {0}, <<>>)>>)
Meeting(test) == Graph(<<
    Block(Args \o <<test, Fork(2)>>, {}, <<1, 2>>),
    Block(<<Complete(SetReg(X(2), 0)), Br(4)>>, {0}, <<4>>),
    Block(<<Complete(SetReg(X(2), 1)), Br(4)>>, {0}, <<4>>),
    Block(<<Back(0)>>, {}, <<>>),
    Block(<<WithResult(GetReg(X(2)), 5), Back(5)>>, {1, 2}, <<>>)>>)
Jumps == Graph(<<
    Block(Args \o <<Br(2)>>, {}, <<2>>),
    Block(<<Back(1)>>, {}, <<>>),
    Block(<<Complete(Naming("Push", <<1>>)), Br(4)>>, {0}, <<4>>),
    Block(<<Back(1)>>, {}, <<>>),
    Block(<<Result2("Neg", <<0>>, 3), Back(3)>>, {2}, <<>>)>>)
Backwards == Graph(<<
    Block(Args \o <<Br(6)>>, {}, <<6>>),
    Block(<<Back(1)>>, {}, <<>>),
    Block(<<Complete(Naming("Push", <<1>>)), Br(4)>>, {6}, <<4>>),
    Block(<<Back(1)>>, {}, <<>>),
    Block(<<Result2("Neg", <<0>>, 3), Back(3)>>, {2}, <<>>),
    Block(<<Back(1)>>, {}, <<>>),
    Block(<<Complete(Naming("Push", <<0>>)), Br(2)>>, {0}, <<2>>)>>)
Calls(name) == Graph(<<Block(Args \o
    <<WithResult(Numbered("ConstAtom", get_atom_index(AtomOf("erlang"))), 2),
      WithResult(Numbered("ConstAtom", get_atom_index(AtomOf(name))), 3),
      WithResult(Complete(Naming("CallBif", <<2, 3, 0, 1>>)), 4), Back(4)>>, {}, <<>>)>>)

DeadChain(n) == Graph(<<Block(
    Args \o <<Result2("Neg", <<0>>, 2)>>
         \o [i \in 1 .. n - 2 |-> Result2("Neg", <<i + 1>>, i + 2)] \o <<Back(1)>>, {}, <<>>)>>)

MCGraphs ==
    {DeadChain(10), Diamond(Result2("Lt", <<0, 1>>, 2)), Diamond(Result2("IsSmallInt", <<1>>, 2)),
     Meeting(Result2("IsAtom", <<0>>, 2)), Jumps, Backwards, Calls("*"), Calls("==")}

\* BEAM code: two instructions and a throw, and every opcode on its own.
Steps == {Beam(0, <<XR(0), XR(1)>>), Beam(0, <<XR(1), XR(2)>>), Beam(0, <<XR(2), XR(0)>>),
          Beam(0, <<XR(1), YR(0)>>), Beam(1, <<>>), Beam(43, <<>>),
          Beam(82, <<XR(0), XR(1), IntOp(1), XR(0)>>), Beam(37, <<XR(0), XR(1), IntOp(9)>>)}
MCPrograms ==
    {[arity |-> 2, code |-> <<a, b, Beam(40, <<XR(n)>>)>>] : a, b \in Steps, n \in 0 .. 2}
    \union {[arity |-> 1, code |-> <<Beam(n, <<XR(0), XR(1), IntOp(1)>>)>>] : n \in 0 .. 184}

-----------------------------------------------------------------------------
(* Types: families that meet in a match arm, and the values they tell      *)
(* apart: integers by sign, constants, tuples, maps, messages, actors,     *)
(* tensors and capabilities.                                               *)

Trivial == [g |-> "Trivial"]
MCPools ==
    {{T(k) : k \in {"Any", "SmallInt", "NonNegInt", "Boolean", "Nil", "List"}}
     \union {Constant(c) : c \in {IntC(0), T("Nil"), T("True"), T("False")}}
     \union {Union(T("NonNegInt"), Union(T("SmallInt"), T("Nil")))},
     {T(k) : k \in {"SmallInt", "NonNegInt", "Nil", "Cons", "List"}}
     \union {Union(T("SmallInt"), T("Pid")), Binary("Intersection", T("Int64"), T("NonNegInt")),
             RecVar(0, <<T("List")>>), RecVar(1, <<T("Nil")>>),
             Speculative(T("NonNegInt"), T("SmallInt"), Trivial),
             Speculative(T("SmallInt"), T("Int64"), Trivial), Constant(IntC(0)),
             Constant(T("Nil"))},
     {T("Any"), Stable(<<T("SmallInt"), T("Nil")>>, TRUE), Stable(<<T("NonNegInt"), T("List")>>, FALSE),
      Stable(<<T("Nil")>>, TRUE), Tuple(1), Tuple(2),
      Message(T("SmallInt"), 1), Message(T("NonNegInt"), 2), Actor({T("Nil")}, 1),
      Actor({T("Nil"), T("Pid")}, 3), Union(Message(T("SmallInt"), 2), Actor({T("Pid")}, 3))},
     {T("Any"), T("Dynamic"), Fun(1), Tuple(2), T("Int64"), T("Map"), MapShape(<<1>>, <<T("SmallInt")>>),
      MapShape(<<1>>, <<T("NonNegInt")>>), MapShape(<<2>>, <<T("Nil")>>)},
     {T("Any"), Tensor("F32", <<2, -1>>), Tensor("F32", <<2, 3>>), Tensor("F32", <<2, 4>>),
      Tensor("F32", <<2>>), Tensor("I8", <<2>>),
      Cap("Gpu", TRUE, FALSE), Cap("Gpu", FALSE, TRUE), Cap("Io", TRUE, TRUE)}}

MCAvoided == Misjudgements

Elements == {<<T("Nil")>>, <<IntC(0), T("Nil")>>, <<IntC(-1), T("Nil")>>, <<IntC(0), T("Cons")>>,
             <<T("Nil"), T("Nil")>>}
MapValue(ks, vs) == [k |-> "Map", keys |-> ks, values |-> vs]
MCUniverse ==
    {IntC(0), IntC(-1), T("BigInt"), AtomC(1), AtomC(2), T("True"), T("False"), T("Nil"),
     T("Cons"), T("Pid"), Fun(1), Fun(2)}
    \union [k : {"Tuple"}, elems : Elements]
    \union [k : {"Message"}, payload : {IntC(0), IntC(-1)}, priority : 0 .. 2]
    \union [k : {"Actor"}, accepts : SUBSET {T("Nil"), T("Pid")}, lifecycle : 0 .. 3]
    \union {Tensor(d, s) : d \in {"F32", "I8"}, s \in {<<2, 3>>, <<2, 4>>, <<2>>}}
    \union {Cap(r, o, s) : r \in {"Gpu", "Io"}, o, s \in BOOLEAN}
    \union {MapValue(<<>>, <<>>), MapValue(<<1>>, <<IntC(0)>>), MapValue(<<1>>, <<IntC(-1)>>),
            MapValue(<<2>>, <<T("Nil")>>)}

-----------------------------------------------------------------------------
(* What the properties leave out is what the code gets wrong, and no more    *)
(* than a finding each: the kinds of types it misjudges, the built-in        *)
(* functions that are not what their names say, chains longer than the       *)
(* rounds.  TLC evaluates these on every run.                                *)

Meaning(t) == {v \in Universe : Has(t, v)}

\* Of the pair, which a join, a meet or an answer of contains loses a value of.
Misjudged(m, s, t) ==
    \/ m \in JoinMisjudges(s, t) /\ ~(Meaning(s) \union Meaning(t) \subseteq Meaning(Join(s, t)))
    \/ m \in MeetMisjudges(s, t) /\ ~(Meaning(s) \intersect Meaning(t) \subseteq Meaning(Meet(s, t)))
    \/ m \in ContainsMisjudges(s, t) /\ Contains(s, t) /\ ~(Meaning(t) \subseteq Meaning(s))

\* Two types of a family, or what a failed arm has left of a type and another.
ASSUME MisjudgedForCause ==
    \A m \in Misjudgements : \E types \in Pools : \E s, t \in types :
        Misjudged(m, s, t) \/ \E arm \in types : Misjudged(m, UncoveredBy(s, <<arm>>), t)

ASSUME OpaqueForCause ==
    \A kind \in Opaque : \E types \in Pools : \E c, s, arm \in types :
        \E t \in {s, UncoveredBy(s, <<arm>>)} :
            c.k = "Constant" /\ t.k = kind /\ Misjudged("constants", t, c)

ASSUME MisnamedForCause ==
    \A g \in DOMAIN KindsOf, v \in Values :
        Misnamed(g, v) => Bif(Heap, Pid, g, <<encode(v)>>) # Ok(bool(v.k \in KindsOf[g]))

ASSUME LongChainsForCause ==
    LET chain == DeadChain(MaxRounds + 1)
        once  == optimize(chain)
    IN  ~ShortChains(chain) /\ optimize(once) # once

-----------------------------------------------------------------------------
TypesIdle     == pool = {} /\ ty = T("Any") /\ vals = {}
FunctionsIdle == /\ menu = <<>> /\ phase = "build" /\ f = Front /\ source = Front
                 /\ promised = <<>> /\ told = FALSE
WordsIdle     == val = NilV /\ word = encode(NilV) /\ meant = "ok" /\ ended = "ok"

Init ==
    /\ tier \in Tiers
    /\ \/ tier = "types"     /\ TypeFlowInit  /\ FunctionsIdle /\ WordsIdle
       \/ tier = "functions" /\ OptimizerInit /\ TypesIdle /\ WordsIdle
       \/ tier = "words"     /\ WordsInit     /\ TypesIdle /\ FunctionsIdle

Next ==
    /\ UNCHANGED tier
    /\ \/ tier = "types"     /\ TypeFlowNext  /\ UNCHANGED <<ovars, wvars>>
       \/ tier = "functions" /\ OptimizerNext /\ UNCHANGED <<tvars, wvars>>
       \/ tier = "words"     /\ WordsNext     /\ UNCHANGED <<tvars, ovars>>

Spec == Init /\ [][Next]_compilerVars
=============================================================================
