----------------------------- MODULE Operations -----------------------------
(***************************************************************************)
(* What the interpreter's instructions compute from words (dala_codegen,   *)
(* interpreter.rs): arithmetic, comparisons, type tests, tuple elements.   *)
(***************************************************************************)
EXTENDS Terms

CONSTANT Heap     \* the objects of the process's heap that arguments point to

Pid == 7

BifOf == [Add |-> "+", Sub |-> "-", Mul |-> "*", Div |-> "div", Rem |-> "rem"]

\* Seeded fault: division rounds down.
X_Arith(kind, v, w) ==
    IF ~is_small(v) THEN nil
    ELSE IF kind = "Neg" THEN small(-get_small(v))
    ELSE IF ~is_small(w) THEN nil
    ELSE IF kind = "Div" /\ get_small(w) # 0 THEN small(get_small(v) \div get_small(w))
    ELSE IF kind = "Rem" /\ get_small(w) # 0 THEN small(get_small(v) % Abs(get_small(w)))
    ELSE Calculate(BifOf[kind], get_small(v), get_small(w)).val

\* bif_add .. bif_neg: nil for anything but integers, and for a zero divisor.
Arith(kind, v, w) ==
    IF ~is_small(v) THEN nil
    ELSE IF kind = "Neg" THEN small(-get_small(v))
    ELSE IF ~is_small(w) THEN nil
    ELSE LET r == Calculate(BifOf[kind], get_small(v), get_small(w))
         IN  IF r.how = "ok" THEN r.val ELSE nil

Compare(kind, v, w) ==
    CASE kind = "Eq" -> v = w
      [] kind = "Ne" -> v # w
      [] kind = "Lt" -> Before(v, w)
      [] kind = "Gt" -> Before(w, v)
      [] kind = "Ge" -> ~Before(v, w)
      [] kind = "Le" -> ~Before(w, v)

TestOf == [IsSmallInt |-> "is_integer", IsAtom |-> "is_atom", IsTuple |-> "is_tuple",
           IsStableTuple |-> "is_tuple", IsList |-> "is_list", IsFloat |-> "is_float",
           IsBinary |-> "is_binary", IsFun |-> "is_function", IsPid |-> "is_pid",
           IsMap |-> "is_map"]

\* Messages, actors, tensors and capabilities are never recognised.
Test(kind, w) ==
    CASE kind \in DOMAIN TestOf -> Holds(Heap, TestOf[kind], w)
      [] kind = "IsNil"         -> w = nil
      [] kind = "IsTrue"        -> w = true
      [] kind = "IsFalse"       -> w = false
      [] OTHER                  -> FALSE

Dereferences(kind) == kind \in DOMAIN TestOf /\ TestOf[kind] \in ReadsHeader

truthy(w) == w # raw(0) /\ w \notin {nil, false}

TupleGet(w, i) ==
    IF is_tuple(Heap, w) /\ i < HeaderArity(Object(Heap, w)[1]) THEN Object(Heap, w)[i + 2] ELSE nil
=============================================================================
