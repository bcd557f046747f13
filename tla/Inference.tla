----------------------------- MODULE Inference -----------------------------
(***************************************************************************)
(* Type inference (type_inference.rs): the types that the constraints of   *)
(* Passes leave the values of a function.  It needs the meet of types,     *)
(* which is recursive, and stands apart so that the passes do not.         *)
(***************************************************************************)
EXTENDS Optimizer, Types
LOCAL SX == INSTANCE SequencesExt

\* Each constraint puts its value on the worklist once; a value taken from it
\* meets all its constraints.
infer_types(g) ==
    LET all == generate_constraints(g)
        of(v) == SelectSeq(all, LAMBDA c : c[1] = v)
        refine(types, c) ==
            LET old == IF c[1] \in DOMAIN types THEN types[c[1]] ELSE T("Any")
                new == SX!FoldLeft(LAMBDA t, d : Meet(t, d[2]), old, of(c[1]))
            IN  IF new = old THEN types ELSE (c[1] :> new) @@ types
    IN  SX!FoldLeft(refine, <<>>, SubSeq(all, 1, Min({MaxIterations, Len(all)})))

-----------------------------------------------------------------------------
\* Functions whose instructions are all run, and in which no value is only
\* constrained by a test or a name.
Straight(g) ==
    /\ DOMAIN g.blocks = {0}
    /\ \A p \in Places(g) : At(g, p).kind \notin TestKinds \union {"SetReg", "Move", "Narrow"}

Means(t, w) ==
    CASE t.k = "Any"      -> TRUE
      [] t.k = "SmallInt" -> is_small(w)
      [] t.k = "NonNegInt" -> is_small(w) /\ get_small(w) >= 0
      [] t.k = "Constant" -> w = small(t.c.v)
      [] t.k = "Boolean"  -> w \in {true, false}
      [] t.k = "Nil"      -> w = nil
      [] t.k = "Atom"     -> is_atom(w)
      [] OTHER            -> FALSE
IntegersOnly(g, env) ==
    \A p \in Places(g) : At(g, p).kind \in {"Add", "Sub", "Mul"} =>
        \A v \in Range(At(g, p).ops) : Means(T("SmallInt"), env[v])

(* Type inference is right about every value: in a run in which addition,    *)
(* subtraction and multiplication see integers only, each value has the type *)
(* inferred for it.  The pass reports a change when it has inferred a type.  *)
InferredTypesHold ==
    phase = "optimise" =>
        LET types == infer_types(f)
        IN  /\ infer_and_annotate(f).changed <=> \E v \in DOMAIN types : types[v] # T("Any")
            /\ f = source /\ Straight(f) =>
                \A args \in Inputs :
                    LET env == EnvOf(f, args)
                    IN  IntegersOnly(f, env) => \A v \in DOMAIN types : Means(types[v], env[v])
=============================================================================
