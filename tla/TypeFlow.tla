------------------------------ MODULE TypeFlow ------------------------------
(***************************************************************************)
(* The type of one variable along a path of the program, beside the values *)
(* the variable can really have there.  The operators of Types are the     *)
(* code; Has, the set of values a type stands for, is the reference        *)
(* meaning the code's documentation gives them.  Types of a value that a   *)
(* test has let through are used as the compiler uses them: a speculative  *)
(* type means its assumed type, because its guard has succeeded.           *)
(*                                                                         *)
(* Some arms of the code lose values.  Each kind is named in Misjudgements *)
(* and reported as a finding, and an assumption of MCCompiler shows it     *)
(* lose one; the properties hold off the pairs those arms are about.       *)
(***************************************************************************)
EXTENDS Types

CONSTANTS
    Pools,       \* families of types; one path uses the types of one family
    Universe,    \* the concrete values told apart
    MaxDepth,    \* bound on the nesting of the type
    Avoided      \* the misjudgements that paths and questions keep away from

VARIABLES pool, ty, vals
tvars == <<pool, ty, vals>>

RECURSIVE Has(_, _)
Has(t, v) ==
    CASE t.k \in {"Any", "Dynamic"} -> TRUE
      [] t.k = "Bottom"       -> FALSE
      [] t.k = "SmallInt"     -> v.k = "Int"
      [] t.k = "NonNegInt"    -> v.k = "Int" /\ v.v >= 0
      [] t.k = "Int64"        -> v.k \in {"Int", "BigInt"}
      [] t.k = "Boolean"      -> v.k \in {"True", "False"}
      [] t.k = "List"         -> v.k \in {"Nil", "Cons"}
      [] t.k = "Constant"     -> v = t.c
      [] t.k = "Tuple"        -> v.k = "Tuple" /\ Len(v.elems) = t.arity
      [] t.k = "StableTuple"  -> v.k = "Tuple" /\ Len(v.elems) = Len(t.elems)
                                 /\ \A i \in DOMAIN t.elems : Has(t.elems[i], v.elems[i])
      [] t.k = "Fun"          -> v.k = "Fun" /\ v.arity = t.arity
      [] t.k = "Message"      -> v.k = "Message" /\ v.priority <= t.priority
                                 /\ Has(t.payload, v.payload)
      [] t.k = "Actor"        -> v.k = "Actor" /\ v.lifecycle <= t.lifecycle
                                 /\ v.accepts \subseteq t.accepts
      [] t.k = "Tensor"       -> v.k = "Tensor" /\ v.dtype = t.dtype
                                 /\ Len(v.shape) = Len(t.shape)
                                 /\ \A i \in DOMAIN t.shape : t.shape[i] \in {-1, v.shape[i]}
      [] t.k = "Capability"   -> v.k = "Capability" /\ v.resource = t.resource
                                 /\ (v.owned => t.owned) /\ (v.shareable => t.shareable)
      [] t.k = "MapShape"     -> v.k = "Map" /\ v.keys = t.keys
                                 /\ \A i \in DOMAIN t.values : Has(t.values[i], v.values[i])
      [] t.k = "Union"        -> Has(t.a, v) \/ Has(t.b, v)
      [] t.k = "Intersection" -> Has(t.a, v) /\ Has(t.b, v)
      [] t.k = "Difference"   -> Has(t.a, v) /\ ~Has(t.b, v)
      [] t.k = "RecursiveVar" -> Has(t.bound[1], v)
      [] t.k = "Speculative"  -> Has(t.assumed, v)
      [] OTHER                -> v.k = t.k

\* The values of each type of the families.
Den == [t \in UNION Pools |-> {v \in Universe : Has(t, v)}]

RECURSIVE Mentions(_, _)
Mentions(t, kind) == t.k = kind \/ \E i \in DOMAIN Parts(t) : Mentions(Parts(t)[i], kind)

-----------------------------------------------------------------------------
(* The pairs of types the code misjudges.                                  *)

Misjudgements == {"tuples", "tensors", "differences", "constants", "stable"}
ASSUME AvoidedAssumption == Avoided \subseteq Misjudgements

\* join: of two lengths the longer stays, as of two dimensions the larger; what
\* a difference takes away stays taken away from the other branch's values.
JoinMisjudges(s, t) ==
    {m \in Misjudgements :
        \/ m = "tuples" /\ {s.k, t.k} \subseteq {"Tuple", "StableTuple"} /\ Arity(s) # Arity(t)
        \/ m = "tensors" /\ Both(s, t, "Tensor") /\ s.dtype = t.dtype
           /\ ~(/\ Len(s.shape) = Len(t.shape)
                /\ \A i \in DOMAIN s.shape : s.shape[i] = t.shape[i] \/ -1 \in {s.shape[i], t.shape[i]})
        \/ m = "differences" /\ (Mentions(s, "Difference") \/ Mentions(t, "Difference"))}

\* meet: no type but a plain one, Any and Dynamic is asked what constants it has.
Opaque == {"List", "Intersection", "Difference", "RecursiveVar", "Speculative"}
MeetMisjudges(s, t) ==
    {m \in Misjudgements :
        m = "constants" /\ \E a, b \in {s, t} :
            /\ a # b /\ Mentions(a, "Constant")
            /\ \/ \E kind \in Opaque : Mentions(b, kind)
               \/ b.k = "Union" /\ Mentions(b, "Constant")}

\* contains: a stable tuple is said to hold every tuple of its length; and a
\* difference asks meet whether what it takes away is apart from the other type.
RECURSIVE Taken(_)
Taken(t) == IF t.k = "Difference" THEN {t.b} \union Taken(t.a) ELSE {}

ContainsMisjudges(s, t) ==
    {m \in Misjudgements :
        \/ m = "stable" /\ Mentions(s, "StableTuple") /\ Mentions(t, "Tuple")
        \/ m = "constants" /\ \E b \in Taken(s) : m \in MeetMisjudges(b, t)}

-----------------------------------------------------------------------------
TypeFlowInit == \E ts \in Pools, t \in UNION Pools : t \in ts /\ pool = ts /\ ty = t /\ vals = Den[t]

\* Another branch that leaves a value of type t joins here.
Merge(t) ==
    /\ JoinMisjudges(ty, t) \intersect Avoided = {}
    /\ Depth(ty) <= MaxDepth
    /\ ty' = Join(ty, t)
    /\ vals' = vals \union Den[t]

\* The arm for p is entered.
Match(p) ==
    /\ MeetMisjudges(ty, p) \intersect Avoided = {}
    /\ Depth(ty) <= MaxDepth + 1
    /\ ty' = Meet(ty, p)
    /\ vals' = vals \intersect Den[p]

\* None of these arms is entered: the rest goes on to the next one.
Miss(arms) ==
    /\ Depth(ty) <= MaxDepth
    /\ ty' = UncoveredBy(ty, arms)
    /\ vals' = vals \ UNION {Den[arms[i]] : i \in DOMAIN arms}

Simplify == ty' = Normalize(ty) /\ UNCHANGED vals

TypeFlowNext ==
    /\ UNCHANGED pool
    /\ \/ \E t \in pool : Merge(t) \/ Match(t)
       \/ \E p, q \in pool : Miss(<<p, q>>)
       \/ Simplify

-----------------------------------------------------------------------------
(* Whatever the branches merged, the arms entered or failed and the          *)
(* normalisations, the static type still covers every value the variable     *)
(* can have (join, meet, subtract and normalize are sound).                  *)
TypeCoversValues == \A v \in vals : Has(ty, v)

(* Where the code concludes that a type contains a pattern's type, so that    *)
(* an earlier alternative absorbs it or an arm is redundant, every value of   *)
(* the pattern is a value of the type (contains is sound).                    *)
ContainsIsSound ==
    \A p \in pool : Contains(ty, p) /\ ContainsMisjudges(ty, p) \intersect Avoided = {}
                        => \A v \in Den[p] : Has(ty, v)

(* A list of arms reported as exhaustive for the type has, for each value     *)
(* the variable can have, an arm that takes it (is_exhaustive).               *)
ExhaustiveCovers ==
    \A p, q \in pool : IsExhaustive(ty, <<p, q>>) => vals \subseteq Den[p] \union Den[q]

=============================================================================
