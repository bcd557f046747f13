------------------------------- MODULE Types -------------------------------
(***************************************************************************)
(* The set-theoretic type lattice of the IR (dala_ir, type_system.rs and   *)
(* the complexity measures of type_system_profiling.rs).                   *)
(*                                                                         *)
(* The match arms of the code are tried in order.  They are kept apart     *)
(* here by the pair of kinds they are about: extremes, constants, pairs of *)
(* one structured kind, and the wrapping kinds, of which the one that      *)
(* comes first in the code decides.                                        *)
(***************************************************************************)
EXTENDS TypeForms, Integers, Sequences, FiniteSets, FiniteSetsExt

LOCAL SX == INSTANCE SequencesExt

\* The kinds that wrap other types, in the order their arms are tried.
Wrappers == <<"Union", "Intersection", "Difference", "Dynamic", "RecursiveVar",
              "Speculative">>
WrapperKinds == {Wrappers[i] : i \in DOMAIN Wrappers}
Wrapped(s, t) == {i \in DOMAIN Wrappers : Wrappers[i] \in {s.k, t.k}}
Leading(s, t) == Wrappers[Min(Wrapped(s, t))]

Both(s, t, kind)     == s.k = kind /\ t.k = kind
Kinds(s, t, pair)    == {s.k, t.k} = pair
\* The operand of that kind, the left one first, and the other operand.
Pick(s, t, kind)     == IF s.k = kind THEN s ELSE t
Other(s, t, kind)    == IF s.k = kind THEN t ELSE s
Arity(t)             == IF t.k = "Tuple" THEN t.arity ELSE Len(t.elems)

\* Integer kinds from the narrowest to the widest.
IntRank == [NonNegInt |-> 0, SmallInt |-> 1, Int64 |-> 2]
IsIntKind(t) == t.k \in DOMAIN IntRank
Wider(s, t)    == IF IntRank[s.k] >= IntRank[t.k] THEN s ELSE t
Narrower(s, t) == IF IntRank[s.k] <= IntRank[t.k] THEN s ELSE t

\* impl From<ConstantValue> for IRType
General(c) ==
    CASE c.k = "Int"   -> T("SmallInt")
      [] c.k = "Atom"  -> T("Atom")
      [] c.k = "Nil"   -> T("Nil")
      [] c.k = "Float" -> T("Float")
      [] OTHER         -> T("Boolean")

RECURSIVE ContainsConstant(_, _)
ContainsConstant(t, c) ==
    \/ t.k \in {"Any", "Dynamic"}
    \/ t.k \in {"SmallInt", "Int64"} /\ c.k = "Int"
    \/ t.k = "NonNegInt" /\ c.k = "Int" /\ c.v >= 0
    \/ t.k = "Boolean" /\ c.k \in {"True", "False"}
    \/ t.k \in {"Atom", "Nil", "Float"} /\ c.k = t.k
    \/ t.k = "Union" /\ (ContainsConstant(t.a, c) \/ ContainsConstant(t.b, c))

RECURSIVE Join(_, _), Meet(_, _), Contains(_, _)

-----------------------------------------------------------------------------
(* join: the least upper bound, taken where control flow merges.           *)

JoinConstant(s, t) ==
    IF Both(s, t, "Constant")
    THEN Join(General(s.c), General(t.c))
    ELSE LET c == Pick(s, t, "Constant").c
             g == Other(s, t, "Constant")
         IN  IF ContainsConstant(g, c) THEN g ELSE T("Any")

JoinTuples(s, t) ==
    IF Both(s, t, "StableTuple") /\ Len(s.elems) = Len(t.elems)
    THEN Stable([i \in DOMAIN s.elems |-> Join(s.elems[i], t.elems[i])],
                s.immutable /\ t.immutable)
    ELSE Tuple(Max({Arity(s), Arity(t)}))

\* Seeded fault: the lower priority is kept.
X_JoinMessage(s, t) ==
    Message(Join(s.payload, t.payload), Min({s.priority, t.priority}))

JoinMessage(s, t) ==
    Message(Join(s.payload, t.payload), Max({s.priority, t.priority}))

JoinActor(s, t) ==
    Actor(s.accepts \union t.accepts, Max({s.lifecycle, t.lifecycle}))

\* The shapes are zipped: the longer one loses its last dimensions.
JoinTensor(s, t) ==
    IF s.dtype # t.dtype THEN T("Any")
    ELSE Tensor(s.dtype,
                [i \in DOMAIN s.shape \intersect DOMAIN t.shape |->
                    IF -1 \in {s.shape[i], t.shape[i]} THEN -1
                    ELSE Max({s.shape[i], t.shape[i]})])

JoinCap(s, t) ==
    IF s.resource # t.resource THEN T("Any")
    ELSE Cap(s.resource, s.owned \/ t.owned, s.shareable \/ t.shareable)

JoinMaps(s, t) ==
    IF Both(s, t, "MapShape") /\ s.keys = t.keys
    THEN MapShape(s.keys, [i \in DOMAIN s.values |-> Join(s.values[i], t.values[i])])
    ELSE T("Map")

\* Join of a and t on the side of t the wrapper stands on.
JoinAt(left, a, t) == IF left THEN Join(a, t) ELSE Join(t, a)

JoinWrapped(s, t) ==
    LET kind == Leading(s, t)
        left == s.k = kind
        w    == Pick(s, t, kind)
        o    == Other(s, t, kind)
    IN  CASE kind = "Union"        -> JoinAt(left, Join(w.a, w.b), o)
          [] kind = "Intersection" -> Meet(JoinAt(left, w.a, o), JoinAt(left, w.b, o))
          [] kind = "Difference"   -> Difference(JoinAt(left, w.a, o), w.b)
          [] kind = "Dynamic"      -> T("Any")
          [] kind = "RecursiveVar" ->
                 IF left /\ w.bound # <<>> THEN Join(w.bound[1], o)
                 ELSE IF t.k = kind /\ t.bound # <<>> THEN Join(s, t.bound[1])
                 ELSE T("Any")
          [] kind = "Speculative"  -> JoinAt(left, w.actual, o)

JoinPlain(s, t) ==
    CASE IsIntKind(s) /\ IsIntKind(t)                        -> Wider(s, t)
      [] Kinds(s, t, {"Nil", "Cons"})                        -> T("List")
      [] {s.k, t.k} \subseteq {"Tuple", "StableTuple"}        -> JoinTuples(s, t)
      [] Both(s, t, "Message")                               -> JoinMessage(s, t)
      [] Both(s, t, "Actor")                                 -> JoinActor(s, t)
      [] Both(s, t, "Tensor")                                -> JoinTensor(s, t)
      [] Both(s, t, "Capability")                            -> JoinCap(s, t)
      [] "MapShape" \in {s.k, t.k} /\ {s.k, t.k} \subseteq {"Map", "MapShape"}
                                                             -> JoinMaps(s, t)
      [] OTHER                                               -> T("Any")

Join(s, t) ==
    IF s = t \/ t.k = "Bottom"          THEN s
    ELSE IF s.k = "Bottom"              THEN t
    ELSE IF "Any" \in {s.k, t.k}        THEN T("Any")
    ELSE IF "Constant" \in {s.k, t.k}   THEN JoinConstant(s, t)
    ELSE IF Wrapped(s, t) # {}          THEN JoinWrapped(s, t)
    ELSE JoinPlain(s, t)

-----------------------------------------------------------------------------
(* meet: the greatest lower bound, taken where a test has succeeded.       *)

MeetConstant(s, t) ==
    IF Both(s, t, "Constant") THEN T("Bottom")
    ELSE LET c == Pick(s, t, "Constant").c
         IN  IF ContainsConstant(Other(s, t, "Constant"), c)
             THEN Constant(c) ELSE T("Bottom")

MeetTuples(s, t) ==
    IF Arity(s) # Arity(t) THEN T("Bottom")
    ELSE IF Both(s, t, "StableTuple")
         THEN Stable([i \in DOMAIN s.elems |-> Meet(s.elems[i], t.elems[i])],
                     s.immutable \/ t.immutable)
         ELSE Tuple(Arity(s))

MeetMessage(s, t) ==
    Message(Meet(s.payload, t.payload), Min({s.priority, t.priority}))

MeetActor(s, t) ==
    Actor(s.accepts \intersect t.accepts, Min({s.lifecycle, t.lifecycle}))

MeetTensor(s, t) ==
    IF s.dtype # t.dtype \/ Len(s.shape) # Len(t.shape) THEN T("Bottom")
    ELSE Tensor(s.dtype,
                [i \in DOMAIN s.shape |->
                    IF -1 \in {s.shape[i], t.shape[i]} THEN -1
                    ELSE Min({s.shape[i], t.shape[i]})])

MeetCap(s, t) ==
    IF s.resource # t.resource THEN T("Bottom")
    ELSE Cap(s.resource, s.owned /\ t.owned, s.shareable /\ t.shareable)

MeetMaps(s, t) ==
    IF ~Both(s, t, "MapShape") THEN Pick(s, t, "MapShape")
    ELSE IF s.keys # t.keys THEN T("Bottom")
    ELSE MapShape(s.keys, [i \in DOMAIN s.values |-> Meet(s.values[i], t.values[i])])

MeetAt(left, a, t) == IF left THEN Meet(a, t) ELSE Meet(t, a)

MeetWrapped(s, t) ==
    LET kind == Leading(s, t)
        left == s.k = kind
        w    == Pick(s, t, kind)
        o    == Other(s, t, kind)
    IN  CASE kind = "Union"        -> Join(MeetAt(left, w.a, o), MeetAt(left, w.b, o))
          [] kind = "Intersection" -> Meet(MeetAt(left, w.a, o), MeetAt(left, w.b, o))
          [] kind = "Difference"   -> Difference(MeetAt(left, w.a, o), w.b)
          [] kind = "Dynamic"      -> o
          [] kind = "RecursiveVar" ->
                 IF Both(s, t, kind) /\ <<>> \notin {s.bound, t.bound}
                 THEN Meet(s.bound[1], t.bound[1])
                 ELSE IF left /\ w.bound # <<>> THEN Meet(w.bound[1], o)
                 ELSE IF t.k = kind /\ t.bound # <<>> THEN Meet(t.bound[1], s)
                 ELSE T("Bottom")
          [] kind = "Speculative"  ->
                 IF Both(s, t, kind)
                 THEN Speculative(Meet(s.assumed, t.assumed), Join(s, t), [g |-> "Trivial"])
                 ELSE MeetAt(left, w.assumed, o)

MeetPlain(s, t) ==
    CASE IsIntKind(s) /\ IsIntKind(t)                        -> Narrower(s, t)
      [] "List" \in {s.k, t.k} /\ {s.k, t.k} \intersect {"Nil", "Cons"} # {}
                                                             -> Other(s, t, "List")
      [] {s.k, t.k} \subseteq {"Tuple", "StableTuple"}        -> MeetTuples(s, t)
      [] Both(s, t, "Message")                               -> MeetMessage(s, t)
      [] Both(s, t, "Actor")                                 -> MeetActor(s, t)
      [] Both(s, t, "Tensor")                                -> MeetTensor(s, t)
      [] Both(s, t, "Capability")                            -> MeetCap(s, t)
      [] "MapShape" \in {s.k, t.k} /\ {s.k, t.k} \subseteq {"Map", "MapShape"}
                                                             -> MeetMaps(s, t)
      [] OTHER -> IF Contains(s, t) THEN t
                  ELSE IF Contains(t, s) THEN s ELSE T("Bottom")

Meet(s, t) ==
    IF s = t \/ t.k = "Any"             THEN s
    ELSE IF "Bottom" \in {s.k, t.k}     THEN T("Bottom")
    ELSE IF s.k = "Any"                 THEN t
    ELSE IF "Constant" \in {s.k, t.k}   THEN MeetConstant(s, t)
    ELSE IF Wrapped(s, t) # {}          THEN MeetWrapped(s, t)
    ELSE MeetPlain(s, t)
-----------------------------------------------------------------------------
(* contains: is every value of t a value of s?                             *)

\* Same-kind pairs whose parameters are compared.
ContainsSame(s, t) ==
    CASE s.k = "StableTuple" ->
             Len(s.elems) = Len(t.elems)
             /\ \A i \in DOMAIN s.elems : Contains(s.elems[i], t.elems[i])
      [] s.k = "Message" ->
             Contains(s.payload, t.payload) /\ s.priority >= t.priority
      [] s.k = "Actor" ->
             s.lifecycle = t.lifecycle /\ t.accepts \subseteq s.accepts
      [] s.k = "Tensor" ->
             /\ s.dtype = t.dtype /\ Len(s.shape) = Len(t.shape)
             /\ \A i \in DOMAIN s.shape : s.shape[i] \in {-1, t.shape[i]}
      [] s.k = "Capability" ->
             s.resource = t.resource /\ (t.owned => s.owned) /\ (t.shareable => s.shareable)
      [] s.k = "MapShape" ->
             s.keys = t.keys /\ \A i \in DOMAIN s.values : Contains(s.values[i], t.values[i])
      [] OTHER -> FALSE

\* Seeded fault: what a difference takes away is not looked at.
X_ContainsWrapped(s, t) ==
    CASE s.k = "Union"        -> Contains(s.a, t) \/ Contains(s.b, t)
      [] s.k = "Intersection" -> Contains(s.a, t) /\ Contains(s.b, t)
      [] s.k = "Difference"   -> Contains(s.a, t)
      [] s.k = "Dynamic"      -> TRUE
      [] s.k = "RecursiveVar" -> s.bound # <<>> /\ Contains(s.bound[1], t)
      [] s.k = "Speculative"  -> Contains(s.assumed, t)

ContainsWrapped(s, t) ==
    CASE s.k = "Union"        -> Contains(s.a, t) \/ Contains(s.b, t)
      [] s.k = "Intersection" -> Contains(s.a, t) /\ Contains(s.b, t)
      [] s.k = "Difference"   -> Contains(s.a, t) /\ Meet(t, s.b).k = "Bottom"
      [] s.k = "Dynamic"      -> TRUE
      [] s.k = "RecursiveVar" -> s.bound # <<>> /\ Contains(s.bound[1], t)
      [] s.k = "Speculative"  -> Contains(s.assumed, t)

Contains(s, t) ==
    \/ s = t \/ s.k = "Any" \/ t.k = "Bottom"
    \/ s.k = "List" /\ t.k \in {"Nil", "Cons"}
    \/ IsIntKind(s) /\ IsIntKind(t) /\ IntRank[s.k] >= IntRank[t.k]
    \/ s.k \in SimpleKinds /\ t.k = "Constant" /\ ContainsConstant(s, t.c)
    \/ s.k = "StableTuple" /\ t.k = "Tuple" /\ Len(s.elems) = t.arity
    \/ s.k = t.k /\ ContainsSame(s, t)
    \/ s.k = "Map" /\ t.k = "MapShape"
    \/ s.k \in WrapperKinds /\ ContainsWrapped(s, t)

-----------------------------------------------------------------------------
(* normalize: flatten a union and drop the alternatives another contains.  *)

RECURSIVE Alternatives(_)
Alternatives(t) ==
    IF t.k = "Union" THEN Alternatives(t.a) \o Alternatives(t.b) ELSE <<t>>

\* One alternative joins the kept ones unless one of them contains it; those
\* it contains leave.
Absorb(kept, t) ==
    IF \E s \in kept : Contains(s, t) THEN kept
    ELSE {s \in kept : ~Contains(t, s)} \union {t}

RECURSIVE Normalize(_)
\* The alternatives are left in an order that depends on the set alone, as the
\* code's sort by their printed form does.
Normalize(t) ==
    LET alts == Alternatives(t)
        kept == SX!FoldLeft(LAMBDA acc, s : Absorb(acc, Normalize(s)), {}, alts)
        sorted == SX!SetToSeq(kept)
    IN  IF Len(alts) = 1 THEN t
        ELSE SX!FoldLeft(Union, Head(sorted), Tail(sorted))

-----------------------------------------------------------------------------
(* Exhaustiveness and the rest type of a match.                            *)

IsExhaustive(t, patterns) ==
    IF patterns = <<>> THEN t.k = "Bottom"
    ELSE Contains(SX!FoldLeft(Join, Head(patterns), Tail(patterns)), t)

Subtract(t, p) ==
    IF p.k = "Any" THEN T("Bottom")
    ELSE IF "Bottom" \in {p.k, t.k} THEN t
    ELSE IF t = p THEN T("Bottom")
    ELSE IF Contains(t, p) THEN Difference(t, p)
    ELSE t

\* Stopping at Bottom changes nothing: Subtract leaves Bottom as it is.
UncoveredBy(t, patterns) == SX!FoldLeft(Subtract, t, patterns)

-----------------------------------------------------------------------------
(* Complexity of a type, by the parts walk_complexity descends into.       *)

Parts(t) ==
    CASE t.k \in {"Union", "Intersection", "Difference"} -> <<t.a, t.b>>
      [] t.k = "Message"      -> <<t.payload>>
      [] t.k = "StableTuple"  -> t.elems
      [] t.k = "MapShape"     -> t.values
      [] t.k = "Actor"        -> SX!SetToSeq(t.accepts)
      [] t.k = "RecursiveVar" -> t.bound
      [] t.k = "Speculative"  -> <<t.assumed, t.actual>>
      [] OTHER                -> <<>>

RECURSIVE Depth(_)
Depth(t) == 1 + Max({0} \union {Depth(Parts(t)[i]) : i \in DOMAIN Parts(t)})

=============================================================================
