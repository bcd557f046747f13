----------------------------- MODULE TypeForms -----------------------------
(***************************************************************************)
(* The types of the IR (dala_ir, type_system.rs).                          *)
(*                                                                         *)
(* A type is a record whose field k names its kind.  Priorities and        *)
(* lifecycles are their ranks: Low .. Critical is 0 .. 3 and Temporary,    *)
(* Transient, Permanent, Supervisor is 0 .. 3.  A dynamic tensor dimension *)
(* is -1, an absent bound is <<>>, and the accepts list of an actor is the *)
(* set of its members.                                                     *)
(***************************************************************************)

T(kind) == [k |-> kind]

SimpleKinds == {"Any", "Bottom", "SmallInt", "NonNegInt", "Int64", "Float",
                "Atom", "Boolean", "Nil", "Cons", "List", "Map", "Binary",
                "Pid", "Port", "Reference", "Dynamic"}

Tuple(n)        == [k |-> "Tuple", arity |-> n]
Stable(ts, imm) == [k |-> "StableTuple", elems |-> ts, immutable |-> imm]
Fun(n)          == [k |-> "Fun", arity |-> n]
Message(p, pr)  == [k |-> "Message", payload |-> p, priority |-> pr]
Actor(ms, lc)   == [k |-> "Actor", accepts |-> ms, lifecycle |-> lc]
Tensor(d, s)    == [k |-> "Tensor", dtype |-> d, shape |-> s]
Cap(r, o, s)    == [k |-> "Capability", resource |-> r, owned |-> o, shareable |-> s]
MapShape(ks, ts) == [k |-> "MapShape", keys |-> ks, values |-> ts]
Constant(v)     == [k |-> "Constant", c |-> v]
Binary(kind, x, y) == [k |-> kind, a |-> x, b |-> y]
Union(x, y)     == Binary("Union", x, y)
Difference(x, y) == Binary("Difference", x, y)
RecVar(i, bnd)  == [k |-> "RecursiveVar", id |-> i, bound |-> bnd]
Speculative(as, ac, g) == [k |-> "Speculative", assumed |-> as, actual |-> ac, guard |-> g]

\* ConstantValue: what is told apart is the sign of an integer and identity.
IntC(n)  == [k |-> "Int", v |-> n]
AtomC(n) == [k |-> "Atom", v |-> n]
=============================================================================
