------------------------------- MODULE Words -------------------------------
(***************************************************************************)
(* A value of the language beside the tagged word that stands for it,      *)
(* through calls of built-in functions (bif.rs) by their meaning in the    *)
(* language and by their code.  The reason of an exception is caught and   *)
(* is the next value.                                                      *)
(*                                                                         *)
(* A value that lives on the heap is one object: equality compares words   *)
(* (eq_2), so equal tuples at two addresses would not be equal.            *)
(***************************************************************************)
EXTENDS Operations

CONSTANTS
    Values,      \* the values arguments and elements of lists are drawn from
    Objects,     \* the word of each value that lives on the heap
    MaxInt       \* bound on the integers

VARIABLES val, word, meant, ended    \* how the last call should end, and how it did
wvars == <<val, word, meant, ended>>

IntV(n)   == [k |-> "integer", n |-> n]
AtomV(n)  == [k |-> "atom", n |-> n]
BoolV(b)  == [k |-> IF b THEN "true" ELSE "false"]
NilV      == [k |-> "nil"]
ListV(vs) == [k |-> "list", items |-> vs]
TupleV(n) == [k |-> "tuple", n |-> n]

encode(v) ==
    CASE v.k = "integer" -> small(v.n)
      [] v.k = "atom"    -> atom(v.n)
      [] v.k = "true"    -> true
      [] v.k = "false"   -> false
      [] v.k = "nil"     -> nil
      [] OTHER           -> Objects[v]

Rest(v) == IF Len(v.items) = 1 THEN NilV ELSE ListV(Tail(v.items))

Range0 == -MaxInt .. MaxInt

\* Values that have a word.
IsValue(v) ==
    \/ \E n \in Range0 : v = IntV(n)
    \/ v.k = "atom" /\ v.n \in 0 .. 2^24 - 1 /\ v = AtomV(v.n)
    \/ v \in {NilV, BoolV(TRUE), BoolV(FALSE)}
    \/ v \in DOMAIN Objects

\* The object of a value is on the heap: a header, or the two words of a cell.
OnHeap(v) ==
    LET w == Objects[v]
    IN  /\ w \notin {nil, true, false}
        /\ Address(w) \in DOMAIN Heap
        /\ \/ /\ v.k = "tuple" /\ v.n \in 0 .. MaxInt /\ v = TupleV(v.n)
              /\ is_boxed(w) /\ Object(Heap, w)[1] = header(0, v.n)
           \/ /\ v = [k |-> "float"]
              /\ is_boxed(w) /\ Object(Heap, w)[1] = header(3, 1)
           \/ /\ v = [k |-> "map"]
              /\ is_boxed(w) /\ Object(Heap, w)[1] = header(8, 0)
           \/ /\ v.k = "list" /\ v.items \in Seq(Values) \ {<<>>} /\ v = ListV(v.items)
              /\ Rest(v) \in {NilV} \union DOMAIN Objects
              /\ is_list(w)
              /\ Object(Heap, w)[1] = encode(v.items[1])
              /\ Object(Heap, w)[2] = encode(Rest(v))

\* Integers fit the 60 bits of a small integer.
ASSUME WordsAssumption ==
    /\ MaxInt \in Nat /\ MaxInt \div 2^30 < 2^29
    /\ IsFiniteSet(DOMAIN Heap)
    /\ \A v \in Values : IsValue(v)
    /\ \A v \in DOMAIN Objects : OnHeap(v)
    /\ \A u, v \in DOMAIN Objects : Address(Objects[u]) = Address(Objects[v]) => u = v

\* The tags overlap.  An atom looks boxed, like a list or like an integer
\* unless its index ends in 2, 3, 6, 7, 10, 11 or 14 (of 16); a function that
\* reads a header follows nil and the booleans into the void; and bits 28-31 of
\* a small integer or of an address may be those of a process or of an atom.
Clear(g, v) ==
    /\ v.k = "atom" => v.n % 4 \in {2, 3} /\ v.n % 16 # 15
    /\ v.k \in {"nil", "true", "false"} => g \notin ReadsHeader
    /\ v.k # "atom" /\ g \in {"is_atom", "is_pid", "send"} => encode(v)[2] \notin {1, 3}

-----------------------------------------------------------------------------
(* What the functions mean.                                                *)

Gives(v)       == [how |-> "ok", val |-> v]
Raises(how, v) == [how |-> how, val |-> v]
ReasonV(name)  == AtomV(get_atom_index(AtomOf(name)))

Divides(a, b, q, r) == a = q * b + r /\ Abs(r) < Abs(b) /\ a * r >= 0
Total(g, a, b) ==
    CASE g = "+"   -> a + b
      [] g = "-"   -> a - b
      [] g = "*"   -> a * b
      [] g = "div" -> CHOOSE q \in Range0 : \E r \in Range0 : Divides(a, b, q, r)
      [] g = "rem" -> CHOOSE r \in Range0 : \E q \in Range0 : Divides(a, b, q, r)

Numbers(g, v, w) ==
    v.k = "integer" /\ w.k = "integer" /\ (g \in {"div", "rem"} => w.n # 0)

\* The booleans are atoms of the language, and nil is its empty list.
KindsOf == [is_integer |-> {"integer"}, is_atom |-> {"atom", "true", "false"},
            is_boolean |-> {"true", "false"}, is_tuple |-> {"tuple"},
            is_list |-> {"list", "nil"}, is_float |-> {"float"},
            is_map |-> {"map"}, is_number |-> {"integer", "float"}]

\* The code tells nil from a list and a boolean from an atom, where the
\* language does not: what it answers there is another function.
Misnamed(g, v) ==
    \/ g = "is_list" /\ v.k = "nil"
    \/ g = "is_atom" /\ v.k \in {"true", "false"}

Mean1(g, v) ==
    CASE g \in DOMAIN KindsOf -> Gives(BoolV(v.k \in KindsOf[g]))
      [] g \in {"error", "throw", "exit"} -> Raises(g, v)
      [] g = "-" -> IF v.k = "integer" THEN Gives(IntV(-v.n)) ELSE Raises("error", ReasonV("badarith"))
      [] g = "tuple_size" /\ v.k = "tuple" -> Gives(IntV(v.n))
      [] g = "length" /\ v.k \in {"list", "nil"} ->
             Gives(IntV(IF v = NilV THEN 0 ELSE Len(v.items)))
      [] g = "hd" /\ v.k = "list" -> Gives(v.items[1])
      [] g = "tl" /\ v.k = "list" -> Gives(Rest(v))
      [] OTHER -> Raises("error", ReasonV("badarg"))

Mean2(g, v, w) ==
    CASE g \in Arithmetic /\ Numbers(g, v, w)  -> Gives(IntV(Total(g, v.n, w.n)))
      [] g \in Arithmetic /\ ~Numbers(g, v, w) -> Raises("error", ReasonV("badarith"))
      [] g \in {"==", "=:="} -> Gives(BoolV(v = w))
      [] g \in {"/=", "=/="} -> Gives(BoolV(v # w))
      [] g = "send" -> IF v.k = "atom" THEN Gives(w) ELSE Raises("error", ReasonV("badarg"))

-----------------------------------------------------------------------------
WordsInit ==
    /\ val \in Values /\ word = encode(val)
    /\ meant = "ok" /\ ended = "ok"

Answer(m, out) ==
    /\ m.val.k = "integer" => m.val.n \in Range0
    /\ val' = m.val /\ meant' = m.how
    /\ word' = out.val /\ ended' = out.how

Call1(g) == /\ Clear(g, val) /\ ~Misnamed(g, val)
            /\ Answer(Mean1(g, val), Bif(Heap, Pid, g, <<word>>))

Call2(g, w) == /\ Clear(g, val) /\ Clear(g, w)
               /\ Answer(Mean2(g, val, w), Bif(Heap, Pid, g, <<word, encode(w)>>))

One == DOMAIN KindsOf \union {"error", "throw", "exit", "-", "tuple_size", "length", "hd", "tl"}
Two == Arithmetic \union Equalities \union {"send"}

WordsNext == \/ \E g \in One : Call1(g)
             \/ \E g \in Two, w \in Values : Call2(g, w)

WordsSpec == WordsInit /\ [][WordsNext]_wvars

-----------------------------------------------------------------------------
(* However calls are chained, the word is that of the value the calls have   *)
(* in the language, and a call raises exactly when it should: encoding,      *)
(* decoding, tests and arithmetic agree, the tests of nil as a list and of a *)
(* boolean as an atom left out (Misnamed).                                   *)
WordMeansValue == word = encode(val) /\ ended = meant

(* An arithmetic instruction or a type test of the interpreter gives what    *)
(* the built-in function gives, with nil where the function raises.          *)
InstructionMatchesBif ==
    \A v \in Values :
        /\ \A k \in DOMAIN BifOf :
               LET out == Bif(Heap, Pid, BifOf[k], <<word, encode(v)>>)
               IN  Arith(k, word, encode(v)) = IF out.how = "ok" THEN out.val ELSE nil
        /\ \A k \in DOMAIN TestOf :
               Clear(TestOf[k], val) => bool(Test(k, word)) = Bif(Heap, Pid, TestOf[k], <<word>>).val
=============================================================================
