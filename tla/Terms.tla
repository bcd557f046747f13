------------------------------- MODULE Terms -------------------------------
(***************************************************************************)
(* Tagged words (dala_runtime, term.rs) and the built-in functions over    *)
(* them (bif.rs).                                                          *)
(*                                                                         *)
(* A 64-bit word is the sequence of its bit fields from the highest to the *)
(* lowest: bits 32 up (a signed number), 28-31, 25-27, 4-24 and 0-3.  The  *)
(* tags overlap in the code and so they do here: an atom whose index ends  *)
(* in 15 is a small integer too, and nil, true and false look boxed.       *)
(* Integers stay far below the 60 bits a small integer holds.              *)
(*                                                                         *)
(* A heap h maps the address of an object to its words, the header first.  *)
(***************************************************************************)
EXTENDS Integers, Sequences, FiniteSets

Word(hi, t1, t2, mid, low) == <<hi, t1, t2, mid, low>>
Low(w) == w[5]

small(v) == Word(v \div 2^28, (v \div 2^24) % 16, (v \div 2^21) % 8, v % 2^21, 15)
atom(i)  == Word(0, 3, 0, i \div 16, i % 16)
raw(n)   == Word(0, 0, 0, n \div 16, n % 16)
nil      == Word(2^20, 0, 0, 0, 0)
true     == Word(2^20, 0, 1, 0, 0)
false    == Word(2^20, 0, 2, 0, 0)
bool(b)  == IF b THEN true ELSE false
boxed(address)       == address
cons(address)        == [address EXCEPT ![5] = @ + 1]
header(tag, arity)   == Word(tag, 0, 0, arity \div 16, arity % 16)

is_small(w) == Low(w) = 15
is_atom(w)  == w[2] = 3 /\ w[3] = 0
is_pid(w)   == w[2] = 1
is_port(w)  == w[2] = 2
is_list(w)  == Low(w) % 4 = 1
is_boxed(w) == Low(w) % 4 = 0

get_small(w)      == w[1] * 2^28 + w[2] * 2^24 + w[3] * 2^21 + w[4]
get_atom_index(w) == (w[4] % 2^20) * 16 + Low(w)

\* The object a boxed word or a list cell points to; a word that only looks
\* boxed points to no object, and reading it stops the program.
Address(w)    == [w EXCEPT ![5] = @ - (@ % 4)]
Faults(h, w)  == is_boxed(w) /\ Address(w) \notin DOMAIN h
Object(h, w)  == h[Address(w)]
HeaderArity(hd) == hd[4] * 16 + hd[5]
HasTag(h, w, ts) == is_boxed(w) /\ ~Faults(h, w) /\ Object(h, w)[1][1] \in ts

is_tuple(h, w)  == HasTag(h, w, {0})
is_big(h, w)    == HasTag(h, w, {1, 2})
is_float(h, w)  == HasTag(h, w, {3})
is_fun(h, w)    == HasTag(h, w, {5})
is_map(h, w)    == HasTag(h, w, {8})
is_binary(h, w) == HasTag(h, w, {9, 10})

\* Words are compared as unsigned numbers.
Unsigned(n) == IF n < 0 THEN 1 ELSE 0
Before(v, w) ==
    LET i == CHOOSE k \in 1 .. 5 : v[k] # w[k] /\ \A j \in 1 .. k - 1 : v[j] = w[j]
    IN  /\ v # w
        /\ \/ Unsigned(v[i]) < Unsigned(w[i])
           \/ Unsigned(v[i]) = Unsigned(w[i]) /\ v[i] < w[i]

Abs(n) == IF n < 0 THEN -n ELSE n
Sign(n) == IF n < 0 THEN -1 ELSE 1
\* Division rounds towards zero and the remainder has the dividend's sign.
Quotient(a, b)  == Sign(a) * Sign(b) * (Abs(a) \div Abs(b))

\* Seeded fault: the remainder has the sign of the divisor.
X_Remainder(a, b) == Sign(b) * (Abs(a) % Abs(b))

Remainder(a, b) == Sign(a) * (Abs(a) % Abs(b))

-----------------------------------------------------------------------------
(* The built-in functions.                                                 *)

AtomNames == <<"badarg", "badarith", "erlang", "+", "-", "*", "div", "rem",
    "is_integer", "is_atom", "is_binary", "is_boolean", "is_tuple", "is_list",
    "is_pid", "is_port", "is_function", "is_map", "is_number", "is_float",
    "==", "/=", "=:=", "=/=", "self", "spawn", "send", "error", "throw",
    "exit", "fault", "tuple_size", "size", "length", "hd", "tl", "node",
    "nodes", "integer_to_list", "list_to_integer", "atom_to_list", "list_to_atom">>

AtomOf(name) == atom(CHOOSE i \in DOMAIN AtomNames : AtomNames[i] = name)

Arithmetic   == {"+", "-", "*", "div", "rem"}
Equalities   == {"==", "/=", "=:=", "=/="}
TypeTests    == {"is_integer", "is_atom", "is_binary", "is_boolean", "is_tuple",
                 "is_list", "is_pid", "is_port", "is_function", "is_map",
                 "is_number", "is_float"}
Raising      == {"error", "throw", "exit", "fault"}

\* Registered as module erlang, by name and arity.  float/1 is left out: it
\* writes below the words it was given, over whatever is there.
BifTable ==
    ((Arithmetic \union Equalities \union {"send", "error"}) \X {2})
    \union ((TypeTests \union Raising \union
             {"-", "tuple_size", "size", "length", "hd", "tl", "integer_to_list",
              "list_to_integer", "atom_to_list", "list_to_atom"}) \X {1})
    \union ({"self", "node", "nodes"} \X {0}) \union {<<"spawn", 3>>}

Ok(w)           == [how |-> "ok", val |-> w]
Raise(class, w) == [how |-> class, val |-> w]
Fault           == [how |-> "fault", val |-> nil]
BadArg          == Raise("error", AtomOf("badarg"))
BadArith        == Raise("error", AtomOf("badarith"))

Calculate(f, a, b) ==
    CASE f = "+"   -> Ok(small(a + b))
      [] f = "-"   -> Ok(small(a - b))
      [] f = "*"   -> Ok(small(a * b))
      [] f = "div" -> IF b = 0 THEN BadArith ELSE Ok(small(Quotient(a, b)))
      [] f = "rem" -> IF b = 0 THEN BadArith ELSE Ok(small(Remainder(a, b)))

\* The tests that read the header of a boxed word.
ReadsHeader == {"is_binary", "is_tuple", "is_function", "is_map", "is_number",
                "is_float", "tuple_size", "size"}

Holds(h, f, w) ==
    CASE f = "is_integer"  -> is_small(w)
      [] f = "is_atom"     -> is_atom(w)
      [] f = "is_binary"   -> is_binary(h, w)
      [] f = "is_boolean"  -> w \in {true, false}
      [] f = "is_tuple"    -> is_tuple(h, w)
      [] f = "is_list"     -> is_list(w)
      [] f = "is_pid"      -> is_pid(w)
      [] f = "is_port"     -> is_port(w)
      [] f = "is_function" -> is_fun(h, w)
      [] f = "is_map"      -> is_map(h, w)
      [] f = "is_number"   -> is_small(w) \/ is_float(h, w) \/ is_big(h, w)
      [] f = "is_float"    -> is_float(h, w)

\* length/1 walks the cells to nil; an improper tail is a bad argument.  At
\* step n of the walk it is at the word Walk(h, w)[n]; a list has no more cells
\* than the heap has objects.
IsCell(h, w) == is_list(w) /\ Address(w) \in DOMAIN h
Follow(h, w) == IF IsCell(h, w) THEN Object(h, w)[2] ELSE w
Walk(h, w) ==
    LET at[n \in Nat] == IF n = 0 THEN w ELSE Follow(h, at[n - 1])
    IN  at
Cells(h, w) ==
    CHOOSE n \in 0 .. Cardinality(DOMAIN h) :
        /\ ~IsCell(h, Walk(h, w)[n])
        /\ \A i \in 0 .. n - 1 : IsCell(h, Walk(h, w)[i])
ListLength(h, w) ==
    LET end == Walk(h, w)[Cells(h, w)]
    IN  IF end = nil THEN Ok(small(Cells(h, w)))
        ELSE IF is_list(end) THEN Fault ELSE BadArg

Cell(h, w, i) == IF ~is_list(w) THEN BadArg
                 ELSE IF Address(w) \notin DOMAIN h THEN Fault ELSE Ok(Object(h, w)[i])

\* One argument, or none for self, node and nodes.
Bif1(h, f, w) ==
    IF f \in ReadsHeader /\ ~is_small(w) /\ Faults(h, w) THEN Fault ELSE
    CASE f \in TypeTests       -> Ok(bool(Holds(h, f, w)))
      [] f = "-"               -> IF is_small(w) THEN Ok(small(-get_small(w))) ELSE BadArith
      [] f \in Raising         -> Raise(IF f = "fault" THEN "error" ELSE f, w)
      [] f = "tuple_size"      -> IF is_tuple(h, w)
                                  THEN Ok(small(HeaderArity(Object(h, w)[1]))) ELSE BadArg
      [] f = "size"            -> IF is_tuple(h, w)
                                  THEN Ok(small(HeaderArity(Object(h, w)[1])))
                                  ELSE IF is_binary(h, w) THEN Ok(small(0)) ELSE BadArg
      [] f = "length"          -> ListLength(h, w)
      [] f = "hd"              -> Cell(h, w, 1)
      [] f = "tl"              -> Cell(h, w, 2)
      [] f = "integer_to_list" -> IF is_small(w) THEN Ok(nil) ELSE BadArg
      [] f = "list_to_integer" -> Ok(small(0))
      [] f = "atom_to_list"    -> IF is_atom(w) THEN Ok(nil) ELSE BadArg
      [] f = "list_to_atom"    -> Ok(atom(0))

Bif2(h, f, v, w) ==
    CASE f \in Arithmetic      -> IF is_small(v) /\ is_small(w)
                                  THEN Calculate(f, get_small(v), get_small(w)) ELSE BadArith
      [] f \in {"==", "=:="}   -> Ok(bool(v = w))
      [] f \in {"/=", "=/="}   -> Ok(bool(v # w))
      [] f = "send"            -> IF is_pid(v) \/ is_atom(v) THEN Ok(w) ELSE BadArg
      [] f = "error"           -> Raise("error", v)

Bif(h, pid, f, args) ==
    IF Len(args) = 1 THEN Bif1(h, f, args[1])
    ELSE IF Len(args) = 2 THEN Bif2(h, f, args[1], args[2])
    ELSE CASE f = "spawn" -> IF is_atom(args[1]) /\ is_atom(args[2])
                                  /\ (is_list(args[3]) \/ args[3] = nil)
                             THEN Ok(small(0)) ELSE BadArg
           [] f = "self"  -> Ok(raw(pid))
           [] f = "node"  -> Ok(atom(0))
           [] f = "nodes" -> Ok(nil)
=============================================================================
