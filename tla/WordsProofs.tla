---------------------------- MODULE WordsProofs ----------------------------
(***************************************************************************)
(* Proofs about Words, for all values, heaps and bounds that satisfy       *)
(* WordsAssumption: whatever built-in functions are called, in whatever    *)
(* order, the word stays that of the value the calls mean.                 *)
(***************************************************************************)
EXTENDS Words, SeqLemmas, FiniteSetTheorems

-----------------------------------------------------------------------------
(* Words of scalars.                                                       *)

LEMMA Powers == 2^20 = 1048576 /\ 2^20 \in Nat
BY SMT

LEMMA SmallWord ==
  ASSUME NEW n \in Int
  PROVE  /\ get_small(small(n)) = n
         /\ is_small(small(n)) /\ ~is_list(small(n)) /\ ~is_boxed(small(n))
         /\ small(n) \notin {nil, true, false}
<1>1. get_small(small(n)) = n
  BY SMT DEF get_small, small, Word
<1>2. small(n)[5] = 15
  BY SMT DEF small, Word
<1>3. nil[5] = 0 /\ true[5] = 0 /\ false[5] = 0
  BY SMT DEF nil, true, false, Word
<1>4. is_small(small(n)) /\ ~is_list(small(n)) /\ ~is_boxed(small(n))
  BY <1>2, SMT DEF is_small, is_list, is_boxed, Low
<1> QED
  BY <1>1, <1>2, <1>3, <1>4, SMT

LEMMA SmallInjective ==
  ASSUME NEW m \in Int, NEW n \in Int, small(m) = small(n)
  PROVE  m = n
BY SmallWord, Zenon

LEMMA AtomWord ==
  ASSUME NEW n \in 0 .. 2^24 - 1
  PROVE  /\ get_atom_index(atom(n)) = n
         /\ is_atom(atom(n)) /\ ~is_pid(atom(n))
         /\ Low(atom(n)) = n % 16
         /\ atom(n) \notin {nil, true, false}
<1>1. n \in Nat /\ n \div 16 \in 0 .. 2^20 - 1 /\ (n \div 16) * 16 + (n % 16) = n
  BY SMT
<1>2. get_atom_index(atom(n)) = n
  BY <1>1, SMT DEF get_atom_index, atom, Word, Low
<1>3. atom(n)[2] = 3 /\ atom(n)[3] = 0 /\ atom(n)[5] = n % 16
  BY SMT DEF atom, Word
<1>4. nil[2] = 0 /\ true[2] = 0 /\ false[2] = 0
  BY SMT DEF nil, true, false, Word
<1> QED
  BY <1>2, <1>3, <1>4, SMT DEF is_atom, is_pid, Low

-----------------------------------------------------------------------------
(* Division.                                                               *)

LEMMA DivMod ==
  ASSUME NEW a \in Nat, NEW b \in Nat \ {0}
  PROVE  /\ a \div b \in Nat /\ a % b \in Nat
         /\ a = (a \div b) * b + (a % b) /\ a % b < b
         /\ a \div b <= a /\ a % b <= a
BY SMT

(* What div_2 and rem_2 compute is a division, inside the range.           *)
LEMMA DividesQuotient ==
  ASSUME NEW a \in Int, NEW b \in Int \ {0}
  PROVE  /\ Quotient(a, b) \in Int /\ Remainder(a, b) \in Int
         /\ Divides(a, b, Quotient(a, b), Remainder(a, b))
         /\ Abs(Quotient(a, b)) <= Abs(a) /\ Abs(Remainder(a, b)) <= Abs(a)
<1>1. PICK m \in Nat : m = Abs(a)
  BY SMT DEF Abs
<1>2. PICK n \in Nat \ {0} : n = Abs(b)
  BY SMT DEF Abs
<1>3. PICK q \in Nat, r \in Nat :
        q = m \div n /\ r = m % n /\ m = q * n + r /\ r < n /\ q <= m /\ r <= m
  BY DivMod, SMT
<1>4. Quotient(a, b) = Sign(a) * Sign(b) * q /\ Remainder(a, b) = Sign(a) * r
  BY <1>1, <1>2, <1>3, SMT DEF Quotient, Remainder
<1>5. CASE a >= 0 /\ b > 0
  BY <1>1, <1>2, <1>3, <1>4, <1>5, SMT DEF Divides, Abs, Sign
<1>6. CASE a >= 0 /\ b < 0
  BY <1>1, <1>2, <1>3, <1>4, <1>6, SMT DEF Divides, Abs, Sign
<1>7. CASE a < 0 /\ b > 0
  BY <1>1, <1>2, <1>3, <1>4, <1>7, SMT DEF Divides, Abs, Sign
<1>8. CASE a < 0 /\ b < 0
  BY <1>1, <1>2, <1>3, <1>4, <1>8, SMT DEF Divides, Abs, Sign
<1> QED
  BY <1>5, <1>6, <1>7, <1>8, SMT

LEMMA RemaindersMeet ==
  ASSUME NEW b \in Nat \ {0}, NEW q \in Int, NEW p \in Int, NEW r \in Int, NEW s \in Int,
         q * b + r = p * b + s, -b < r - s, r - s < b
  PROVE  q = p /\ r = s
BY SMT

LEMMA NegativeProduct ==
  ASSUME NEW x \in Int, NEW y \in Int
  PROVE  -x \in Int /\ -y \in Int /\ (-x) * (-y) = x * y
BY SMT

LEMMA SameSign ==
  ASSUME NEW a \in Int, NEW r \in Int, a * r >= 0
  PROVE  (a > 0 => r >= 0) /\ (a < 0 => r <= 0)
BY SMT

(* There is no other division.                                             *)
LEMMA DividesOnce ==
  ASSUME NEW a \in Int, NEW b \in Int \ {0},
         NEW q \in Int, NEW r \in Int, Divides(a, b, q, r),
         NEW p \in Int, NEW s \in Int, Divides(a, b, p, s)
  PROVE  q = p /\ r = s
<1>1. PICK n \in Nat \ {0} : n = Abs(b)
  BY SMT DEF Abs
<1>2. /\ a = q * b + r /\ -n < r /\ r < n /\ a * r >= 0
      /\ a = p * b + s /\ -n < s /\ s < n /\ a * s >= 0
  BY <1>1, SMT DEF Divides, Abs
<1>3. PICK u \in Int, v \in Int : /\ u * n + r = v * n + s
                                  /\ (u = v => q = p)
                                  /\ a = u * n + r /\ a = v * n + s
  <2>1. CASE b > 0
    <3>1. n = b
      BY <1>1, <2>1, SMT DEF Abs
    <3>2. a = q * n + r /\ a = p * n + s
      BY <1>2, <3>1, Zenon
    <3>3. q * n + r = p * n + s
      BY <3>2, Zenon
    <3> QED
      BY <3>2, <3>3, Zenon
  <2>2. CASE b < 0
    <3>1. n = -b
      BY <1>1, <2>2, SMT DEF Abs
    <3>2. PICK u \in Int, v \in Int : u = -q /\ v = -p
      BY SMT
    <3>3. u * n = q * b /\ v * n = p * b
      BY <3>1, <3>2, NegativeProduct, Zenon
    <3>4. a = u * n + r /\ a = v * n + s /\ (u = v => q = p)
      BY <1>2, <3>2, <3>3, SMT
    <3>5. u * n + r = v * n + s
      BY <3>4, Zenon
    <3> QED
      BY <3>4, <3>5, Zenon
  <2> QED
    BY <2>1, <2>2, SMT
<1>4. -n < r - s /\ r - s < n
  <2>1. CASE a > 0
    BY <1>2, <2>1, SameSign, SMT
  <2>2. CASE a < 0
    BY <1>2, <2>2, SameSign, SMT
  <2>3. CASE a = 0
    <3>1. 0 * n + 0 = u * n + r /\ 0 * n + 0 = v * n + s
      BY <1>3, <2>3, SMT
    <3>2. r = 0 /\ s = 0
      BY <1>2, <3>1, RemaindersMeet, SMT
    <3> QED
      BY <3>2, SMT
  <2> QED
    BY <2>1, <2>2, <2>3, SMT
<1>5. u = v /\ r = s
  BY <1>3, <1>4, RemaindersMeet
<1> QED
  BY <1>3, <1>5

LEMMA InRange ==
  ASSUME NEW a \in Range0
  PROVE  /\ a \in Int
         /\ \A x \in Int : Abs(x) <= Abs(a) => x \in Range0
BY WordsAssumption, SMT DEF Range0, Abs

(* So the meaning of div and rem is what is computed.                      *)
LEMMA TotalDiv ==
  ASSUME NEW a \in Range0, NEW b \in Range0, b # 0
  PROVE  Total("div", a, b) = Quotient(a, b) /\ Total("rem", a, b) = Remainder(a, b)
<1> DEFINE Q == Quotient(a, b)
           R == Remainder(a, b)
<1>1. a \in Int /\ b \in Int \ {0}
  BY InRange
<1>2. /\ Q \in Int /\ R \in Int /\ Divides(a, b, Q, R)
      /\ Abs(Q) <= Abs(a) /\ Abs(R) <= Abs(a)
  BY <1>1, DividesQuotient
<1>3. Q \in Range0 /\ R \in Range0
  BY <1>2, InRange
<1>4. \A q \in Range0, r \in Range0 : Divides(a, b, q, r) => q = Q /\ r = R
  BY <1>1, <1>2, InRange, DividesOnce
<1> HIDE DEF Q, R
<1>5. (CHOOSE q \in Range0 : \E r \in Range0 : Divides(a, b, q, r)) = Q
  BY <1>2, <1>3, <1>4
<1>6. (CHOOSE r \in Range0 : \E q \in Range0 : Divides(a, b, q, r)) = R
  BY <1>2, <1>3, <1>4
<1> QED
  BY <1>5, <1>6 DEF Total, Q, R

-----------------------------------------------------------------------------
(* The walk of a list.  Walk is a recursive function: that there is one is *)
(* shown from the walks of n steps.                                        *)

Walks(h, w, n, p) == p[0] = w /\ \A i \in 1 .. n : p[i] = Follow(h, p[i - 1])

LEMMA WalksExist ==
  ASSUME NEW h, NEW w, NEW n \in Nat
  PROVE  \E p : Walks(h, w, n, p)
<1> DEFINE T == {m \in Nat : ~ \E p : Walks(h, w, m, p)}
<1>1. SUFFICES ASSUME T # {} PROVE FALSE
  OBVIOUS
<1>2. PICK m \in T : \A k \in T : m <= k
  BY <1>1, LeastNat
<1>3. m # 0
  <2>1. Walks(h, w, 0, [i \in {0} |-> w])
    BY DEF Walks
  <2> QED
    BY <1>2, <2>1
<1>4. m - 1 \in Nat /\ m - 1 \notin T /\ m \in Nat
  BY <1>2, <1>3
<1>5. PICK p : Walks(h, w, m - 1, p)
  BY <1>4
<1> DEFINE q == [i \in 0 .. m |-> IF i = m THEN Follow(h, p[m - 1]) ELSE p[i]]
<1>6. q[0] = w
  BY <1>3, <1>4, <1>5 DEF Walks
<1>7. ASSUME NEW i \in 1 .. m PROVE q[i] = Follow(h, q[i - 1])
  <2>1. CASE i = m
    <3>1. q[i] = Follow(h, p[m - 1]) /\ q[m - 1] = p[m - 1]
      BY <1>3, <1>4, <2>1
    <3> QED
      BY <2>1, <3>1
  <2>2. CASE i # m
    <3>1. i \in 1 .. m - 1 /\ q[i] = p[i] /\ q[i - 1] = p[i - 1]
      BY <1>4, <1>7, <2>2
    <3> QED
      BY <1>5, <3>1 DEF Walks
  <2> QED
    BY <2>1, <2>2
<1>8. Walks(h, w, m, q)
  BY <1>6, <1>7 DEF Walks
<1> QED
  BY <1>2, <1>8

LEMMA WalksAgree ==
  ASSUME NEW h, NEW w, NEW n \in Nat, NEW p, Walks(h, w, n, p),
         NEW m \in Nat, NEW q, Walks(h, w, m, q),
         NEW i \in Nat, i <= n, i <= m
  PROVE  p[i] = q[i]
<1> DEFINE T == {k \in Nat : k <= n /\ k <= m /\ p[k] # q[k]}
<1>1. SUFFICES ASSUME T # {} PROVE FALSE
  OBVIOUS
<1>2. PICK k \in T : \A j \in T : k <= j
  BY <1>1, LeastNat
<1>3. k # 0
  BY <1>2 DEF Walks
<1>4. k - 1 \in Nat /\ k - 1 \notin T /\ k \in 1 .. n /\ k \in 1 .. m
  BY <1>2, <1>3
<1>5. p[k - 1] = q[k - 1]
  BY <1>4
<1>6. p[k] = q[k]
  BY <1>4, <1>5 DEF Walks
<1> QED
  BY <1>2, <1>6

LEMMA WalkStep ==
  ASSUME NEW h, NEW w
  PROVE  /\ Walk(h, w)[0] = w
         /\ \A n \in Nat : Walk(h, w)[n + 1] = Follow(h, Walk(h, w)[n])
<1> DEFINE upto(n) == CHOOSE p : Walks(h, w, n, p)
           g == [n \in Nat |-> upto(n)[n]]
           next(f, n) == IF n = 0 THEN w ELSE Follow(h, f[n - 1])
<1>1. \A n \in Nat : Walks(h, w, n, upto(n))
  BY WalksExist
<1>2. \A n \in Nat : g[n] = upto(n)[n]
  OBVIOUS
<1> HIDE DEF upto
<1>3. ASSUME NEW n \in Nat PROVE g[n] = next(g, n)
  <2>1. CASE n = 0
    BY <1>1, <1>2, <2>1 DEF Walks
  <2>2. CASE n # 0
    <3>1. n - 1 \in Nat /\ n \in 1 .. n /\ n - 1 <= n
      BY <2>2
    <3>2. upto(n - 1)[n - 1] = upto(n)[n - 1]
      BY <1>1, <3>1, WalksAgree
    <3>3. upto(n)[n] = Follow(h, upto(n)[n - 1])
      BY <1>1, <3>1 DEF Walks
    <3> QED
      BY <1>2, <2>2, <3>1, <3>2, <3>3
  <2> QED
    BY <2>1, <2>2
<1>4. g = [n \in Nat |-> IF n = 0 THEN w ELSE Follow(h, g[n - 1])]
  BY <1>3
<1> HIDE DEF g
<1> DEFINE at == CHOOSE at : at = [n \in Nat |-> IF n = 0 THEN w ELSE Follow(h, at[n - 1])]
<1>5. at = [n \in Nat |-> IF n = 0 THEN w ELSE Follow(h, at[n - 1])]
  BY <1>4, Zenon
<1>6. Walk(h, w) = at
  BY Zenon DEF Walk
<1> HIDE DEF at
<1>7. at[0] = w
  BY <1>5
<1>8. ASSUME NEW n \in Nat PROVE at[n + 1] = Follow(h, at[n])
  <2>1. n + 1 \in Nat /\ n + 1 # 0 /\ (n + 1) - 1 = n
    OBVIOUS
  <2>2. at[n + 1] = IF n + 1 = 0 THEN w ELSE Follow(h, at[(n + 1) - 1])
    BY <1>5, <2>1, Zenon
  <2> QED
    BY <2>1, <2>2, Zenon
<1> QED
  BY <1>6, <1>7, <1>8

-----------------------------------------------------------------------------
(* What the tests of words answer for the word of a value.                 *)

Boxes == {"tuple", "float", "map"}

LEMMA HeaderWord ==
  ASSUME NEW tag \in Nat, NEW arity \in Nat
  PROVE  header(tag, arity)[1] = tag /\ HeaderArity(header(tag, arity)) = arity
BY SMT DEF header, HeaderArity, Word

LEMMA LowApart ==
  ASSUME NEW w
  PROVE  /\ is_list(w) => ~is_small(w) /\ ~is_boxed(w)
         /\ is_boxed(w) => ~is_small(w) /\ ~is_list(w)
BY SMT DEF is_list, is_boxed, is_small

(* An object: the header tells what it is, a cell has none.                *)
LEMMA ObjectWord ==
  ASSUME NEW v \in DOMAIN Objects
  PROVE  /\ encode(v) = Objects[v]
         /\ v.k \in Boxes \cup {"list"}
         /\ encode(v) \notin {nil, true, false}
         /\ Address(encode(v)) \in DOMAIN Heap
         /\ is_list(encode(v)) <=> v.k = "list"
         /\ is_boxed(encode(v)) <=> v.k \in Boxes
         /\ v.k = "tuple" => /\ v.n \in 0 .. MaxInt /\ v = TupleV(v.n)
                             /\ Object(Heap, encode(v))[1] = header(0, v.n)
         /\ v.k = "float" => Object(Heap, encode(v))[1] = header(3, 1)
         /\ v.k = "map" => Object(Heap, encode(v))[1] = header(8, 0)
         /\ v.k = "list" =>
              /\ v.items \in Seq(Values) \ {<<>>} /\ v = ListV(v.items)
              /\ Rest(v) \in {NilV} \cup DOMAIN Objects
              /\ Object(Heap, encode(v))[1] = encode(v.items[1])
              /\ Object(Heap, encode(v))[2] = encode(Rest(v))
<1>1. OnHeap(v)
  BY WordsAssumption
<1>2. v.k \in Boxes \cup {"list"}
  BY <1>1 DEF OnHeap, Boxes
<1>3. encode(v) = Objects[v]
  BY <1>2 DEF encode, Boxes
<1>4. Objects[v] \notin {nil, true, false} /\ Address(Objects[v]) \in DOMAIN Heap
  BY <1>1 DEF OnHeap
<1>5. is_list(Objects[v]) <=> v.k = "list"
  BY <1>1, LowApart DEF OnHeap
<1>6. is_boxed(Objects[v]) <=> v.k \in Boxes
  BY <1>1, LowApart DEF OnHeap, Boxes
<1>7. v.k = "tuple" => /\ v.n \in 0 .. MaxInt /\ v = TupleV(v.n)
                       /\ Object(Heap, Objects[v])[1] = header(0, v.n)
  BY <1>1 DEF OnHeap
<1>8. v.k = "float" => Object(Heap, Objects[v])[1] = header(3, 1)
  BY <1>1 DEF OnHeap
<1>9. v.k = "map" => Object(Heap, Objects[v])[1] = header(8, 0)
  BY <1>1 DEF OnHeap
<1>10. v.k = "list" =>
         /\ v.items \in Seq(Values) \ {<<>>} /\ v = ListV(v.items)
         /\ Rest(v) \in {NilV} \cup DOMAIN Objects
         /\ Object(Heap, Objects[v])[1] = encode(v.items[1])
         /\ Object(Heap, Objects[v])[2] = encode(Rest(v))
  BY <1>1 DEF OnHeap
<1> QED
  BY <1>2, <1>3, <1>4, <1>5, <1>6, <1>7, <1>8, <1>9, <1>10, Zenon

LEMMA ObjectTests ==
  ASSUME NEW v \in DOMAIN Objects
  PROVE  /\ ~Faults(Heap, encode(v))
         /\ is_tuple(Heap, encode(v)) <=> v.k = "tuple"
         /\ is_float(Heap, encode(v)) <=> v.k = "float"
         /\ is_map(Heap, encode(v)) <=> v.k = "map"
         /\ ~is_big(Heap, encode(v))
<1> DEFINE w == encode(v)
<1>1. Address(w) \in DOMAIN Heap /\ (is_boxed(w) <=> v.k \in Boxes) /\ v.k \in Boxes \cup {"list"}
  BY ObjectWord
<1>2. ~Faults(Heap, w)
  BY <1>1 DEF Faults
<1>3. \A ts : HasTag(Heap, w, ts) <=> v.k \in Boxes /\ Object(Heap, w)[1][1] \in ts
  BY <1>1, <1>2 DEF HasTag
<1>4. v.k = "tuple" => Object(Heap, w)[1][1] = 0
  <2>1. ASSUME v.k = "tuple" PROVE v.n \in Nat /\ Object(Heap, w)[1] = header(0, v.n)
    BY <2>1, ObjectWord, WordsAssumption
  <2> QED
    BY <2>1, HeaderWord
<1>5. v.k = "float" => Object(Heap, w)[1][1] = 3
  BY ObjectWord, HeaderWord
<1>6. v.k = "map" => Object(Heap, w)[1][1] = 8
  BY ObjectWord, HeaderWord
<1> HIDE DEF w
<1>7. is_tuple(Heap, w) <=> v.k = "tuple"
  BY <1>1, <1>3, <1>4, <1>5, <1>6 DEF is_tuple, Boxes
<1>8. is_float(Heap, w) <=> v.k = "float"
  BY <1>1, <1>3, <1>4, <1>5, <1>6 DEF is_float, Boxes
<1>9. is_map(Heap, w) <=> v.k = "map"
  BY <1>1, <1>3, <1>4, <1>5, <1>6 DEF is_map, Boxes
<1>10. ~is_big(Heap, w)
  BY <1>1, <1>3, <1>4, <1>5, <1>6 DEF is_big, Boxes
<1> QED
  BY <1>2, <1>7, <1>8, <1>9, <1>10 DEF w

(* A word that is not boxed has no header.                                 *)
LEMMA NoHeader ==
  ASSUME NEW w, ~is_boxed(w)
  PROVE  /\ ~Faults(Heap, w) /\ ~is_tuple(Heap, w) /\ ~is_float(Heap, w)
         /\ ~is_map(Heap, w) /\ ~is_big(Heap, w)
BY DEF Faults, is_tuple, is_float, is_map, is_big, HasTag

(* The words of the scalars, by what stands for them in the language.      *)
LEMMA IntegerValue ==
  ASSUME NEW n \in Int
  PROVE  IntV(n).k = "integer" /\ IntV(n).n = n /\ encode(IntV(n)) = small(n)
BY DEF IntV, encode

LEMMA AtomValue ==
  ASSUME NEW n
  PROVE  AtomV(n).k = "atom" /\ AtomV(n).n = n /\ encode(AtomV(n)) = atom(n)
BY DEF AtomV, encode

LEMMA ConstantValues ==
  /\ NilV.k = "nil" /\ encode(NilV) = nil
  /\ BoolV(TRUE).k = "true" /\ encode(BoolV(TRUE)) = true
  /\ BoolV(FALSE).k = "false" /\ encode(BoolV(FALSE)) = false
BY DEF NilV, BoolV, encode

LEMMA ConstantWords ==
  /\ nil # true /\ nil # false /\ true # false
  /\ \A w \in {nil, true, false} :
       ~is_small(w) /\ ~is_list(w) /\ is_boxed(w) /\ ~is_atom(w) /\ ~is_pid(w)
<1>1. /\ nil[5] = 0 /\ true[5] = 0 /\ false[5] = 0
      /\ nil[2] = 0 /\ true[2] = 0 /\ false[2] = 0
      /\ nil[3] = 0 /\ true[3] = 1 /\ false[3] = 2
  BY SMT DEF nil, true, false, Word
<1> QED
  BY <1>1, SMT DEF is_small, is_list, is_boxed, is_atom, is_pid, Low

LEMMA ValueKinds ==
  ASSUME NEW v, IsValue(v)
  PROVE  \/ \E n \in Range0 : v = IntV(n)
         \/ \E n \in 0 .. 2^24 - 1 : v = AtomV(n)
         \/ v = NilV
         \/ v = BoolV(TRUE)
         \/ v = BoolV(FALSE)
         \/ v \in DOMAIN Objects
BY Zenon DEF IsValue

(* An atom whose index reads as no other tag.                              *)
Distinct(v) == v.k = "atom" => v.n % 4 \in {2, 3} /\ v.n % 16 # 15

Constants == {"nil", "true", "false"}

TestsTell(v) ==
  LET w == encode(v)
  IN  /\ is_small(w) <=> v.k = "integer"
      /\ is_list(w) <=> v.k = "list"
      /\ w = nil <=> v.k = "nil"
      /\ w = true <=> v.k = "true"
      /\ w = false <=> v.k = "false"
      /\ v.k = "atom" => is_atom(w)
      /\ v.k \in Constants => ~is_atom(w) /\ ~is_pid(w)
      /\ v.k \notin Constants =>
           /\ ~Faults(Heap, w)
           /\ is_tuple(Heap, w) <=> v.k = "tuple"
           /\ is_float(Heap, w) <=> v.k = "float"
           /\ is_map(Heap, w) <=> v.k = "map"
           /\ ~is_big(Heap, w)

LEMMA AtomTests ==
  ASSUME NEW n \in 0 .. 2^24 - 1, Distinct(AtomV(n))
  PROVE  ~is_small(atom(n)) /\ ~is_list(atom(n)) /\ ~is_boxed(atom(n))
<1>1. n % 4 \in {2, 3} /\ n % 16 # 15 /\ n \in Nat
  BY AtomValue DEF Distinct
<1>2. Low(atom(n)) = n % 16
  BY AtomWord
<1>3. (n % 16) % 4 = n % 4
  BY <1>1, SMT
<1> QED
  BY <1>1, <1>2, <1>3, SMT DEF is_small, is_list, is_boxed

LEMMA ValueTests ==
  ASSUME NEW v, IsValue(v), Distinct(v)
  PROVE  TestsTell(v)
<1>1. CASE \E n \in Range0 : v = IntV(n)
  <2>1. PICK n \in Int : v = IntV(n)
    BY <1>1, InRange
  <2>2. v.k = "integer" /\ encode(v) = small(n)
    BY <2>1, IntegerValue
  <2> QED
    BY <2>2, SmallWord, NoHeader DEF TestsTell, Constants
<1>2. CASE \E n \in 0 .. 2^24 - 1 : v = AtomV(n)
  <2>1. PICK n \in 0 .. 2^24 - 1 : v = AtomV(n)
    BY <1>2
  <2>2. v.k = "atom" /\ v.n = n /\ encode(v) = atom(n)
    BY <2>1, AtomValue
  <2>3. ~is_small(atom(n)) /\ ~is_list(atom(n)) /\ ~is_boxed(atom(n))
    BY <2>1, AtomTests
  <2>4. is_atom(atom(n)) /\ atom(n) \notin {nil, true, false}
    BY AtomWord
  <2> QED
    BY <2>2, <2>3, <2>4, NoHeader DEF TestsTell, Constants
<1>3. CASE v \in {NilV, BoolV(TRUE), BoolV(FALSE)}
  <2>1. /\ v.k \in Constants
        /\ v.k = "nil" => encode(v) = nil
        /\ v.k = "true" => encode(v) = true
        /\ v.k = "false" => encode(v) = false
    BY <1>3, ConstantValues DEF Constants
  <2> QED
    BY <2>1, ConstantWords DEF TestsTell, Constants
<1>4. CASE v \in DOMAIN Objects
  <2>1. /\ v.k \in Boxes \cup {"list"}
        /\ encode(v) \notin {nil, true, false}
        /\ is_list(encode(v)) <=> v.k = "list"
        /\ is_boxed(encode(v)) <=> v.k \in Boxes
    BY <1>4, ObjectWord
  <2>2. ~is_small(encode(v))
    BY <2>1, LowApart DEF Boxes
  <2> QED
    BY <1>4, <2>1, <2>2, ObjectTests DEF TestsTell, Constants, Boxes
<1> QED
  BY <1>1, <1>2, <1>3, <1>4, ValueKinds

(* Different values have different words.                                  *)
LEMMA EncodeInjective ==
  ASSUME NEW u, IsValue(u), Distinct(u),
         NEW v, IsValue(v), Distinct(v), encode(u) = encode(v)
  PROVE  u = v
<1>1. TestsTell(u) /\ TestsTell(v)
  BY ValueTests
<1>2. CASE u.k = "integer" \/ v.k = "integer"
  <2>1. u.k = "integer" /\ v.k = "integer"
    BY <1>1, <1>2 DEF TestsTell
  <2>2. PICK m \in Int, n \in Int : u = IntV(m) /\ v = IntV(n)
    <3>1. ASSUME NEW x, IsValue(x), x.k = "integer" PROVE \E n \in Int : x = IntV(n)
      <4>1. \A n : AtomV(n).k # "integer"
        BY AtomValue
      <4>2. x \in DOMAIN Objects => x.k # "integer"
        BY ObjectWord DEF Boxes
      <4>3. x \notin {NilV, BoolV(TRUE), BoolV(FALSE)}
        BY <3>1, ConstantValues
      <4>4. PICK n \in Range0 : x = IntV(n)
        BY <3>1, <4>1, <4>2, <4>3, ValueKinds, Zenon
      <4> QED
        BY <4>4, InRange
    <3> QED
      BY <2>1, <3>1
  <2> QED
    BY <2>2, IntegerValue, SmallInjective
<1>3. CASE u.k \in Constants \/ v.k \in Constants
  <2>1. u.k = v.k /\ u.k \in Constants
    BY <1>1, <1>3 DEF TestsTell, Constants
  <2>2. ASSUME NEW x, IsValue(x), x.k \in Constants
        PROVE  /\ x.k = "nil" => x = NilV
               /\ x.k = "true" => x = BoolV(TRUE)
               /\ x.k = "false" => x = BoolV(FALSE)
    <3>1. \A n \in Range0 : IntV(n).k \notin Constants
      BY IntegerValue, InRange DEF Constants
    <3>2. \A n : AtomV(n).k \notin Constants
      BY AtomValue DEF Constants
    <3>3. x \in DOMAIN Objects => x.k \notin Constants
      BY ObjectWord DEF Boxes, Constants
    <3>4. x \in {NilV, BoolV(TRUE), BoolV(FALSE)}
      BY <2>2, <3>1, <3>2, <3>3, ValueKinds, Zenon
    <3> QED
      BY <3>4, ConstantValues
  <2>3. /\ u.k = "nil" => u = NilV /\ v = NilV
        /\ u.k = "true" => u = BoolV(TRUE) /\ v = BoolV(TRUE)
        /\ u.k = "false" => u = BoolV(FALSE) /\ v = BoolV(FALSE)
    BY <2>1, <2>2
  <2>4. u.k = "nil" \/ u.k = "true" \/ u.k = "false"
    BY <2>1 DEF Constants
  <2>5. \E c : u = c /\ v = c
    BY <2>3, <2>4, Zenon
  <2> QED
    BY <2>5
<1>4. CASE ~(u.k = "integer" \/ v.k = "integer") /\ ~(u.k \in Constants \/ v.k \in Constants)
  <2>1. \A x : IsValue(x) /\ x.k \notin Constants \cup {"integer"} =>
           x \in DOMAIN Objects \/ \E n \in 0 .. 2^24 - 1 : x = AtomV(n)
    BY ValueKinds, IntegerValue, ConstantValues, InRange DEF Constants
  <2>2. CASE u \in DOMAIN Objects /\ v \in DOMAIN Objects
    <3>1. encode(u) = Objects[u] /\ encode(v) = Objects[v]
      BY <2>2, ObjectWord
    <3> QED
      BY <2>2, <3>1, WordsAssumption
  <2>3. CASE \E m, n \in 0 .. 2^24 - 1 : u = AtomV(m) /\ v = AtomV(n)
    <3>1. PICK m, n \in 0 .. 2^24 - 1 : u = AtomV(m) /\ v = AtomV(n)
      BY <2>3
    <3>2. atom(m) = atom(n)
      BY <3>1, AtomValue
    <3>3. get_atom_index(atom(m)) = m /\ get_atom_index(atom(n)) = n
      BY AtomWord
    <3> QED
      BY <3>1, <3>2, <3>3
  <2>4. ASSUME NEW x, IsValue(x), Distinct(x), NEW n \in 0 .. 2^24 - 1, x = AtomV(n),
               NEW y \in DOMAIN Objects
        PROVE  encode(x) # encode(y)
    <3>1. is_list(encode(y)) \/ is_boxed(encode(y))
      BY ObjectWord
    <3>2. ~is_list(encode(x)) /\ ~is_boxed(encode(x))
      BY <2>4, AtomTests, AtomValue
    <3> QED
      BY <3>1, <3>2
  <2> QED
    BY <1>4, <2>1, <2>2, <2>3, <2>4
<1> QED
  BY <1>2, <1>3, <1>4

-----------------------------------------------------------------------------
(* The length of a list.                                                   *)

LEMMA CellsAre ==
  ASSUME NEW h, NEW w, IsFiniteSet(DOMAIN h), NEW n \in Nat, n <= Cardinality(DOMAIN h),
         ~IsCell(h, Walk(h, w)[n]), \A i \in 0 .. n - 1 : IsCell(h, Walk(h, w)[i])
  PROVE  Cells(h, w) = n
<1> DEFINE End(m) == /\ ~IsCell(h, Walk(h, w)[m])
                     /\ \A i \in 0 .. m - 1 : IsCell(h, Walk(h, w)[i])
           max == Cardinality(DOMAIN h)
<1>1. max \in Nat
  BY FS_CardinalityType
<1> HIDE DEF max
<1>2. n \in 0 .. max
  BY <1>1 DEF max
<1>3. End(n)
  OBVIOUS
<1>4. ASSUME NEW m \in 0 .. max, End(m) PROVE m = n
  <2>1. ~(m < n)
    BY <1>1, <1>4, <1>3
  <2>2. ~(n < m)
    BY <1>1, <1>4, <1>3
  <2> QED
    BY <1>1, <2>1, <2>2
<1> HIDE DEF End
<1>5. (CHOOSE m \in 0 .. max : End(m)) = n
  BY <1>2, <1>3, <1>4
<1> QED
  BY <1>5 DEF Cells, End, max

(* One step along a list on the heap.                                      *)
LEMMA ListStep ==
  ASSUME NEW u \in DOMAIN Objects, u.k = "list"
  PROVE  /\ IsCell(Heap, encode(u))
         /\ Follow(Heap, encode(u)) = encode(Rest(u))
         /\ Len(u.items) \in Nat \ {0}
         /\ Len(u.items) = 1 => Rest(u) = NilV
         /\ Len(u.items) # 1 => /\ Rest(u) \in DOMAIN Objects
                                /\ Rest(u).k = "list"
                                /\ Len(Rest(u).items) = Len(u.items) - 1
<1>1. IsCell(Heap, encode(u))
  BY ObjectWord DEF IsCell
<1>2. Follow(Heap, encode(u)) = encode(Rest(u))
  BY <1>1, ObjectWord DEF Follow
<1>3. u.items \in Seq(Values) /\ u.items # <<>> /\ Rest(u) \in {NilV} \cup DOMAIN Objects
  BY ObjectWord
<1>4. Len(u.items) \in Nat \ {0} /\ Len(Tail(u.items)) = Len(u.items) - 1
  BY <1>3, HeadTailProperties, LenProperties, EmptySeq
<1>5. ASSUME Len(u.items) # 1
      PROVE  Rest(u) \in DOMAIN Objects /\ Rest(u).k = "list" /\ Len(Rest(u).items) = Len(u.items) - 1
  <2>1. Rest(u) = ListV(Tail(u.items))
    BY <1>5 DEF Rest
  <2>2. Rest(u).k = "list" /\ Rest(u).items = Tail(u.items)
    BY <2>1 DEF ListV
  <2>3. Rest(u) # NilV
    BY <2>2, ConstantValues
  <2> QED
    BY <1>3, <1>4, <2>2, <2>3
<1>6. Len(u.items) = 1 => Rest(u) = NilV
  BY DEF Rest
<1> QED
  BY <1>1, <1>2, <1>4, <1>5, <1>6

(* Where the walk of a list of so many items is after i steps.             *)
OnList(u, left) ==
  IF left = 0 THEN u = NilV
  ELSE u \in DOMAIN Objects /\ u.k = "list" /\ Len(u.items) = left

LEMMA ListWalk ==
  ASSUME NEW v \in DOMAIN Objects, v.k = "list", NEW i \in 0 .. Len(v.items)
  PROVE  \E u : OnList(u, Len(v.items) - i) /\ Walk(Heap, encode(v))[i] = encode(u)
<1> DEFINE size == Len(v.items)
           at == Walk(Heap, encode(v))
           Found(k) == \E u : OnList(u, size - k) /\ at[k] = encode(u)
           T == {k \in Nat : k <= size /\ ~Found(k)}
<1>1. size \in Nat \ {0}
  BY ListStep
<1>2. at[0] = encode(v) /\ \A n \in Nat : at[n + 1] = Follow(Heap, at[n])
  BY WalkStep
<1> HIDE DEF size, at
<1>3. T = {}
  <2>1. SUFFICES ASSUME T # {} PROVE FALSE
    OBVIOUS
  <2>2. PICK k \in T : \A j \in T : k <= j
    BY <2>1, LeastNat
  <2>3. k # 0
    <3>1. OnList(v, size - 0)
      BY <1>1 DEF OnList, size
    <3> QED
      BY <1>2, <2>2, <3>1
  <2>4. PICK j \in Nat : k = j + 1 /\ j < size /\ Found(j)
    <3>1. k - 1 \in Nat /\ k = (k - 1) + 1 /\ k - 1 < size /\ k - 1 \notin T
      BY <1>1, <2>2, <2>3
    <3> QED
      BY <1>1, <3>1
  <2>5. PICK u : OnList(u, size - j) /\ at[j] = encode(u)
    BY <2>4
  <2>6. u \in DOMAIN Objects /\ u.k = "list" /\ Len(u.items) = size - j
    BY <1>1, <2>4, <2>5 DEF OnList
  <2>7. at[k] = encode(Rest(u))
    BY <1>2, <2>4, <2>5, <2>6, ListStep
  <2>8. OnList(Rest(u), size - k)
    <3>0. PICK left \in Nat \ {0} : left = Len(u.items)
      BY <1>1, <2>4, <2>6
    <3>1. size - k = left - 1
      BY <1>1, <2>4, <2>6, <3>0
    <3>2. /\ Len(u.items) = 1 => Rest(u) = NilV
          /\ Len(u.items) # 1 => /\ Rest(u) \in DOMAIN Objects
                                 /\ Rest(u).k = "list"
                                 /\ Len(Rest(u).items) = Len(u.items) - 1
      BY <2>6, ListStep
    <3>3. CASE Len(u.items) = 1
      <4>1. left = 1
        BY <3>0, <3>3
      <4>2. size - k = 0
        BY <3>1, <4>1
      <4> QED
        BY <3>2, <3>3, <4>2, Zenon DEF OnList
    <3>4. CASE Len(u.items) # 1
      <4>0. left # 1
        BY <3>0, <3>4, Zenon
      <4>1. size - k # 0
        BY <3>1, <4>0
      <4>2. Len(Rest(u).items) = size - k
        BY <3>0, <3>1, <3>2, <3>4
      <4> QED
        BY <3>2, <3>4, <4>1, <4>2, Zenon DEF OnList
    <3> QED
      BY <3>3, <3>4
  <2> QED
    BY <2>2, <2>7, <2>8
<1>4. i \in Nat /\ i <= size
  BY <1>1 DEF size
<1> QED
  BY <1>3, <1>4 DEF size, at

(* A list has no more items than the heap has objects: its cells differ.   *)
LEMMA ListFits ==
  ASSUME NEW v \in DOMAIN Objects, v.k = "list"
  PROVE  Len(v.items) \in Nat /\ Len(v.items) <= Cardinality(DOMAIN Heap)
<1> DEFINE size == Len(v.items)
           at == Walk(Heap, encode(v))
           f == [i \in 0 .. size - 1 |-> Address(at[i])]
<1>1. size \in Nat \ {0}
  BY ListStep
<1>2. ASSUME NEW i \in 0 .. size - 1
      PROVE  \E u \in DOMAIN Objects : Len(u.items) = size - i /\ at[i] = Objects[u]
  <2>1. i \in 0 .. size /\ size - i # 0
    BY <1>1
  <2>2. PICK u : OnList(u, size - i) /\ at[i] = encode(u)
    BY <2>1, ListWalk
  <2> QED
    BY <2>1, <2>2, ObjectWord DEF OnList
<1> HIDE DEF size, at
<1>3. f \in [0 .. size - 1 -> DOMAIN Heap]
  <2>1. ASSUME NEW i \in 0 .. size - 1 PROVE Address(at[i]) \in DOMAIN Heap
    BY <1>2, ObjectWord
  <2> QED
    BY <2>1
<1>4. ASSUME NEW i \in 0 .. size - 1, NEW j \in 0 .. size - 1, f[i] = f[j]
      PROVE  i = j
  <2>1. PICK u \in DOMAIN Objects : Len(u.items) = size - i /\ at[i] = Objects[u]
    BY <1>2
  <2>2. PICK w \in DOMAIN Objects : Len(w.items) = size - j /\ at[j] = Objects[w]
    BY <1>2
  <2>3. Address(Objects[u]) = Address(Objects[w])
    BY <1>4, <2>1, <2>2
  <2>4. u = w
    BY <2>3, WordsAssumption
  <2>5. size - i = size - j
    BY <2>1, <2>2, <2>4
  <2> QED
    BY <1>1, <2>5
<1>5. IsFiniteSet(0 .. size - 1) /\ Cardinality(0 .. size - 1) = size
  BY <1>1, FS_Interval
<1>6. IsFiniteSet(DOMAIN Heap) /\ Cardinality(DOMAIN Heap) \in Nat
  BY WordsAssumption, FS_CardinalityType
<1> HIDE DEF f
<1>7. ~(Cardinality(DOMAIN Heap) < Cardinality(0 .. size - 1))
  <2> SUFFICES ASSUME Cardinality(DOMAIN Heap) < Cardinality(0 .. size - 1)
               PROVE  FALSE
    OBVIOUS
  <2>1. \E i, j \in 0 .. size - 1 : i # j /\ f[i] = f[j]
    <3> DEFINE S == 0 .. size - 1
               T == DOMAIN Heap
    <3>1. f \in [S -> T] /\ IsFiniteSet(S) /\ IsFiniteSet(T) /\ Cardinality(T) < Cardinality(S)
      BY <1>3, <1>5, <1>6
    <3> HIDE DEF S, T
    <3>2. \E i, j \in S : i # j /\ f[i] = f[j]
      BY <3>1, FS_PigeonHole
    <3> QED
      BY <3>2 DEF S
  <2> QED
    BY <1>4, <2>1
<1> QED
  BY <1>1, <1>5, <1>6, <1>7 DEF size

(* length/1 counts the items of a list.                                    *)
LEMMA LengthCounts ==
  ASSUME NEW v \in DOMAIN Objects, v.k = "list"
  PROVE  ListLength(Heap, encode(v)) = Ok(small(Len(v.items)))
<1> DEFINE size == Len(v.items)
           at == Walk(Heap, encode(v))
<1>1. size \in Nat /\ size <= Cardinality(DOMAIN Heap)
  BY ListFits
<1>2. ASSUME NEW i \in 0 .. size - 1 PROVE IsCell(Heap, at[i])
  <2>1. i \in 0 .. size /\ size - i # 0
    BY <1>1
  <2>2. PICK u : OnList(u, size - i) /\ at[i] = encode(u)
    BY <2>1, ListWalk
  <2> QED
    BY <2>1, <2>2, ListStep DEF OnList
<1>3. at[size] = nil
  <2>1. size \in 0 .. size /\ size - size = 0
    BY <1>1
  <2>2. PICK u : OnList(u, size - size) /\ at[size] = encode(u)
    BY <2>1, ListWalk
  <2> QED
    BY <2>1, <2>2, ConstantValues DEF OnList
<1>4. ~IsCell(Heap, at[size])
  BY <1>3, ConstantWords DEF IsCell
<1> HIDE DEF size
<1>5. Cells(Heap, encode(v)) = size
  BY <1>1, <1>2, <1>4, CellsAre, WordsAssumption
<1> QED
  BY <1>3, <1>5 DEF ListLength, size

(* ... none of nil, and refuses what is no list.                           *)
LEMMA LengthOfOthers ==
  ASSUME NEW w, ~is_list(w)
  PROVE  ListLength(Heap, w) = IF w = nil THEN Ok(small(0)) ELSE BadArg
<1>1. Walk(Heap, w)[0] = w /\ ~IsCell(Heap, w)
  BY WalkStep DEF IsCell
<1>2. Cells(Heap, w) = 0
  <2>1. 0 <= Cardinality(DOMAIN Heap) /\ IsFiniteSet(DOMAIN Heap)
    BY WordsAssumption, FS_CardinalityType
  <2>2. \A i \in 0 .. 0 - 1 : IsCell(Heap, Walk(Heap, w)[i])
    OBVIOUS
  <2> QED
    BY <1>1, <2>1, <2>2, CellsAre
<1> QED
  BY <1>1, <1>2 DEF ListLength

-----------------------------------------------------------------------------
(* The functions, one by one.                                              *)

(* The two atoms functions raise.                                          *)
LEMMA Reasons ==
  ASSUME NEW name \in {"badarg", "badarith"}
  PROVE  encode(ReasonV(name)) = AtomOf(name) /\ IsValue(ReasonV(name))
<1> DEFINE i == CHOOSE i \in DOMAIN AtomNames : AtomNames[i] = name
<1>1. DOMAIN AtomNames = 1 .. 42 /\ AtomNames[1] = "badarg" /\ AtomNames[2] = "badarith"
  BY DEF AtomNames
<1>2. \E j \in DOMAIN AtomNames : AtomNames[j] = name
  BY <1>1
<1>3. i \in 1 .. 42
  BY <1>1, <1>2
<1>4. AtomOf(name) = atom(i)
  BY DEF AtomOf
<1> HIDE DEF i
<1>5. i \in 0 .. 2^24 - 1
  BY <1>3
<1>6. ReasonV(name) = AtomV(i)
  BY <1>4, <1>5, AtomWord DEF ReasonV
<1>7. AtomV(i).k = "atom" /\ AtomV(i).n = i /\ encode(AtomV(i)) = atom(i)
  BY AtomValue
<1> QED
  BY <1>4, <1>5, <1>6, <1>7 DEF IsValue

LEMMA KindValue ==
  ASSUME NEW v, IsValue(v)
  PROVE  /\ v.k = "integer" => v.n \in Range0 /\ v.n \in Int /\ v = IntV(v.n)
         /\ v.k = "nil" => v = NilV
         /\ v.k \in Boxes \cup {"list"} => v \in DOMAIN Objects
<1>1. CASE \E n \in Range0 : v = IntV(n)
  BY <1>1, IntegerValue, InRange DEF Boxes
<1>2. CASE \E n \in 0 .. 2^24 - 1 : v = AtomV(n)
  BY <1>2, AtomValue DEF Boxes
<1>3. CASE v \in {NilV, BoolV(TRUE), BoolV(FALSE)}
  BY <1>3, ConstantValues DEF Boxes
<1>4. CASE v \in DOMAIN Objects
  BY <1>4, ObjectWord DEF Boxes
<1> QED
  BY <1>1, <1>2, <1>3, <1>4, ValueKinds

LEMMA IntegerIsValue ==
  ASSUME NEW n \in Range0
  PROVE  IsValue(IntV(n)) /\ n \in Int /\ encode(IntV(n)) = small(n)
BY IntegerValue, InRange DEF IsValue

LEMMA BooleanIsValue ==
  /\ IsValue(BoolV(TRUE)) /\ encode(BoolV(TRUE)) = bool(TRUE)
  /\ IsValue(BoolV(FALSE)) /\ encode(BoolV(FALSE)) = bool(FALSE)
BY ConstantValues DEF IsValue, bool

(* What an argument in the clear says about its word.                      *)
LEMMA ClearTells ==
  ASSUME NEW g, NEW v, IsValue(v), Clear(g, v)
  PROVE  /\ TestsTell(v) /\ Distinct(v)
         /\ g \in ReadsHeader => v.k \notin Constants
         /\ g \in {"is_atom", "send"} => (is_atom(encode(v)) <=> v.k = "atom")
         /\ g = "send" => (is_pid(encode(v)) \/ is_atom(encode(v)) <=> v.k = "atom")
<1>1. Distinct(v) /\ (g \in ReadsHeader => v.k \notin Constants)
  BY DEF Clear, Distinct, Constants
<1>2. TestsTell(v)
  BY <1>1, ValueTests
<1>3. v.k = "atom" => is_atom(encode(v))
  BY <1>2 DEF TestsTell
<1>4. v.k # "atom" /\ g \in {"is_atom", "send"} => encode(v)[2] # 1 /\ encode(v)[2] # 3
  BY DEF Clear
<1>5. v.k # "atom" /\ g \in {"is_atom", "send"} => ~is_atom(encode(v)) /\ ~is_pid(encode(v))
  BY <1>4 DEF is_atom, is_pid
<1> QED
  BY <1>1, <1>2, <1>3, <1>5

(* The call of a function ends as it should, with the word of its value.   *)
Agrees(m, out) == out.how = m.how /\ out.val = encode(m.val) /\ IsValue(m.val)
Bounded(m)     == m.val.k = "integer" => m.val.n \in Range0

LEMMA AgreeOn ==
  /\ \A v : IsValue(v) => Agrees(Gives(v), Ok(encode(v)))
  /\ \A v, how : IsValue(v) => Agrees(Raises(how, v), Raise(how, encode(v)))
  /\ Agrees(Raises("error", ReasonV("badarg")), BadArg)
  /\ Agrees(Raises("error", ReasonV("badarith")), BadArith)
  /\ \A n \in Range0 : Agrees(Gives(IntV(n)), Ok(small(n)))
  /\ \A n \in Int : Bounded(Gives(IntV(n))) => n \in Range0
  /\ Agrees(Gives(BoolV(TRUE)), Ok(bool(TRUE)))
  /\ Agrees(Gives(BoolV(FALSE)), Ok(bool(FALSE)))
<1>1. \A v : IsValue(v) => Agrees(Gives(v), Ok(encode(v)))
  BY DEF Agrees, Gives, Ok
<1>2. \A v, how : IsValue(v) => Agrees(Raises(how, v), Raise(how, encode(v)))
  BY DEF Agrees, Raises, Raise
<1>3. /\ Agrees(Raises("error", ReasonV("badarg")), BadArg)
      /\ Agrees(Raises("error", ReasonV("badarith")), BadArith)
  BY <1>2, Reasons, Zenon DEF BadArg, BadArith
<1>4. \A n \in Range0 : Agrees(Gives(IntV(n)), Ok(small(n)))
  BY <1>1, IntegerIsValue, Zenon
<1>5. \A n \in Int : Bounded(Gives(IntV(n))) => n \in Range0
  BY IntegerValue DEF Bounded, Gives
<1>6. /\ Agrees(Gives(BoolV(TRUE)), Ok(bool(TRUE)))
      /\ Agrees(Gives(BoolV(FALSE)), Ok(bool(FALSE)))
  BY <1>1, BooleanIsValue, Zenon
<1> QED
  BY <1>1, <1>2, <1>3, <1>4, <1>5, <1>6, Zenon

(* The tests of a value's kind.                                            *)
LEMMA TestAgrees ==
  ASSUME NEW g \in DOMAIN KindsOf, NEW v, IsValue(v), Clear(g, v), ~Misnamed(g, v)
  PROVE  Agrees(Mean1(g, v), Bif1(Heap, g, encode(v)))
<1> DEFINE w == encode(v)
<1>1. /\ TestsTell(v) /\ (g \in ReadsHeader => v.k \notin Constants)
      /\ g = "is_atom" => (is_atom(w) <=> v.k = "atom")
  BY ClearTells
<1>2. g \in {"is_integer", "is_atom", "is_boolean", "is_tuple", "is_list", "is_float",
             "is_map", "is_number"}
  BY DEF KindsOf
<1>3. ~(g \in ReadsHeader /\ ~is_small(w) /\ Faults(Heap, w))
  BY <1>1 DEF TestsTell
<1>4. g \in TypeTests
  BY <1>2 DEF TypeTests
<1>5. Bif1(Heap, g, w) = Ok(bool(Holds(Heap, g, w)))
  BY <1>2, <1>3, <1>4 DEF Bif1, Raising
<1>6. Mean1(g, v) = Gives(BoolV(v.k \in KindsOf[g]))
  BY <1>2 DEF Mean1
<1>7. Holds(Heap, g, w) <=> v.k \in KindsOf[g]
  <2>1. CASE g = "is_integer"
    BY <1>1, <2>1 DEF Holds, KindsOf, TestsTell
  <2>2. CASE g = "is_atom"
    BY <1>1, <2>2 DEF Holds, KindsOf, Misnamed
  <2>3. CASE g = "is_boolean"
    BY <1>1, <2>3 DEF Holds, KindsOf, TestsTell
  <2>4. CASE g = "is_tuple"
    <3>1. v.k \notin Constants
      BY <1>1, <2>4 DEF ReadsHeader
    <3> QED
      BY <1>1, <2>4, <3>1 DEF Holds, KindsOf, TestsTell
  <2>5. CASE g = "is_list"
    BY <1>1, <2>5 DEF Holds, KindsOf, TestsTell, Misnamed
  <2>6. CASE g = "is_float"
    <3>1. v.k \notin Constants
      BY <1>1, <2>6 DEF ReadsHeader
    <3> QED
      BY <1>1, <2>6, <3>1 DEF Holds, KindsOf, TestsTell
  <2>7. CASE g = "is_map"
    <3>1. v.k \notin Constants
      BY <1>1, <2>7 DEF ReadsHeader
    <3> QED
      BY <1>1, <2>7, <3>1 DEF Holds, KindsOf, TestsTell
  <2>8. CASE g = "is_number"
    <3>1. v.k \notin Constants
      BY <1>1, <2>8 DEF ReadsHeader
    <3> QED
      BY <1>1, <2>8, <3>1 DEF Holds, KindsOf, TestsTell
  <2> QED
    BY <1>2, <2>1, <2>2, <2>3, <2>4, <2>5, <2>6, <2>7, <2>8
<1> HIDE DEF w
<1>8. CASE v.k \in KindsOf[g]
  <2>1. bool(Holds(Heap, g, w)) = bool(TRUE)
    BY <1>7, <1>8 DEF bool
  <2>2. BoolV(v.k \in KindsOf[g]) = BoolV(TRUE)
    BY <1>8 DEF BoolV
  <2> QED
    BY <1>5, <1>6, <2>1, <2>2, AgreeOn DEF w
<1>9. CASE v.k \notin KindsOf[g]
  <2>1. bool(Holds(Heap, g, w)) = bool(FALSE)
    BY <1>7, <1>9 DEF bool
  <2>2. BoolV(v.k \in KindsOf[g]) = BoolV(FALSE)
    BY <1>9 DEF BoolV
  <2> QED
    BY <1>5, <1>6, <2>1, <2>2, AgreeOn DEF w
<1> QED
  BY <1>8, <1>9

(* Every function of one argument.                                         *)
LEMMA Call1Agrees ==
  ASSUME NEW g \in One, NEW v, IsValue(v), Clear(g, v), ~Misnamed(g, v),
         Bounded(Mean1(g, v))
  PROVE  Agrees(Mean1(g, v), Bif1(Heap, g, encode(v)))
<1> DEFINE w == encode(v)
<1>1. TestsTell(v) /\ (g \in ReadsHeader => v.k \notin Constants)
  BY ClearTells
<1>2. ~(g \in ReadsHeader /\ ~is_small(w) /\ Faults(Heap, w))
  BY <1>1 DEF TestsTell
<1>3. CASE g \in DOMAIN KindsOf
  BY <1>3, TestAgrees
<1>4. CASE g \in {"error", "throw", "exit"}
  <2>1. Bif1(Heap, g, w) = Raise(g, w)
    BY <1>2, <1>4 DEF Bif1, Raising, TypeTests
  <2>2. Mean1(g, v) = Raises(g, v)
    BY <1>4 DEF Mean1, KindsOf
  <2> QED
    BY <2>1, <2>2, AgreeOn
<1>5. CASE g = "-"
  <2>1. Bif1(Heap, g, w) = IF is_small(w) THEN Ok(small(-get_small(w))) ELSE BadArith
    BY <1>2, <1>5 DEF Bif1, Raising, TypeTests
  <2>2. Mean1(g, v) = IF v.k = "integer" THEN Gives(IntV(-v.n)) ELSE Raises("error", ReasonV("badarith"))
    BY <1>5 DEF Mean1, KindsOf
  <2>3. CASE v.k = "integer"
    <3>1. v.n \in Int /\ v = IntV(v.n)
      BY <2>3, KindValue
    <3>2. is_small(w) /\ get_small(w) = v.n
      BY <3>1, IntegerValue, SmallWord
    <3>3. Mean1(g, v) = Gives(IntV(-v.n)) /\ Bif1(Heap, g, w) = Ok(small(-v.n))
      BY <2>1, <2>2, <2>3, <3>2
    <3>4. -v.n \in Range0
      BY <3>1, <3>3, AgreeOn
    <3> QED
      BY <3>3, <3>4, AgreeOn
  <2>4. CASE v.k # "integer"
    <3>1. ~is_small(w)
      BY <1>1, <2>4 DEF TestsTell
    <3> QED
      BY <2>1, <2>2, <2>4, <3>1, AgreeOn
  <2> QED
    BY <2>3, <2>4
<1>6. CASE g = "tuple_size"
  <2>1. v.k \notin Constants
    BY <1>1, <1>6 DEF ReadsHeader
  <2>2. Bif1(Heap, g, w) = IF is_tuple(Heap, w) THEN Ok(small(HeaderArity(Object(Heap, w)[1]))) ELSE BadArg
    BY <1>2, <1>6 DEF Bif1, Raising, TypeTests
  <2>3. CASE v.k = "tuple"
    <3>1. v \in DOMAIN Objects
      BY <2>3, KindValue DEF Boxes
    <3>2. v.n \in Nat /\ v.n \in Range0 /\ Object(Heap, w)[1] = header(0, v.n)
      BY <2>3, <3>1, ObjectWord, WordsAssumption DEF Range0
    <3>3. HeaderArity(Object(Heap, w)[1]) = v.n
      BY <3>2, HeaderWord
    <3>4. is_tuple(Heap, w)
      BY <1>1, <2>1, <2>3 DEF TestsTell
    <3>5. Mean1(g, v) = Gives(IntV(v.n))
      BY <1>6, <2>3 DEF Mean1, KindsOf
    <3> QED
      BY <2>2, <3>2, <3>3, <3>4, <3>5, AgreeOn
  <2>4. CASE v.k # "tuple"
    <3>1. ~is_tuple(Heap, w)
      BY <1>1, <2>1, <2>4 DEF TestsTell
    <3>2. Mean1(g, v) = Raises("error", ReasonV("badarg"))
      BY <1>6, <2>4 DEF Mean1, KindsOf
    <3> QED
      BY <2>2, <3>1, <3>2, AgreeOn
  <2> QED
    BY <2>3, <2>4
<1>7. CASE g = "length"
  <2>1. Bif1(Heap, g, w) = ListLength(Heap, w)
    BY <1>2, <1>7 DEF Bif1, Raising, TypeTests
  <2>2. CASE v.k = "list"
    <3>1. v \in DOMAIN Objects /\ v # NilV
      BY <2>2, KindValue, ConstantValues
    <3>2. Mean1(g, v) = Gives(IntV(Len(v.items)))
      BY <1>7, <2>2, <3>1 DEF Mean1, KindsOf
    <3>3. Len(v.items) \in Nat
      BY <2>2, <3>1, ListFits
    <3>4. Len(v.items) \in Range0
      BY <3>2, <3>3, AgreeOn
    <3>5. Bif1(Heap, g, w) = Ok(small(Len(v.items)))
      BY <2>1, <2>2, <3>1, LengthCounts
    <3> QED
      BY <3>2, <3>4, <3>5, AgreeOn
  <2>3. CASE v.k = "nil"
    <3>1. v = NilV /\ w = nil
      BY <1>1, <2>3, KindValue DEF TestsTell
    <3>2. Mean1(g, v) = Gives(IntV(0))
      BY <1>7, <2>3, <3>1 DEF Mean1, KindsOf
    <3>3. ~is_list(w)
      BY <3>1, ConstantWords
    <3>4. Bif1(Heap, g, w) = Ok(small(0))
      BY <2>1, <3>1, <3>3, LengthOfOthers
    <3>5. 0 \in Range0
      BY WordsAssumption DEF Range0
    <3> QED
      BY <3>2, <3>4, <3>5, AgreeOn
  <2>4. CASE v.k \notin {"list", "nil"}
    <3>1. ~is_list(w) /\ w # nil
      BY <1>1, <2>4 DEF TestsTell
    <3>2. Mean1(g, v) = Raises("error", ReasonV("badarg"))
      BY <1>7, <2>4 DEF Mean1, KindsOf
    <3>3. Bif1(Heap, g, w) = BadArg
      BY <2>1, <3>1, LengthOfOthers
    <3> QED
      BY <3>2, <3>3, AgreeOn
  <2> QED
    BY <2>2, <2>3, <2>4
<1>8. CASE g \in {"hd", "tl"}
  <2> DEFINE i == IF g = "hd" THEN 1 ELSE 2
  <2>1. Bif1(Heap, g, w) = Cell(Heap, w, i)
    BY <1>2, <1>8 DEF Bif1, Raising, TypeTests
  <2>2. CASE v.k = "list"
    <3>1. v \in DOMAIN Objects
      BY <2>2, KindValue
    <3>2. /\ is_list(w) /\ Address(w) \in DOMAIN Heap
          /\ v.items \in Seq(Values) \ {<<>>} /\ Rest(v) \in {NilV} \cup DOMAIN Objects
          /\ Object(Heap, w)[1] = encode(v.items[1])
          /\ Object(Heap, w)[2] = encode(Rest(v))
      BY <2>2, <3>1, ObjectWord
    <3>3. v.items[1] \in Values
      BY <3>2, EmptySeq, LenProperties
    <3>4. IsValue(v.items[1]) /\ IsValue(Rest(v))
      BY <3>2, <3>3, WordsAssumption DEF IsValue
    <3>5. Cell(Heap, w, i) = Ok(Object(Heap, w)[i])
      BY <3>2 DEF Cell
    <3>6. CASE g = "hd"
      <4>1. Mean1(g, v) = Gives(v.items[1]) /\ i = 1
        BY <2>2, <3>6 DEF Mean1, KindsOf
      <4>2. Bif1(Heap, g, w) = Ok(encode(v.items[1]))
        BY <2>1, <3>2, <3>5, <4>1, Zenon
      <4> QED
        BY <3>4, <4>1, <4>2, AgreeOn, Zenon
    <3>7. CASE g = "tl"
      <4>1. Mean1(g, v) = Gives(Rest(v)) /\ i = 2
        BY <2>2, <3>7 DEF Mean1, KindsOf
      <4>2. Bif1(Heap, g, w) = Ok(encode(Rest(v)))
        BY <2>1, <3>2, <3>5, <4>1, Zenon
      <4> QED
        BY <3>4, <4>1, <4>2, AgreeOn, Zenon
    <3> QED
      BY <1>8, <3>6, <3>7
  <2>3. CASE v.k # "list"
    <3>1. ~is_list(w)
      BY <1>1, <2>3 DEF TestsTell
    <3>2. Mean1(g, v) = Raises("error", ReasonV("badarg"))
      BY <1>8, <2>3 DEF Mean1, KindsOf
    <3>3. Bif1(Heap, g, w) = BadArg
      BY <2>1, <3>1 DEF Cell
    <3> QED
      BY <3>2, <3>3, AgreeOn
  <2> QED
    BY <2>2, <2>3
<1>9. \/ g \in DOMAIN KindsOf \/ g \in {"error", "throw", "exit"}
      \/ g \in {"-", "tuple_size", "length", "hd", "tl"}
  BY DEF One
<1> QED
  BY <1>3, <1>4, <1>5, <1>6, <1>7, <1>8, <1>9

LEMMA ArithmeticAgrees ==
  ASSUME NEW g \in Arithmetic, NEW v, IsValue(v), Clear(g, v), NEW x, IsValue(x), Clear(g, x),
         Bounded(Mean2(g, v, x))
  PROVE  Agrees(Mean2(g, v, x), Bif2(Heap, g, encode(v), encode(x)))
<1>1. TestsTell(v) /\ TestsTell(x)
  BY ClearTells
<1>2. Bif2(Heap, g, encode(v), encode(x)) =
        IF is_small(encode(v)) /\ is_small(encode(x))
        THEN Calculate(g, get_small(encode(v)), get_small(encode(x))) ELSE BadArith
  BY DEF Bif2, Arithmetic
<1>3. /\ Numbers(g, v, x) => Mean2(g, v, x) = Gives(IntV(Total(g, v.n, x.n)))
      /\ ~Numbers(g, v, x) => Mean2(g, v, x) = Raises("error", ReasonV("badarith"))
  BY DEF Mean2, Arithmetic
<1>4. CASE v.k = "integer" /\ x.k = "integer"
  <2>1. /\ v.n \in Range0 /\ v.n \in Int /\ v = IntV(v.n)
        /\ x.n \in Range0 /\ x.n \in Int /\ x = IntV(x.n)
    BY <1>4, KindValue
  <2>2. PICK a \in Int, b \in Int : a = v.n /\ b = x.n
    BY <2>1
  <2>3. /\ is_small(encode(v)) /\ get_small(encode(v)) = a
        /\ is_small(encode(x)) /\ get_small(encode(x)) = b
    BY <2>1, <2>2, IntegerValue, SmallWord
  <2>4. Bif2(Heap, g, encode(v), encode(x)) = Calculate(g, a, b)
    BY <1>2, <2>3
  <2>5. CASE g \in {"div", "rem"} /\ b = 0
    <3>1. Mean2(g, v, x) = Raises("error", ReasonV("badarith"))
      BY <1>3, <2>2, <2>5 DEF Numbers
    <3>2. Calculate(g, a, b) = BadArith
      BY <2>5 DEF Calculate
    <3> QED
      BY <2>4, <3>1, <3>2, AgreeOn
  <2>6. CASE ~(g \in {"div", "rem"} /\ b = 0)
    <3>1. Mean2(g, v, x) = Gives(IntV(Total(g, a, b)))
      BY <1>3, <1>4, <2>2, <2>6 DEF Numbers
    <3>2. Total(g, a, b) \in Int /\ Calculate(g, a, b) = Ok(small(Total(g, a, b)))
      <4>1. CASE g = "+"
        BY <4>1 DEF Total, Calculate
      <4>2. CASE g = "-"
        BY <4>2 DEF Total, Calculate
      <4>3. CASE g = "*"
        BY <4>3 DEF Total, Calculate
      <4>4. CASE g = "div"
        <5>1. b # 0 /\ Total(g, a, b) = Quotient(a, b)
          BY <2>1, <2>2, <2>6, <4>4, TotalDiv
        <5>2. Quotient(a, b) \in Int
          BY <5>1, DividesQuotient
        <5> QED
          BY <4>4, <5>1, <5>2 DEF Calculate
      <4>5. CASE g = "rem"
        <5>1. b # 0 /\ Total(g, a, b) = Remainder(a, b)
          BY <2>1, <2>2, <2>6, <4>5, TotalDiv
        <5>2. Remainder(a, b) \in Int
          BY <5>1, DividesQuotient
        <5> QED
          BY <4>5, <5>1, <5>2 DEF Calculate
      <4> QED
        BY <4>1, <4>2, <4>3, <4>4, <4>5 DEF Arithmetic
    <3>3. Total(g, a, b) \in Range0
      BY <3>1, <3>2, AgreeOn
    <3> QED
      BY <2>4, <3>1, <3>2, <3>3, AgreeOn
  <2> QED
    BY <2>5, <2>6
<1>5. CASE ~(v.k = "integer" /\ x.k = "integer")
  <2>1. ~(is_small(encode(v)) /\ is_small(encode(x)))
    BY <1>1, <1>5 DEF TestsTell
  <2>2. ~Numbers(g, v, x)
    BY <1>5 DEF Numbers
  <2> QED
    BY <1>2, <1>3, <2>1, <2>2, AgreeOn
<1> QED
  BY <1>4, <1>5

(* Every function of two arguments.                                        *)
LEMMA Call2Agrees ==
  ASSUME NEW g \in Two, NEW v, IsValue(v), Clear(g, v), NEW x, IsValue(x), Clear(g, x),
         Bounded(Mean2(g, v, x))
  PROVE  Agrees(Mean2(g, v, x), Bif2(Heap, g, encode(v), encode(x)))
<1>1. Distinct(v) /\ Distinct(x)
  BY ClearTells
<1>2. v = x <=> encode(v) = encode(x)
  BY <1>1, EncodeInjective
<1>3. CASE g \in Arithmetic
  BY <1>3, ArithmeticAgrees
<1>4. CASE g \in Equalities
  <2> DEFINE same == g \in {"==", "=:="}
  <2>1. Bif2(Heap, g, encode(v), encode(x)) =
          IF same THEN Ok(bool(encode(v) = encode(x))) ELSE Ok(bool(encode(v) # encode(x)))
    BY <1>4 DEF Bif2, Equalities, Arithmetic
  <2>2. Mean2(g, v, x) = IF same THEN Gives(BoolV(v = x)) ELSE Gives(BoolV(v # x))
    BY <1>4 DEF Mean2, Equalities, Arithmetic
  <2>3. CASE v = x
    <3>1. /\ BoolV(v = x) = BoolV(TRUE) /\ BoolV(v # x) = BoolV(FALSE)
          /\ bool(encode(v) = encode(x)) = bool(TRUE) /\ bool(encode(v) # encode(x)) = bool(FALSE)
      BY <2>3 DEF BoolV, bool
    <3> QED
      BY <2>1, <2>2, <3>1, AgreeOn
  <2>4. CASE v # x
    <3>1. /\ BoolV(v = x) = BoolV(FALSE) /\ BoolV(v # x) = BoolV(TRUE)
          /\ bool(encode(v) = encode(x)) = bool(FALSE) /\ bool(encode(v) # encode(x)) = bool(TRUE)
      BY <1>2, <2>4 DEF BoolV, bool
    <3> QED
      BY <2>1, <2>2, <3>1, AgreeOn
  <2> QED
    BY <2>3, <2>4
<1>5. CASE g = "send"
  <2>1. is_pid(encode(v)) \/ is_atom(encode(v)) <=> v.k = "atom"
    BY <1>5, ClearTells
  <2>2. Bif2(Heap, g, encode(v), encode(x)) =
          IF is_pid(encode(v)) \/ is_atom(encode(v)) THEN Ok(encode(x)) ELSE BadArg
    BY <1>5 DEF Bif2, Arithmetic
  <2>3. Mean2(g, v, x) = IF v.k = "atom" THEN Gives(x) ELSE Raises("error", ReasonV("badarg"))
    BY <1>5 DEF Mean2, Arithmetic
  <2> QED
    BY <2>1, <2>2, <2>3, AgreeOn
<1> QED
  BY <1>3, <1>4, <1>5 DEF Two

-----------------------------------------------------------------------------
(* The word is that of a value: this is kept by every call.                *)
WordInv == IsValue(val) /\ WordMeansValue

LEMMA CallArguments ==
  ASSUME NEW g, NEW w, NEW x
  PROVE  /\ Bif(Heap, Pid, g, <<w>>) = Bif1(Heap, g, w)
         /\ Bif(Heap, Pid, g, <<w, x>>) = Bif2(Heap, g, w, x)
BY DEF Bif

LEMMA WordInit == WordsInit => WordInv
BY WordsAssumption DEF WordsInit, WordInv, WordMeansValue

LEMMA AnswerKeeps ==
  ASSUME NEW m, NEW out, Answer(m, out), Bounded(m) => Agrees(m, out)
  PROVE  WordInv'
<1>1. Agrees(m, out)
  BY DEF Answer, Bounded
<1>2. val' = m.val /\ meant' = m.how /\ word' = out.val /\ ended' = out.how
  BY DEF Answer
<1>3. word' = encode(val') /\ ended' = meant' /\ IsValue(val')
  BY <1>1, <1>2 DEF Agrees
<1> QED
  BY <1>3 DEF WordInv, WordMeansValue

LEMMA WordStep == WordInv /\ [WordsNext]_wvars => WordInv'
<1> SUFFICES ASSUME WordInv, [WordsNext]_wvars PROVE WordInv'
  OBVIOUS
<1>1. IsValue(val) /\ word = encode(val)
  BY DEF WordInv, WordMeansValue
<1>2. ASSUME NEW g \in One, Call1(g) PROVE WordInv'
  <2>1. /\ Clear(g, val) /\ ~Misnamed(g, val)
        /\ Answer(Mean1(g, val), Bif1(Heap, g, encode(val)))
    BY <1>1, <1>2, CallArguments DEF Call1
  <2>2. Bounded(Mean1(g, val)) => Agrees(Mean1(g, val), Bif1(Heap, g, encode(val)))
    BY <1>1, <2>1, Call1Agrees
  <2> QED
    BY <2>1, <2>2, AnswerKeeps
<1>3. ASSUME NEW g \in Two, NEW x \in Values, Call2(g, x) PROVE WordInv'
  <2>1. /\ Clear(g, val) /\ Clear(g, x) /\ IsValue(x)
        /\ Answer(Mean2(g, val, x), Bif2(Heap, g, encode(val), encode(x)))
    BY <1>1, <1>3, CallArguments, WordsAssumption DEF Call2
  <2>2. Bounded(Mean2(g, val, x)) =>
          Agrees(Mean2(g, val, x), Bif2(Heap, g, encode(val), encode(x)))
    BY <1>1, <2>1, Call2Agrees
  <2> QED
    BY <2>1, <2>2, AnswerKeeps
<1>4. CASE UNCHANGED wvars
  BY <1>4 DEF wvars, WordInv, WordMeansValue
<1> QED
  BY <1>2, <1>3, <1>4 DEF WordsNext

LEMMA WordInvHolds == WordsSpec => []WordInv
BY WordInit, WordStep, PTL DEF WordsSpec

(* However built-in functions are chained, the word is that of the value   *)
(* the calls have in the language, and a call raises exactly when it       *)
(* should, the tests of Misnamed left out (bif.rs, term.rs).               *)
THEOREM WordsMeanValues == WordsSpec => []WordMeansValue
<1>1. WordInv => WordMeansValue
  BY DEF WordInv
<1> QED
  BY <1>1, WordInvHolds, PTL

-----------------------------------------------------------------------------
(* The interpreter's instructions compute what the functions compute.      *)

LEMMA ArithIsBif ==
  ASSUME NEW k \in DOMAIN BifOf, NEW w, NEW x
  PROVE  LET out == Bif2(Heap, BifOf[k], w, x)
         IN  Arith(k, w, x) = IF out.how = "ok" THEN out.val ELSE nil
<1> DEFINE f == BifOf[k]
           r == Calculate(f, get_small(w), get_small(x))
<1>1. k \in {"Add", "Sub", "Mul", "Div", "Rem"} /\ f \in Arithmetic
  BY DEF BifOf, Arithmetic
<1> HIDE DEF f, r
<1>2. Bif2(Heap, f, w, x) = IF is_small(w) /\ is_small(x) THEN r ELSE BadArith
  BY <1>1 DEF Bif2, Arithmetic, r
<1>3. Arith(k, w, x) = IF is_small(w) /\ is_small(x) /\ r.how = "ok" THEN r.val ELSE nil
  BY <1>1 DEF Arith, r, f
<1>4. BadArith.how # "ok"
  BY DEF BadArith, Raise
<1> QED
  BY <1>2, <1>3, <1>4 DEF f

LEMMA TestIsBif ==
  ASSUME NEW v, IsValue(v), NEW k \in DOMAIN TestOf, Clear(TestOf[k], v)
  PROVE  bool(Test(k, encode(v))) = Bif1(Heap, TestOf[k], encode(v)).val
<1> DEFINE f == TestOf[k]
           w == encode(v)
<1>1. TestsTell(v) /\ (f \in ReadsHeader => v.k \notin Constants)
  BY ClearTells
<1>2. ~(f \in ReadsHeader /\ ~is_small(w) /\ Faults(Heap, w))
  BY <1>1 DEF TestsTell
<1>3. f \in TypeTests /\ f \notin Raising
  BY DEF TestOf, TypeTests, Raising
<1>4. Bif1(Heap, f, w) = Ok(bool(Holds(Heap, f, w)))
  BY <1>2, <1>3 DEF Bif1, Raising, TypeTests
<1>5. Test(k, w) = Holds(Heap, f, w)
  BY DEF Test, TestOf
<1> QED
  BY <1>4, <1>5 DEF Ok

(* An arithmetic instruction or a type test of the interpreter gives what  *)
(* the built-in function gives for the words that calls produce, with nil  *)
(* where the function raises (interpreter.rs beside bif.rs).               *)
THEOREM InstructionsMatchBifs == WordsSpec => []InstructionMatchesBif
<1>1. WordInv => InstructionMatchesBif
  <2> SUFFICES ASSUME WordInv, NEW v \in Values
               PROVE  /\ \A k \in DOMAIN BifOf :
                           LET out == Bif(Heap, Pid, BifOf[k], <<word, encode(v)>>)
                           IN  Arith(k, word, encode(v)) = IF out.how = "ok" THEN out.val ELSE nil
                      /\ \A k \in DOMAIN TestOf :
                           Clear(TestOf[k], val) =>
                             bool(Test(k, word)) = Bif(Heap, Pid, TestOf[k], <<word>>).val
    BY DEF InstructionMatchesBif
  <2>1. IsValue(val) /\ word = encode(val)
    BY DEF WordInv, WordMeansValue
  <2> QED
    BY <2>1, CallArguments, ArithIsBif, TestIsBif
<1> QED
  BY <1>1, WordInvHolds, PTL
=============================================================================
