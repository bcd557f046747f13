----------------------------- MODULE SeqLemmas -----------------------------
(* What Append and Tail do to the elements of a sequence; every queue of   *)
(* the runtime is one; and the least-number principle, which stands in     *)
(* for induction over positions.                                           *)
EXTENDS Integers, Sequences, Functions, SequenceTheorems,
        WellFoundedInduction, TLAPS

(* Appending adds exactly the new element.                                 *)
LEMMA RangeAppend ==
  ASSUME NEW S, NEW s \in Seq(S), NEW e \in S
  PROVE  Range(Append(s, e)) = Range(s) \cup {e}
<1> DEFINE t == Append(s, e)
<1>1. /\ Len(t) = Len(s) + 1 /\ Len(s) \in Nat
      /\ DOMAIN t = 1 .. Len(s) + 1 /\ DOMAIN s = 1 .. Len(s)
      /\ \A i \in 1 .. Len(s) : t[i] = s[i]
      /\ t[Len(s) + 1] = e
  BY AppendProperties, LenProperties
<1> HIDE DEF t
<1>2. Range(t) \subseteq Range(s) \cup {e}
  <2> SUFFICES ASSUME NEW i \in DOMAIN t PROVE t[i] \in Range(s) \cup {e}
    BY Zenon DEF Range
  <2>1. CASE i = Len(s) + 1
    BY <1>1, <2>1
  <2>2. CASE i # Len(s) + 1
    <3>1. i \in 1 .. Len(s)
      BY <1>1, <2>2
    <3>2. QED
      BY <1>1, <3>1 DEF Range
  <2>3. QED
    BY <2>1, <2>2
<1>3. Range(s) \cup {e} \subseteq Range(t)
  <2>1. ASSUME NEW i \in DOMAIN s PROVE s[i] \in Range(t)
    <3>1. i \in DOMAIN t /\ t[i] = s[i]
      BY <1>1
    <3>2. QED
      BY <3>1 DEF Range
  <2>2. e \in Range(t)
    <3>1. Len(s) + 1 \in DOMAIN t
      BY <1>1
    <3>2. QED
      BY <1>1, <3>1 DEF Range
  <2>3. QED
    BY <2>1, <2>2, Zenon DEF Range
<1>4. QED
  BY <1>2, <1>3 DEF t

(* The elements are the head and the elements of the tail.                 *)
LEMMA RangeHeadTail ==
  ASSUME NEW S, NEW s \in Seq(S), s # <<>>
  PROVE  Range(s) = {Head(s)} \cup Range(Tail(s))
<1>1. /\ Len(s) \in Nat \ {0} /\ DOMAIN s = 1 .. Len(s) /\ Head(s) = s[1]
      /\ DOMAIN Tail(s) = 1 .. Len(s) - 1
      /\ \A i \in 1 .. Len(s) - 1 : Tail(s)[i] = s[i + 1]
  BY HeadTailProperties, LenProperties, EmptySeq
<1>2. ASSUME NEW i \in DOMAIN s PROVE s[i] \in {Head(s)} \cup Range(Tail(s))
  <2>1. CASE i = 1
    BY <1>1, <2>1
  <2>2. CASE i # 1
    <3>1. i - 1 \in DOMAIN Tail(s) /\ Tail(s)[i - 1] = s[i]
      BY <1>1, <2>2
    <3>2. QED
      BY <3>1 DEF Range
  <2>3. QED
    BY <2>1, <2>2
<1>3. ASSUME NEW i \in DOMAIN Tail(s) PROVE Tail(s)[i] \in Range(s)
  <2>1. i + 1 \in DOMAIN s /\ Tail(s)[i] = s[i + 1]
    BY <1>1
  <2>2. QED
    BY <2>1 DEF Range
<1>4. Head(s) \in Range(s)
  <2>1. 1 \in DOMAIN s
    BY <1>1
  <2>2. QED
    BY <1>1, <2>1 DEF Range
<1>5. QED
  BY <1>2, <1>3, <1>4, Zenon DEF Range

(* Taking the last element of a sequence off leaves the others in place.   *)
LEMMA LastOff ==
  ASSUME NEW S, NEW s \in Seq(S), s # <<>>
  PROVE  /\ Len(s) \in Nat \ {0} /\ DOMAIN s = 1 .. Len(s)
         /\ s[Len(s)] \in S
         /\ SubSeq(s, 1, Len(s) - 1) \in Seq(S)
         /\ DOMAIN SubSeq(s, 1, Len(s) - 1) = 1 .. Len(s) - 1
         /\ \A i \in 1 .. Len(s) - 1 : SubSeq(s, 1, Len(s) - 1)[i] = s[i]
         /\ Range(s) = Range(SubSeq(s, 1, Len(s) - 1)) \cup {s[Len(s)]}
<1> DEFINE n == Len(s) - 1
           t == SubSeq(s, 1, n)
<1>1. /\ Len(s) \in Nat \ {0} /\ DOMAIN s = 1 .. Len(s) /\ s[Len(s)] \in S
      /\ \A i \in 1 .. Len(s) : s[i] \in S
  BY LenProperties, EmptySeq, ElementOfSeq
<1>2. n \in 0 .. Len(s) /\ 1 .. n \subseteq 1 .. Len(s)
  BY <1>1
<1>3. t \in Seq(S) /\ Len(t) = n /\ \A i \in 1 .. n : t[i] = s[i]
  <2>1. \A i \in 1 .. n : s[i] \in S
    BY <1>1
  <2>2. QED
    BY <1>1, <1>2, <2>1
<1>4. DOMAIN t = 1 .. n
  BY <1>3, LenProperties
<1> HIDE DEF t
<1>5. Range(s) \subseteq Range(t) \cup {s[Len(s)]}
  <2> SUFFICES ASSUME NEW i \in DOMAIN s PROVE s[i] \in Range(t) \cup {s[Len(s)]}
    BY Zenon DEF Range
  <2>1. i = Len(s) \/ i \in DOMAIN t
    BY <1>1, <1>4
  <2>2. i \in DOMAIN t => t[i] = s[i]
    BY <1>3, <1>4
  <2>3. QED
    BY <2>1, <2>2 DEF Range
<1>6. Range(t) \subseteq Range(s)
  <2> SUFFICES ASSUME NEW i \in DOMAIN t PROVE t[i] \in Range(s)
    BY Zenon DEF Range
  <2>1. i \in DOMAIN s /\ t[i] = s[i]
    BY <1>1, <1>3, <1>4
  <2>2. QED
    BY <2>1 DEF Range
<1>7. s[Len(s)] \in Range(s)
  BY <1>1 DEF Range
<1>8. QED
  BY <1>1, <1>3, <1>4, <1>5, <1>6, <1>7 DEF t

(* A sequence's elements lie in the set it is over; none when it is empty. *)
LEMMA RangeType ==
  ASSUME NEW S, NEW s \in Seq(S)
  PROVE  Range(s) \subseteq S
BY ElementOfSeq, LenProperties DEF Range

LEMMA RangeEmpty == Range(<<>>) = {}
BY DEF Range

(* A non-empty set of naturals has a least element.                        *)
LEMMA LeastNat ==
  ASSUME NEW T, T \subseteq Nat, T # {}
  PROVE  \E x \in T : \A y \in T : x <= y
<1> DEFINE R == {ss \in Nat \X Nat : ss[1] < ss[2]}
<1>1. IsWellFoundedOn(R, Nat)
  BY NatLessThanWellFounded, Zenon DEF OpToRel
<1> HIDE DEF R
<1>2. PICK x \in T : \A y \in T : ~ (<<y, x>> \in R)
  BY <1>1, WFMin, Zenon
<1>3. ASSUME NEW y \in T PROVE x <= y
  <2>1. x \in Nat /\ y \in Nat
    OBVIOUS
  <2>2. y < x => <<y, x>> \in R
    BY <2>1 DEF R
  <2>3. ~ (y < x)
    BY <1>2, <2>2
  <2>4. QED
    BY <2>1, <2>3
<1>4. QED
  BY <1>3

(* A non-empty set of naturals with a bound has a greatest element.        *)
LEMMA GreatestNat ==
  ASSUME NEW T, T \subseteq Nat, T # {}, NEW n \in Nat, \A x \in T : x <= n
  PROVE  \E x \in T : \A y \in T : x >= y
<1> DEFINE bounds == {k \in Nat : \A y \in T : y <= k}
<1>1. n \in bounds
  OBVIOUS
<1>2. bounds \subseteq Nat
  OBVIOUS
<1>3. PICK k \in bounds : \A j \in bounds : k <= j
  <2> HIDE DEF bounds
  <2> QED
    BY <1>1, <1>2, LeastNat
<1>4. k \in Nat /\ \A y \in T : y <= k
  OBVIOUS
<1>5. ASSUME k \notin T PROVE FALSE
  <2>1. \A y \in T : y < k /\ y \in Nat
    BY <1>4, <1>5
  <2>2. PICK y \in T : TRUE
    OBVIOUS
  <2>3. k - 1 \in Nat /\ \A z \in T : z <= k - 1
    BY <1>4, <2>1, <2>2
  <2>4. k - 1 \in bounds
    BY <2>3
  <2> HIDE DEF bounds
  <2>5. k <= k - 1
    BY <1>3, <2>4
  <2> QED
    BY <1>4, <2>5
<1> QED
  BY <1>4, <1>5

(* Induction over 0 .. n, for the set of numbers with the property.        *)
LEMMA CountUp ==
  ASSUME NEW n \in Nat, NEW S, 0 \in S,
         \A k \in 1 .. n : k - 1 \in S => k \in S
  PROVE  0 .. n \subseteq S
<1> DEFINE T == {k \in Nat : k <= n /\ k \notin S}
<1> SUFFICES ASSUME T # {} PROVE FALSE
  OBVIOUS
<1>1. PICK k \in T : \A j \in T : k <= j
  BY LeastNat
<1>2. k # 0 /\ k \in Nat /\ k <= n /\ k \notin S
  BY <1>1
<1>3. k - 1 \notin T /\ k - 1 \in Nat /\ k - 1 <= n /\ k \in 1 .. n
  BY <1>1, <1>2
<1>4. k - 1 \in S
  BY <1>3
<1>5. QED
  BY <1>2, <1>3, <1>4

=============================================================================
