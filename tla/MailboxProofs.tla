--------------------------- MODULE MailboxProofs ---------------------------
(***************************************************************************)
(* Proofs about Mailbox, for every capacity, set of tags and traffic.      *)
(* The inductive invariant adds to the checked ones that ids are fresh     *)
(* (nothing accepted has an id not sent yet) and that the total respects   *)
(* the capacity; TypeOK alone is not inductive, since len - 1 is a natural *)
(* number only because LenAgrees says a non-empty buffer was counted.      *)
(***************************************************************************)
EXTENDS Mailbox, SeqLemmas, FiniteSetTheorems

FreshIds == \A m \in accepted : m.id < sent

IInv ==
  /\ TypeOK
  /\ LenAgrees
  /\ len <= MaxCapacity
  /\ FreshIds
  /\ BuffersDisjoint
  /\ taken \subseteq accepted
  /\ Pending = accepted \ taken
  /\ IndexCoversQueues

-----------------------------------------------------------------------------
(* An in-order buffer stays in order when a younger message is appended.   *)
LEMMA InSendOrderAppend ==
  ASSUME NEW s \in Seq(Envelope), NEW m \in Envelope, InSendOrder(s),
         \A x \in Range(s) : x.id < m.id
  PROVE  InSendOrder(Append(s, m))
<1>1. /\ Len(s) \in Nat /\ DOMAIN s = 1 .. Len(s)
      /\ DOMAIN Append(s, m) = 1 .. Len(s) + 1
      /\ \A i \in 1 .. Len(s) : Append(s, m)[i] = s[i]
      /\ Append(s, m)[Len(s) + 1] = m
  BY AppendProperties, LenProperties
<1>2. \A i \in DOMAIN s : s[i].id < m.id
  BY Zenon DEF Range
<1>3. QED
  BY <1>1, <1>2 DEF InSendOrder

(* Its tail stays in order, and no longer holds the head.                  *)
LEMMA InSendOrderTail ==
  ASSUME NEW s \in Seq(Envelope), s # <<>>, InSendOrder(s)
  PROVE  /\ InSendOrder(Tail(s))
         /\ Range(Tail(s)) = Range(s) \ {Head(s)}
         /\ Head(s) \in Range(s)
         /\ \A x \in Range(Tail(s)) : Head(s).id < x.id
<1>1. /\ Len(s) \in Nat \ {0} /\ DOMAIN s = 1 .. Len(s) /\ Head(s) = s[1]
      /\ DOMAIN Tail(s) = 1 .. Len(s) - 1
      /\ \A i \in 1 .. Len(s) - 1 : Tail(s)[i] = s[i + 1]
  BY HeadTailProperties, LenProperties, EmptySeq
<1>2. InSendOrder(Tail(s))
  BY <1>1 DEF InSendOrder
<1>3. Range(s) = {Head(s)} \cup Range(Tail(s))
  BY RangeHeadTail
<1>4. ASSUME NEW i \in DOMAIN Tail(s) PROVE Head(s).id < Tail(s)[i].id
  BY <1>1, <1>4 DEF InSendOrder
<1>5. \A x \in Range(Tail(s)) : Head(s).id < x.id
  BY <1>4, Zenon DEF Range
<1>6. Head(s) \notin Range(Tail(s))
  <2>1. Head(s).id \in Nat
    <3>1. Head(s) \in Envelope
      BY HeadTailProperties
    <3>2. QED
      BY <3>1 DEF Envelope
  <2>2. QED
    BY <1>5, <2>1
<1>7. QED
  BY <1>2, <1>3, <1>5, <1>6

(* One queue longer by one makes the total of the four larger by one.      *)
LEMMA OneLonger ==
  ASSUME NEW f \in [Priority -> Seq(Envelope)],
         NEW g \in [Priority -> Seq(Envelope)],
         NEW p \in Priority, Len(g[p]) = Len(f[p]) + 1,
         \A r \in Priority : r # p => g[r] = f[r]
  PROVE  /\ TotalIn(g) = TotalIn(f) + 1
         /\ TotalIn(f) \in Nat /\ TotalIn(g) \in Nat
<1>1. \A r \in Priority : Len(f[r]) \in Nat /\ Len(g[r]) \in Nat
  BY LenProperties
<1>2. 0 \in Priority /\ 1 \in Priority /\ 2 \in Priority /\ 3 \in Priority
  BY DEF Priority
<1>3. PICK f0 \in Nat, f1 \in Nat, f2 \in Nat, f3 \in Nat :
         f0 = Len(f[0]) /\ f1 = Len(f[1]) /\ f2 = Len(f[2]) /\ f3 = Len(f[3])
  BY <1>1, <1>2, Zenon
<1>4. PICK g0 \in Nat, g1 \in Nat, g2 \in Nat, g3 \in Nat :
         g0 = Len(g[0]) /\ g1 = Len(g[1]) /\ g2 = Len(g[2]) /\ g3 = Len(g[3])
  BY <1>1, <1>2, Zenon
<1>5. \/ g0 = f0 + 1 /\ g1 = f1 /\ g2 = f2 /\ g3 = f3
      \/ g0 = f0 /\ g1 = f1 + 1 /\ g2 = f2 /\ g3 = f3
      \/ g0 = f0 /\ g1 = f1 /\ g2 = f2 + 1 /\ g3 = f3
      \/ g0 = f0 /\ g1 = f1 /\ g2 = f2 /\ g3 = f3 + 1
  <2>1. p = 0 \/ p = 1 \/ p = 2 \/ p = 3
    BY DEF Priority
  <2>2. 0 # 1 /\ 0 # 2 /\ 0 # 3 /\ 1 # 2 /\ 1 # 3 /\ 2 # 3
    OBVIOUS
  <2>3. QED
    BY <1>2, <1>3, <1>4, <2>1, <2>2, Zenon
<1>6. g0 + g1 + g2 + g3 = f0 + f1 + f2 + f3 + 1
  BY <1>5
<1>7. f0 + f1 + f2 + f3 \in Nat /\ g0 + g1 + g2 + g3 \in Nat
  OBVIOUS
<1>8. QED
  BY <1>3, <1>4, <1>6, <1>7, Zenon DEF TotalIn

LEMMA TotalNat ==
  ASSUME NEW f \in [Priority -> Seq(Envelope)]
  PROVE  TotalIn(f) \in Nat
<1>1. 0 \in Priority /\ 1 \in Priority /\ 2 \in Priority /\ 3 \in Priority
  BY DEF Priority
<1>2. PICK f0 \in Nat, f1 \in Nat, f2 \in Nat, f3 \in Nat :
         f0 = Len(f[0]) /\ f1 = Len(f[1]) /\ f2 = Len(f[2]) /\ f3 = Len(f[3])
  <2>1. \A r \in Priority : Len(f[r]) \in Nat
    BY LenProperties
  <2>2. QED
    BY <1>1, <2>1, Zenon
<1>3. f0 + f1 + f2 + f3 \in Nat
  OBVIOUS
<1>4. QED
  BY <1>2, <1>3, Zenon DEF TotalIn

-----------------------------------------------------------------------------
LEMMA InitIInv == Init => IInv
<1> SUFFICES ASSUME Init PROVE IInv
  OBVIOUS
<1>1. TypeOK
  BY MailboxAssumption DEF Init, TypeOK, Envelope
<1>2. LenAgrees /\ len <= MaxCapacity
  BY MailboxAssumption DEF Init, LenAgrees, TotalIn, Priority
<1>3. InQueues = {} /\ Range(overflow) = {}
  BY RangeEmpty DEF Init, InQueues
<1>4. \A p \in Priority : Range(queues[p]) = {}
  BY RangeEmpty DEF Init
<1>5. BuffersDisjoint
  BY <1>3, <1>4 DEF Init, BuffersDisjoint, InSendOrder
<1>6. QED
  BY <1>1, <1>2, <1>3, <1>4, <1>5
     DEF Init, IInv, FreshIds, Pending, IndexCoversQueues

-----------------------------------------------------------------------------
(* A message offered now is in nothing yet: its id is the next one.        *)
LEMMA OfferedFresh ==
  ASSUME IInv, sent < MaxSends, NEW m \in Offered
  PROVE  /\ m \in Envelope /\ m.id = sent
         /\ m \notin accepted
         /\ \A x \in Pending : x.id < m.id
<1>1. sent \in 0 .. MaxSends - 1
  BY MailboxAssumption DEF IInv, TypeOK
<1>2. PICK o \in Traffic[sent] :
         m = [id |-> sent, priority |-> o[1], tag |-> o[2]]
  BY DEF Offered
<1>3. o \in Priority \X TagOrNone
  BY <1>1, <1>2, MailboxAssumption
<1>4. m \in Envelope /\ m.id = sent
  BY <1>1, <1>2, <1>3 DEF Envelope
<1>5. \A x \in accepted : x.id < sent /\ x.id \in Nat
  BY DEF IInv, FreshIds, TypeOK, Envelope
<1>6. m \notin accepted
  BY <1>4, <1>5
<1>7. Pending \subseteq accepted
  BY DEF IInv
<1>8. QED
  BY <1>4, <1>5, <1>6, <1>7

LEMMA EnqueueToQueueIInv ==
  ASSUME IInv, sent < MaxSends, NEW m \in Offered,
         sent' = sent + 1, EnqueueToQueue(m)
  PROVE  IInv'
<1> DEFINE p == m.priority
           q == queues[p]
<1>0. p = m.priority /\ q = queues[p]
  OBVIOUS
<1> HIDE DEF p, q
<1>1. m \in Envelope /\ m.id = sent /\ m \notin accepted
      /\ \A x \in Pending : x.id < m.id
  BY OfferedFresh
<1>2. p \in Priority /\ m.tag \in TagOrNone
  BY <1>0, <1>1 DEF Envelope
<1>3. q \in Seq(Envelope)
  BY <1>0, <1>2 DEF IInv, TypeOK
<1>4. /\ queues' = [queues EXCEPT ![p] = Append(q, m)]
      /\ overflow' = overflow /\ taken' = taken
      /\ accepted' = accepted \cup {m}
      /\ len' = len + 1 /\ len < MaxCapacity /\ type_index' = NoteTag(m)
  BY <1>0 DEF EnqueueToQueue
<1>5. queues' \in [Priority -> Seq(Envelope)]
  <2>1. Append(q, m) \in Seq(Envelope)
    BY <1>1, <1>3, AppendProperties
  <2>2. queues \in [Priority -> Seq(Envelope)]
    BY DEF IInv, TypeOK
  <2>3. QED
    BY <1>2, <1>4, <2>1, <2>2
<1>6. \A r \in Priority : queues'[r] = IF r = p THEN Append(q, m) ELSE queues[r]
  BY <1>2, <1>4 DEF IInv, TypeOK
<1>7. \A r \in Priority :
        Range(queues'[r]) = IF r = p THEN Range(queues[r]) \cup {m} ELSE Range(queues[r])
  <2>1. Range(Append(q, m)) = Range(q) \cup {m}
    BY <1>1, <1>3, RangeAppend
  <2>2. QED
    BY <1>0, <1>6, <2>1
<1>8. InQueues' = InQueues \cup {m}
  BY <1>2, <1>7 DEF InQueues
<1>9. TypeOK'
  <2>1. type_index' \in [Tags -> Seq(Priority)]
    <3>1. CASE m.tag = NoTag
      BY <1>4, <3>1 DEF NoteTag, IInv, TypeOK
    <3>2. CASE m.tag # NoTag
      <4>1. m.tag \in Tags
        BY <1>2, <3>2 DEF TagOrNone
      <4>2. Append(type_index[m.tag], m.priority) \in Seq(Priority)
        BY <1>0, <1>2, <4>1, AppendProperties DEF IInv, TypeOK
      <4>3. QED
        BY <1>0, <1>4, <3>2, <4>1, <4>2 DEF NoteTag, IInv, TypeOK
    <3>3. QED
      BY <3>1, <3>2
  <2>2. sent' \in 0 .. MaxSends /\ len' \in Nat
    <3>1. sent \in 0 .. MaxSends /\ len \in Nat
      BY DEF IInv, TypeOK
    <3>2. QED
      BY <1>4, <3>1, MailboxAssumption
  <2>3. QED
    BY <1>1, <1>4, <1>5, <2>1, <2>2 DEF IInv, TypeOK
<1>10. LenAgrees' /\ (len <= MaxCapacity)'
  <2>1. Len(queues'[p]) = Len(queues[p]) + 1
    <3>1. Len(Append(q, m)) = Len(q) + 1
      BY <1>1, <1>3, AppendProperties
    <3>2. QED
      BY <1>0, <1>2, <1>6, <3>1
  <2>2. queues \in [Priority -> Seq(Envelope)]
    BY DEF IInv, TypeOK
  <2>3. TotalIn(queues') = TotalIn(queues) + 1 /\ TotalIn(queues) \in Nat
    <3>1. \A r \in Priority : r # p => queues'[r] = queues[r]
      BY <1>6
    <3>2. QED
      BY <1>2, <1>5, <2>1, <2>2, <3>1, OneLonger, Zenon
  <2>4. len = TotalIn(queues) + Len(overflow) /\ Len(overflow) \in Nat
    BY LenProperties DEF IInv, LenAgrees, TypeOK
  <2>5. len' = TotalIn(queues') + Len(overflow')
    BY <1>4, <2>3, <2>4
  <2>6. len' <= MaxCapacity
    BY <1>4, <2>3, <2>4, MailboxAssumption
  <2>7. QED
    BY <2>5, <2>6 DEF LenAgrees, TotalIn
<1>11. FreshIds'
  BY <1>1, <1>4 DEF IInv, FreshIds, TypeOK, Envelope
<1>12. BuffersDisjoint'
  <2>1. \A x \in Range(q) : x.id < m.id
    BY <1>0, <1>1, <1>2 DEF Pending, InQueues
  <2>2. InSendOrder(Append(q, m))
    BY <1>0, <1>1, <1>2, <1>3, <2>1, InSendOrderAppend DEF IInv, BuffersDisjoint
  <2>3. \A r \in Priority : InSendOrder(queues'[r])
    BY <1>6, <2>2 DEF IInv, BuffersDisjoint
  <2>4. \A r \in Priority : \A x \in Range(queues'[r]) : x.priority = r
    BY <1>0, <1>7 DEF IInv, BuffersDisjoint
  <2>5. m \notin Range(overflow)
    BY <1>1 DEF IInv, Pending
  <2>6. (InQueues \cap Range(overflow) = {})'
    BY <1>4, <1>8, <2>5 DEF IInv, BuffersDisjoint
  <2>7. InSendOrder(overflow)'
    BY <1>4 DEF IInv, BuffersDisjoint
  <2>8. QED
    BY <2>3, <2>4, <2>6, <2>7 DEF BuffersDisjoint
<1>13. (taken \subseteq accepted)' /\ (Pending = accepted \ taken)'
  BY <1>1, <1>4, <1>8 DEF IInv, Pending
<1>14. IndexCoversQueues'
  <2> SUFFICES ASSUME NEW r \in Priority, NEW x \in Range(queues'[r]), x.tag # NoTag
               PROVE  r \in Range(type_index'[x.tag])
    BY DEF IndexCoversQueues
  <2>1. x \in Envelope
    BY <1>5, RangeType
  <2>2. x.tag \in Tags
    BY <2>1 DEF Envelope, TagOrNone
  <2>3. type_index[x.tag] \in Seq(Priority)
    BY <2>2 DEF IInv, TypeOK
  <2>4. CASE m.tag = x.tag
    <3>1. type_index'[x.tag] = Append(type_index[x.tag], p)
      BY <1>0, <1>4, <2>2, <2>4, MailboxAssumption DEF NoteTag, IInv, TypeOK
    <3>2. Range(type_index'[x.tag]) = Range(type_index[x.tag]) \cup {p}
      BY <1>2, <2>3, <3>1, RangeAppend
    <3>3. QED
      BY <1>7, <3>2 DEF IInv, IndexCoversQueues
  <2>5. CASE m.tag # x.tag
    <3>1. type_index'[x.tag] = type_index[x.tag]
      BY <1>4, <2>2, <2>5 DEF NoteTag, IInv, TypeOK
    <3>2. QED
      BY <1>7, <2>5, <3>1 DEF IInv, IndexCoversQueues
  <2>6. QED
    BY <2>4, <2>5
<1>15. QED
  BY <1>9, <1>10, <1>11, <1>12, <1>13, <1>14 DEF IInv

LEMMA EnqueueToOverflowIInv ==
  ASSUME IInv, sent < MaxSends, NEW m \in Offered,
         sent' = sent + 1, EnqueueToOverflow(m)
  PROVE  IInv'
<1>1. m \in Envelope /\ m.id = sent /\ m \notin accepted
      /\ \A x \in Pending : x.id < m.id
  BY OfferedFresh
<1>2. /\ overflow' = Append(overflow, m)
      /\ queues' = queues /\ taken' = taken /\ type_index' = type_index
      /\ accepted' = accepted \cup {m}
      /\ len' = len + 1 /\ len < MaxCapacity
  BY DEF EnqueueToOverflow
<1>3. overflow \in Seq(Envelope) /\ len \in Nat /\ sent \in 0 .. MaxSends
  BY DEF IInv, TypeOK
<1>4. /\ overflow' \in Seq(Envelope) /\ Len(overflow') = Len(overflow) + 1
      /\ Len(overflow) \in Nat
  BY <1>1, <1>2, <1>3, AppendProperties, LenProperties
<1>5. Range(overflow') = Range(overflow) \cup {m}
  BY <1>1, <1>2, <1>3, RangeAppend
<1>6. InQueues' = InQueues
  BY <1>2 DEF InQueues
<1>7. TypeOK'
  <2>1. sent' \in 0 .. MaxSends /\ len' \in Nat
    BY <1>2, <1>3, MailboxAssumption
  <2>2. QED
    BY <1>1, <1>2, <1>4, <2>1 DEF IInv, TypeOK
<1>8. LenAgrees' /\ (len <= MaxCapacity)'
  <2>1. len = TotalIn(queues) + Len(overflow) /\ TotalIn(queues) \in Nat
    BY TotalNat DEF IInv, LenAgrees, TypeOK
  <2>2. len' = TotalIn(queues) + Len(overflow')
    BY <1>2, <1>4, <2>1
  <2>3. len' <= MaxCapacity
    BY <1>2, <1>3, MailboxAssumption
  <2>4. QED
    BY <1>2, <2>2, <2>3 DEF LenAgrees, TotalIn
<1>9. FreshIds'
  BY <1>1, <1>2 DEF IInv, FreshIds, TypeOK, Envelope
<1>10. BuffersDisjoint'
  <2>1. InSendOrder(overflow')
    BY <1>1, <1>2, <1>3, InSendOrderAppend DEF IInv, BuffersDisjoint, Pending
  <2>2. m \notin InQueues
    BY <1>1 DEF IInv, Pending
  <2>3. QED
    BY <1>2, <1>5, <1>6, <2>1, <2>2 DEF IInv, BuffersDisjoint
<1>11. (taken \subseteq accepted)' /\ (Pending = accepted \ taken)'
  BY <1>1, <1>2, <1>5, <1>6 DEF IInv, Pending
<1>12. IndexCoversQueues'
  BY <1>2 DEF IInv, IndexCoversQueues
<1>13. QED
  BY <1>7, <1>8, <1>9, <1>10, <1>11, <1>12 DEF IInv

-----------------------------------------------------------------------------
(* Taking the front of a non-empty queue: what dequeue and dequeue_typed   *)
(* have in common.                                                         *)
LEMMA PopQueueIInv ==
  ASSUME IInv, NEW p \in Priority, queues[p] # <<>>, PopQueue(p)
  PROVE  /\ IInv'
         /\ Head(queues[p]) \in accepted \ taken
         /\ taken' = taken \cup {Head(queues[p])}
<1> DEFINE q == queues[p]
           m == Head(queues[p])
<1>0. q = queues[p] /\ m = Head(queues[p])
  OBVIOUS
<1> HIDE DEF q, m
<1>1. q \in Seq(Envelope) /\ q # <<>> /\ InSendOrder(q)
  BY <1>0 DEF IInv, TypeOK, BuffersDisjoint
<1>2. /\ queues' = [queues EXCEPT ![p] = Tail(q)]
      /\ len' = len - 1 /\ taken' = taken \cup {m}
      /\ overflow' = overflow /\ type_index' = type_index
      /\ sent' = sent /\ accepted' = accepted
  BY <1>0 DEF PopQueue
<1>3. /\ m \in Envelope /\ Tail(q) \in Seq(Envelope)
      /\ Len(Tail(q)) = Len(q) - 1 /\ Len(q) \in Nat
  BY <1>0, <1>1, HeadTailProperties, LenProperties
<1>4. /\ InSendOrder(Tail(q))
      /\ Range(Tail(q)) = Range(q) \ {m}
      /\ m \in Range(q)
  BY <1>0, <1>1, InSendOrderTail
<1>5. queues \in [Priority -> Seq(Envelope)]
  BY DEF IInv, TypeOK
<1>6. queues' \in [Priority -> Seq(Envelope)]
  BY <1>2, <1>3, <1>5
<1>7. \A r \in Priority : queues'[r] = IF r = p THEN Tail(q) ELSE queues[r]
  BY <1>2, <1>5
<1>8. \A r \in Priority : r # p => m \notin Range(queues[r])
  BY <1>0, <1>4 DEF IInv, BuffersDisjoint
<1>9. \A r \in Priority : Range(queues'[r]) = Range(queues[r]) \ {m}
  BY <1>0, <1>4, <1>7, <1>8
<1>10. InQueues' = InQueues \ {m}
  <2>1. \A x : x \in InQueues <=> \E r \in Priority : x \in Range(queues[r])
    BY DEF InQueues
  <2>2. \A x : x \in InQueues' <=> \E r \in Priority : x \in Range(queues'[r])
    BY DEF InQueues
  <2>3. QED
    BY <1>9, <2>1, <2>2
<1>11. m \in InQueues /\ m \notin Range(overflow)
  BY <1>0, <1>4 DEF InQueues, IInv, BuffersDisjoint
<1>12. m \in accepted \ taken
  BY <1>11 DEF IInv, Pending
<1>13. TotalIn(queues) = TotalIn(queues') + 1 /\ TotalIn(queues') \in Nat
  <2>1. Len(queues[p]) = Len(queues'[p]) + 1
    <3>1. Len(q) = Len(Tail(q)) + 1
      BY <1>3
    <3>2. QED
      BY <1>0, <1>7, <3>1
  <2>2. \A r \in Priority : r # p => queues[r] = queues'[r]
    BY <1>7
  <2>3. QED
    BY <1>5, <1>6, <2>1, <2>2, OneLonger, Zenon
<1>14. LenAgrees' /\ len' \in Nat /\ (len <= MaxCapacity)'
  <2>1. len = TotalIn(queues) + Len(overflow) /\ Len(overflow) \in Nat
        /\ len <= MaxCapacity
    BY LenProperties DEF IInv, LenAgrees, TypeOK
  <2>2. len' = TotalIn(queues') + Len(overflow') /\ len' \in Nat
    BY <1>2, <1>13, <2>1
  <2>3. len' <= MaxCapacity
    BY <1>2, <1>13, <2>1, MailboxAssumption
  <2>4. QED
    BY <2>2, <2>3 DEF LenAgrees, TotalIn
<1>15. TypeOK'
  BY <1>2, <1>3, <1>6, <1>14 DEF IInv, TypeOK
<1>16. BuffersDisjoint'
  <2>1. \A r \in Priority : InSendOrder(queues'[r])
    BY <1>4, <1>7 DEF IInv, BuffersDisjoint
  <2>2. \A r \in Priority : \A x \in Range(queues'[r]) : x.priority = r
    BY <1>9 DEF IInv, BuffersDisjoint
  <2>3. QED
    BY <1>2, <1>10, <2>1, <2>2 DEF IInv, BuffersDisjoint
<1>17. (taken \subseteq accepted)' /\ (Pending = accepted \ taken)'
  BY <1>2, <1>10, <1>11, <1>12 DEF IInv, Pending
<1>18. IndexCoversQueues'
  BY <1>2, <1>9 DEF IInv, IndexCoversQueues
<1>19. FreshIds'
  BY <1>2 DEF IInv, FreshIds
<1>20. QED
  BY <1>0, <1>2, <1>12, <1>14, <1>15, <1>16, <1>17, <1>18, <1>19 DEF IInv

LEMMA DequeueOverflowIInv ==
  ASSUME IInv, DequeueOverflow
  PROVE  /\ IInv'
         /\ Head(overflow) \in accepted \ taken
         /\ taken' = taken \cup {Head(overflow)}
<1> DEFINE m == Head(overflow)
<1>1. overflow \in Seq(Envelope) /\ overflow # <<>> /\ InSendOrder(overflow)
  BY DEF IInv, TypeOK, BuffersDisjoint, DequeueOverflow
<1>2. /\ overflow' = Tail(overflow) /\ queues' = queues
      /\ len' = len - 1 /\ taken' = taken \cup {m}
      /\ type_index' = type_index /\ sent' = sent /\ accepted' = accepted
  BY DEF DequeueOverflow
<1>3. /\ m \in Envelope /\ overflow' \in Seq(Envelope)
      /\ Len(overflow) = Len(overflow') + 1 /\ Len(overflow') \in Nat
  BY <1>1, <1>2, HeadTailProperties, LenProperties
<1>4. /\ InSendOrder(overflow')
      /\ Range(overflow') = Range(overflow) \ {m}
      /\ m \in Range(overflow)
  BY <1>1, <1>2, InSendOrderTail
<1>5. InQueues' = InQueues
  BY <1>2 DEF InQueues
<1>6. m \notin InQueues /\ m \in accepted \ taken
  BY <1>4 DEF IInv, BuffersDisjoint, Pending
<1> HIDE DEF m
<1>7. LenAgrees' /\ len' \in Nat /\ (len <= MaxCapacity)'
  <2>1. len = TotalIn(queues) + Len(overflow) /\ TotalIn(queues) \in Nat
        /\ len <= MaxCapacity
    BY TotalNat DEF IInv, LenAgrees, TypeOK
  <2>2. len' = TotalIn(queues) + Len(overflow') /\ len' \in Nat
    BY <1>2, <1>3, <2>1
  <2>3. len' <= MaxCapacity
    BY <1>2, <1>3, <2>1, MailboxAssumption
  <2>4. QED
    BY <1>2, <2>2, <2>3 DEF LenAgrees, TotalIn
<1>8. TypeOK'
  BY <1>2, <1>3, <1>7 DEF IInv, TypeOK
<1>9. BuffersDisjoint'
  BY <1>2, <1>4, <1>5 DEF IInv, BuffersDisjoint
<1>10. (taken \subseteq accepted)' /\ (Pending = accepted \ taken)'
  BY <1>2, <1>4, <1>5, <1>6 DEF IInv, Pending
<1>11. IndexCoversQueues' /\ FreshIds'
  BY <1>2 DEF IInv, IndexCoversQueues, FreshIds
<1>12. QED
  BY <1>2, <1>6, <1>7, <1>8, <1>9, <1>10, <1>11 DEF IInv, m

LEMMA DrainIInv ==
  ASSUME IInv, Drain
  PROVE  IInv' /\ taken' = accepted
<1>1. /\ queues' = [p \in Priority |-> <<>>] /\ overflow' = <<>>
      /\ len' = 0 /\ type_index' = [t \in Tags |-> <<>>]
      /\ taken' = taken \cup Pending /\ sent' = sent /\ accepted' = accepted
  BY DEF Drain
<1>2. taken' = accepted
  BY <1>1 DEF IInv
<1>3. /\ \A p \in Priority : queues'[p] = <<>> /\ Range(queues'[p]) = {}
      /\ Range(overflow') = {}
  BY <1>1, RangeEmpty
<1>4. InQueues' = {}
  BY <1>3 DEF InQueues
<1>5. TypeOK'
  BY <1>1, <1>2, MailboxAssumption DEF IInv, TypeOK
<1>6. LenAgrees' /\ (len <= MaxCapacity)'
  <2>1. /\ Len(queues'[0]) = 0 /\ Len(queues'[1]) = 0
        /\ Len(queues'[2]) = 0 /\ Len(queues'[3]) = 0 /\ Len(overflow') = 0
    BY <1>1 DEF Priority
  <2>2. 0 + 0 + 0 + 0 + 0 = 0
    OBVIOUS
  <2>3. LenAgrees'
    BY <1>1, <2>1, <2>2, Zenon DEF LenAgrees, TotalIn
  <2>4. (len <= MaxCapacity)'
    BY <1>1, MailboxAssumption
  <2>5. QED
    BY <2>3, <2>4
<1>7. BuffersDisjoint'
  BY <1>1, <1>3, <1>4 DEF BuffersDisjoint, InSendOrder
<1>8. (taken \subseteq accepted)' /\ (Pending = accepted \ taken)'
  BY <1>1, <1>2, <1>3, <1>4 DEF Pending
<1>9. IndexCoversQueues' /\ FreshIds'
  BY <1>1, <1>3 DEF IInv, IndexCoversQueues, FreshIds
<1>10. QED
  BY <1>2, <1>5, <1>6, <1>7, <1>8, <1>9 DEF IInv

(* A refused message, or no step at all, changes only the send count.      *)
LEMMA RefusedIInv ==
  ASSUME IInv, sent' \in {sent, sent + 1}, sent' \in 0 .. MaxSends,
         UNCHANGED <<contents, accepted, taken>>
  PROVE  IInv'
<1>1. /\ queues' = queues /\ overflow' = overflow /\ len' = len
      /\ type_index' = type_index /\ accepted' = accepted /\ taken' = taken
  BY DEF contents
<1>2. TypeOK'
  BY <1>1 DEF IInv, TypeOK
<1>3. FreshIds'
  <2>1. \A m \in accepted : m.id < sent /\ m.id \in Nat
    BY DEF IInv, FreshIds, TypeOK, Envelope
  <2>2. sent \in Nat
    BY DEF IInv, TypeOK
  <2>3. QED
    BY <1>1, <2>1, <2>2 DEF FreshIds
<1>4. InQueues' = InQueues /\ TotalIn(queues)' = TotalIn(queues)
  BY <1>1 DEF InQueues, TotalIn
<1>5. LenAgrees' /\ (len <= MaxCapacity)'
  BY <1>1, <1>4 DEF IInv, LenAgrees
<1>6. BuffersDisjoint' /\ (taken \subseteq accepted)' /\ (Pending = accepted \ taken)'
  BY <1>1, <1>4 DEF IInv, BuffersDisjoint, Pending, InSendOrder
<1>7. IndexCoversQueues'
  BY <1>1 DEF IInv, IndexCoversQueues
<1>8. QED
  BY <1>2, <1>3, <1>5, <1>6, <1>7 DEF IInv

-----------------------------------------------------------------------------
(* What any step does to the history: it accepts one fresh message within  *)
(* the capacity, hands out one message owed, hands out all of them, or     *)
(* changes nothing.  The refinement below is this fact seen from outside.  *)
HistoryStep ==
  \/ /\ \E m \in Envelope : m \notin accepted /\ accepted' = accepted \cup {m}
     /\ len < MaxCapacity /\ len' = len + 1 /\ taken' = taken
  \/ /\ \E m \in accepted \ taken : taken' = taken \cup {m}
     /\ len' = len - 1 /\ accepted' = accepted
  \/ len' = 0 /\ taken' = accepted /\ accepted' = accepted
  \/ UNCHANGED <<accepted, taken, len>>

LEMMA StepIInv ==
  ASSUME IInv, [Next]_vars
  PROVE  IInv' /\ HistoryStep
<1>1. ASSUME sent < MaxSends, NEW m \in Offered, Enqueue(m)
      PROVE  IInv' /\ HistoryStep
  <2>1. sent' = sent + 1
    BY <1>1 DEF Enqueue
  <2>2. m \in Envelope /\ m \notin accepted
    BY <1>1, OfferedFresh
  <2>3. CASE EnqueueToQueue(m)
    <3>1. IInv'
      BY <1>1, <2>1, <2>3, EnqueueToQueueIInv
    <3>2. QED
      BY <2>2, <2>3, <3>1 DEF EnqueueToQueue, HistoryStep
  <2>4. CASE EnqueueToOverflow(m)
    <3>1. IInv'
      BY <1>1, <2>1, <2>4, EnqueueToOverflowIInv
    <3>2. QED
      BY <2>2, <2>4, <3>1 DEF EnqueueToOverflow, HistoryStep
  <2>5. CASE EnqueueRefused(m)
    <3>1. UNCHANGED <<contents, accepted, taken>>
      BY <2>5 DEF EnqueueRefused
    <3>2. sent' \in 0 .. MaxSends
      BY <1>1, <2>1, MailboxAssumption DEF IInv, TypeOK
    <3>3. QED
      BY <2>1, <3>1, <3>2, RefusedIInv DEF HistoryStep, contents
  <2>6. QED
    BY <1>1, <2>3, <2>4, <2>5 DEF Enqueue
<1>2. ASSUME NEW p \in Priority, queues[p] # <<>>, PopQueue(p)
      PROVE  IInv' /\ HistoryStep
  BY <1>2, PopQueueIInv DEF HistoryStep, PopQueue
<1>3. CASE Dequeue
  <2>1. CASE DequeueOverflow
    BY <2>1, DequeueOverflowIInv DEF HistoryStep, DequeueOverflow
  <2>2. ASSUME NEW p \in Priority, DequeueQueue(p)
        PROVE  IInv' /\ HistoryStep
    BY <1>2, <2>2 DEF DequeueQueue, Highest
  <2>3. QED
    BY <1>3, <2>1, <2>2 DEF Dequeue
<1>4. ASSUME NEW t \in Tags, DequeueTyped(t)
      PROVE  IInv' /\ HistoryStep
  <2>1. PICK i \in DOMAIN type_index[t] : Hit(t, i) /\ PopQueue(type_index[t][i])
    BY <1>4 DEF DequeueTyped
  <2>2. type_index[t][i] \in Priority
    BY <2>1, ElementOfSeq, LenProperties DEF IInv, TypeOK
  <2>3. queues[type_index[t][i]] # <<>>
    BY <2>1 DEF Hit, FrontHasTag
  <2>4. QED
    BY <1>2, <2>1, <2>2, <2>3
<1>5. CASE Drain
  BY <1>5, DrainIInv DEF HistoryStep, Drain
<1>6. CASE UNCHANGED vars
  <2>1. sent' \in {sent, sent + 1} /\ sent' \in 0 .. MaxSends
    BY <1>6 DEF vars, IInv, TypeOK
  <2>2. UNCHANGED <<contents, accepted, taken>>
    BY <1>6 DEF vars, contents
  <2>3. QED
    BY <2>1, <2>2, RefusedIInv DEF HistoryStep, contents
<1>7. QED
  BY <1>1, <1>3, <1>4, <1>5, <1>6 DEF Next

(* The strengthened invariant of the mailbox holds in every reachable      *)
(* state, whatever the capacity (0 and 1 included), the tags and traffic.  *)
THEOREM MailboxInvariant == Spec => []IInv
<1>1. Init => IInv
  BY InitIInv
<1>2. IInv /\ [Next]_vars => IInv'
  BY StepIInv
<1>3. QED
  BY <1>1, <1>2, PTL DEF Spec

(* Type correctness: in particular len, a usize, never wraps below zero.   *)
THEOREM MailboxTypeOK == Spec => []TypeOK
<1>1. IInv => TypeOK
  BY DEF IInv
<1>2. QED
  BY <1>1, MailboxInvariant, PTL

(* The counter is the truth about the five buffers.                        *)
THEOREM MailboxLenAgrees == Spec => []LenAgrees
<1>1. IInv => LenAgrees
  BY DEF IInv
<1>2. QED
  BY <1>1, MailboxInvariant, PTL

(* No accepted message is lost, duplicated or invented.                    *)
THEOREM MailboxConservation == Spec => []Conservation
<1>1. IInv => Conservation
  BY DEF IInv, Conservation
<1>2. QED
  BY <1>1, MailboxInvariant, PTL

-----------------------------------------------------------------------------
(* The type index, although entries are only ever added to it, is as good  *)
(* as a look at the front of every queue: dequeue_typed misses nothing     *)
(* such a look would find.                                                 *)
THEOREM MailboxTypedLookup == Spec => []TypedLookupMatchesScan
<1>1. ASSUME IInv PROVE TypedLookupMatchesScan
  <2> SUFFICES ASSUME NEW t \in Tags
               PROVE  (\E i \in DOMAIN type_index[t] : Hit(t, i))
                        <=> (\E p \in Priority : FrontHasTag(p, t))
    BY DEF TypedLookupMatchesScan
  <2>1. type_index[t] \in Seq(Priority)
    BY <1>1 DEF IInv, TypeOK
  <2>2. ASSUME NEW i \in DOMAIN type_index[t], Hit(t, i)
        PROVE  \E p \in Priority : FrontHasTag(p, t)
    <3>1. type_index[t][i] \in Priority
      BY <2>1, ElementOfSeq, LenProperties
    <3>2. QED
      BY <2>2, <3>1 DEF Hit
  <2>3. ASSUME NEW p \in Priority, FrontHasTag(p, t)
        PROVE  \E i \in DOMAIN type_index[t] : Hit(t, i)
    <3> DEFINE good == {i \in DOMAIN type_index[t] : FrontHasTag(type_index[t][i], t)}
    <3>1. DOMAIN type_index[t] \subseteq Nat
      BY <2>1, LenProperties
    <3>2. p \in Range(type_index[t])
      <4>1. queues[p] \in Seq(Envelope) /\ queues[p] # <<>>
        BY <1>1, <2>3 DEF IInv, TypeOK, FrontHasTag
      <4>2. Head(queues[p]) \in Range(queues[p])
        BY <4>1, RangeHeadTail
      <4>3. Head(queues[p]).tag = t /\ t # NoTag
        BY <2>3, MailboxAssumption DEF FrontHasTag
      <4>4. QED
        BY <1>1, <4>2, <4>3 DEF IInv, IndexCoversQueues
    <3>3. good # {}
      BY <2>3, <3>2 DEF Range
    <3>4. PICK i \in good : \A j \in good : i <= j
      <4>1. good \subseteq Nat
        BY <3>1
      <4>2. QED
        BY <3>3, <4>1, LeastNat, Zenon
    <3>5. ASSUME NEW j \in 1 .. i - 1
          PROVE  ~FrontHasTag(type_index[t][j], t)
      <4>1. i \in 1 .. Len(type_index[t]) /\ Len(type_index[t]) \in Nat
            /\ DOMAIN type_index[t] = 1 .. Len(type_index[t])
        BY <2>1, LenProperties
      <4>2. j \in DOMAIN type_index[t] /\ ~(i <= j)
        BY <4>1
      <4>3. QED
        BY <3>4, <4>2
    <3>6. QED
      BY <3>4, <3>5 DEF Hit
  <2>4. QED
    BY <2>2, <2>3
<1>2. QED
  BY <1>1, MailboxInvariant, PTL

(* The mailbox is the bounded bag it promises to be: every step of it is a *)
(* step of Inbox or leaves what Inbox sees unchanged.                      *)
THEOREM MailboxImplementsInbox == Spec => ImplementsInbox
<1>1. Init => Promise!Init
  BY DEF Init, Promise!Init
<1>2. IInv /\ [Next]_vars => [Promise!Next]_(Promise!inboxVars)
  <2> SUFFICES ASSUME IInv, [Next]_vars
               PROVE  [Promise!Next]_(Promise!inboxVars)
    OBVIOUS
  <2>1. HistoryStep
    BY StepIInv
  <2>2. accepted \subseteq Envelope
    BY DEF IInv, TypeOK
  <2>3. ASSUME NEW m \in Envelope, m \notin accepted, accepted' = accepted \cup {m},
               len < MaxCapacity, len' = len + 1, taken' = taken
        PROVE  Promise!Next
    BY <2>3 DEF Promise!Next, Promise!Accept
  <2>4. ASSUME NEW m \in accepted \ taken, taken' = taken \cup {m},
               len' = len - 1, accepted' = accepted
        PROVE  Promise!Next
    BY <2>2, <2>4 DEF Promise!Next, Promise!TakeOne
  <2>5. CASE len' = 0 /\ taken' = accepted /\ accepted' = accepted
    BY <2>5 DEF Promise!Next, Promise!TakeAll
  <2>6. CASE UNCHANGED <<accepted, taken, len>>
    BY <2>6 DEF Promise!inboxVars
  <2>7. QED
    BY <2>1, <2>3, <2>4, <2>5, <2>6 DEF HistoryStep
<1>3. QED
  BY <1>1, <1>2, MailboxInvariant, PTL DEF Spec, ImplementsInbox, Promise!Spec

LenCountsOwed ==
  /\ taken \subseteq accepted
  /\ IsFiniteSet(accepted)
  /\ len = Cardinality(accepted \ taken)
  /\ len <= MaxCapacity

(* What len() reports is the number of messages accepted and not yet       *)
(* handed out, and never more than max_capacity.                           *)
(* Nothing the mailbox does makes its reported length differ from the     *)
(* messages it still owes (Mailbox::len, is_empty).                        *)
THEOREM MailboxLenCountsOwed == Spec => []LenCountsOwed
<1>1. Init => LenCountsOwed
  BY FS_EmptySet, MailboxAssumption DEF Init, LenCountsOwed
<1>2. LenCountsOwed /\ IInv /\ [Next]_vars => LenCountsOwed'
  <2> SUFFICES ASSUME LenCountsOwed, IInv, [Next]_vars
               PROVE  LenCountsOwed'
    OBVIOUS
  <2> DEFINE owed == accepted \ taken
  <2>1. HistoryStep /\ (len <= MaxCapacity)' /\ (taken \subseteq accepted)'
    BY StepIInv DEF IInv
  <2>2. /\ IsFiniteSet(accepted) /\ IsFiniteSet(owed) /\ len = Cardinality(owed)
        /\ taken \subseteq accepted
    BY FS_Subset DEF LenCountsOwed
  <2>3. ASSUME NEW m, m \notin accepted, accepted' = accepted \cup {m},
               len' = len + 1, taken' = taken
        PROVE  IsFiniteSet(accepted') /\ len' = Cardinality(owed')
    <3>1. owed' = owed \cup {m} /\ m \notin owed
      BY <2>2, <2>3
    <3>2. QED
      BY <2>2, <2>3, <3>1, FS_AddElement
  <2>4. ASSUME NEW m \in owed, taken' = taken \cup {m},
               len' = len - 1, accepted' = accepted
        PROVE  IsFiniteSet(accepted') /\ len' = Cardinality(owed')
    <3>1. owed' = owed \ {m}
      BY <2>4
    <3>2. QED
      BY <2>2, <2>4, <3>1, FS_RemoveElement
  <2>5. CASE len' = 0 /\ taken' = accepted /\ accepted' = accepted
    <3>1. owed' = {}
      BY <2>5
    <3>2. QED
      BY <2>1, <2>2, <2>5, <3>1, FS_EmptySet DEF LenCountsOwed
  <2>6. CASE UNCHANGED <<accepted, taken, len>>
    BY <2>1, <2>2, <2>6 DEF LenCountsOwed
  <2>7. QED
    BY <2>1, <2>3, <2>4, <2>5, <2>6 DEF HistoryStep, LenCountsOwed
<1>3. QED
  BY <1>1, <1>2, MailboxInvariant, PTL DEF Spec

-----------------------------------------------------------------------------
(* What a step that hands messages out may leave behind of their priority. *)
NoOvertaking ==
  \A m \in taken' \ taken, older \in Pending' :
    Overtakes(m, older) => /\ older \in Range(overflow)
                           /\ m \notin Range(overflow)

(* What waits behind the front of a queue is younger or of another         *)
(* priority, so what is older can only be in the overflow buffer.          *)
LEMMA PopQueueKeepsOrder ==
  ASSUME IInv, NEW p \in Priority, queues[p] # <<>>, PopQueue(p)
  PROVE  NoOvertaking
<1> DEFINE q == queues[p]
<1>1. /\ queues' = [queues EXCEPT ![p] = Tail(q)] /\ overflow' = overflow
      /\ taken' = taken \cup {Head(q)}
  BY DEF PopQueue
<1>2. q \in Seq(Envelope) /\ InSendOrder(q)
  BY DEF IInv, TypeOK, BuffersDisjoint
<1>3. /\ Range(Tail(q)) = Range(q) \ {Head(q)}
      /\ Head(q) \in Range(q) /\ Head(q) \in Envelope
      /\ \A x \in Range(Tail(q)) : x \in Envelope /\ Head(q).id < x.id
  BY <1>2, InSendOrderTail, HeadTailProperties, RangeType
<1>4. \A r \in Priority : queues'[r] = IF r = p THEN Tail(q) ELSE queues[r]
  BY <1>1 DEF IInv, TypeOK
<1>5. Head(q).priority = p /\ Head(q) \notin Range(overflow)
  BY <1>3 DEF IInv, BuffersDisjoint, InQueues
<1> HIDE DEF q
<1>6. ASSUME NEW older \in InQueues', older.priority = p
      PROVE  ~(older.id < Head(q).id)
  <2>1. PICK r \in Priority : older \in Range(queues'[r])
    BY DEF InQueues
  <2>2. r = p
    <3>1. CASE r # p
      BY <1>4, <1>6, <2>1, <3>1 DEF IInv, BuffersDisjoint
    <3>2. QED
      BY <3>1
  <2>3. older \in Envelope /\ Head(q).id < older.id
    BY <1>3, <1>4, <2>1, <2>2
  <2>4. QED
    BY <1>3, <2>3 DEF Envelope
<1>7. QED
  BY <1>1, <1>5, <1>6 DEF NoOvertaking, Overtakes, Pending

LEMMA DequeueOverflowKeepsOrder ==
  ASSUME IInv, DequeueOverflow
  PROVE  NoOvertaking
<1>1. /\ overflow \in Seq(Envelope) /\ overflow # <<>> /\ InSendOrder(overflow)
      /\ overflow' = Tail(overflow) /\ queues' = queues
      /\ taken' = taken \cup {Head(overflow)}
  BY DEF IInv, TypeOK, BuffersDisjoint, DequeueOverflow
<1>2. InQueues' = {}
  BY <1>1, RangeEmpty DEF DequeueOverflow, InQueues
<1>3. /\ Head(overflow) \in Envelope
      /\ \A x \in Range(overflow') : x \in Envelope /\ Head(overflow).id < x.id
  BY <1>1, InSendOrderTail, HeadTailProperties, RangeType
<1>4. \A x \in Range(overflow') : ~(x.id < Head(overflow).id)
  BY <1>3 DEF Envelope
<1>5. QED
  BY <1>1, <1>2, <1>4 DEF NoOvertaking, Overtakes, Pending

(* No call of dequeue, dequeue_typed or drain hands a message out before   *)
(* an older one of its priority, unless the older one had overflowed and   *)
(* the younger one had not.                                                *)
THEOREM MailboxFifoExceptOverflow == Spec => FifoExceptOverflow
<1>1. IInv /\ [Next]_vars => [NoOvertaking]_vars
  <2> SUFFICES ASSUME IInv, Next PROVE NoOvertaking
    BY DEF NoOvertaking
  <2>1. ASSUME NEW m \in Offered, Enqueue(m) PROVE NoOvertaking
    <3>1. taken' = taken
      BY <2>1 DEF Enqueue, EnqueueToQueue, EnqueueToOverflow, EnqueueRefused
    <3>2. QED
      BY <3>1 DEF NoOvertaking
  <2>2. CASE Dequeue
    BY <2>2, PopQueueKeepsOrder, DequeueOverflowKeepsOrder
       DEF Dequeue, DequeueQueue, Highest
  <2>3. ASSUME NEW t \in Tags, DequeueTyped(t) PROVE NoOvertaking
    <3>1. PICK i \in DOMAIN type_index[t] : Hit(t, i) /\ PopQueue(type_index[t][i])
      BY <2>3 DEF DequeueTyped
    <3>2. type_index[t][i] \in Priority /\ queues[type_index[t][i]] # <<>>
      BY <3>1, ElementOfSeq, LenProperties DEF IInv, TypeOK, Hit, FrontHasTag
    <3>3. QED
      BY <3>1, <3>2, PopQueueKeepsOrder
  <2>4. CASE Drain
    <3>1. Pending' = {}
      BY <2>4, RangeEmpty DEF Drain, Pending, InQueues
    <3>2. QED
      BY <3>1 DEF NoOvertaking
  <2>5. QED
    BY <2>1, <2>2, <2>3, <2>4 DEF Next
<1>2. QED
  BY <1>1, MailboxInvariant, PTL DEF Spec, FifoExceptOverflow, NoOvertaking
=============================================================================
