---------------------------- MODULE MemoryProofs ----------------------------
(***************************************************************************)
(* Proofs about the memory of the runtime: the allocators that move a      *)
(* cursor (the arena and the stable region of Bump, the heap of a          *)
(* process), the tables that give out numbers (Resources, and the atoms,   *)
(* ports and models of Tables), and the shared Regions.  They hold for     *)
(* every size of memory, every request that fits, and any number of        *)
(* threads, allocations, references, addresses, names and registrations.   *)
(***************************************************************************)
EXTENDS Bump, Heap, Resources, Tables, Regions, FiniteSetTheorems, TLAPS

-----------------------------------------------------------------------------
(* Allocators.  Each invariant says what the checked one does not:         *)
(* everything given out ends at or before the cursor, so the next piece    *)
(* starts after it.                                                        *)

Alignments == {1, 2, 4, 8, 16}

(* Rounding up to an alignment gives the next multiple of it.              *)
LEMMA RoundUpProperties ==
  ASSUME NEW n \in Nat, NEW align \in Alignments
  PROVE  /\ RoundUp(n, align) \in Nat
         /\ n <= RoundUp(n, align) /\ RoundUp(n, align) < n + align
         /\ RoundUp(n, align) % align = 0
<1>1. CASE align = 1
  BY <1>1, SMT DEF RoundUp
<1>2. CASE align = 2
  BY <1>2, SMT DEF RoundUp
<1>3. CASE align = 4
  BY <1>3, SMT DEF RoundUp
<1>4. CASE align = 8
  BY <1>4, SMT DEF RoundUp
<1>5. CASE align = 16
  BY <1>5, SMT DEF RoundUp
<1> QED
  BY <1>1, <1>2, <1>3, <1>4, <1>5 DEF Alignments

LEMMA RequestProperties ==
  ASSUME NEW r \in Requests
  PROVE  /\ r[1] \in Nat \ {0} /\ r[2] \in Alignments /\ r[2] \in Nat
         /\ r[1] + r[2] <= MaxChunkSize
BY BumpAssumption DEF Alignments

-----------------------------------------------------------------------------
(* The arena.                                                              *)

Chunk == [base : Nat, size : Nat, used : Nat]
Lent == [chunk : Nat \ {0}, from : Nat, to : Nat, align : Alignments]

ArenaInv ==
  /\ chunks \in Seq(Chunk) /\ chunks # <<>>
  /\ \A i \in DOMAIN chunks : chunks[i].used <= chunks[i].size
  /\ lent \in Seq(Lent)
  /\ \A i \in DOMAIN lent :
       /\ lent[i].chunk \in DOMAIN chunks
       /\ lent[i].to <= chunks[lent[i].chunk].used
  /\ ArenaApart

(* What is appended to lent fits after everything in its chunk.            *)
LEMMA LendKeeps ==
  ASSUME ArenaInv, NEW c \in Nat \ {0}, NEW start \in Nat, NEW r \in Requests,
         Lend(c, start, r[1], r[2]),
         chunks' \in Seq(Chunk), chunks' # <<>>,
         DOMAIN chunks \subseteq DOMAIN chunks', c \in DOMAIN chunks',
         \A i \in DOMAIN chunks :
           /\ chunks'[i].base = chunks[i].base /\ chunks'[i].size = chunks[i].size
           /\ chunks[i].used <= chunks'[i].used,
         \A i \in DOMAIN chunks' : chunks'[i].used <= chunks'[i].size,
         c \in DOMAIN chunks => chunks[c].used <= start,
         chunks'[c].used = start + r[1],
         (chunks'[c].base + start) % r[2] = 0
  PROVE  ArenaInv'
<1> DEFINE n == Len(lent)
           fresh == [chunk |-> c, from |-> start, to |-> start + r[1], align |-> r[2]]
<1>1. fresh \in Lent
  BY RequestProperties DEF Lent
<1>2. /\ lent \in Seq(Lent) /\ n \in Nat /\ DOMAIN lent = 1..n
      /\ lent' = Append(lent, fresh)
  BY DEF ArenaInv, Lend
<1>3. /\ lent' \in Seq(Lent) /\ DOMAIN lent' = 1..n + 1 /\ lent'[n + 1] = fresh
      /\ \A i \in 1..n : lent'[i] = lent[i]
  BY <1>1, <1>2
<1>4. \A i \in 1..n :
        /\ lent[i].chunk \in DOMAIN chunks /\ lent[i].to <= chunks[lent[i].chunk].used
        /\ (chunks[lent[i].chunk].base + lent[i].from) % lent[i].align = 0
  BY <1>2 DEF ArenaInv, ArenaApart
<1>5. \A i \in 1..n :
         lent[i].from \in Nat /\ lent[i].to \in Nat /\ lent[i].chunk \in Nat
  <2>1. \A i \in 1..n : lent[i] \in Lent
    BY <1>2
  <2> QED
    BY <2>1 DEF Lent
<1>6. \A i \in DOMAIN chunks : chunks[i].used \in Nat /\ chunks'[i].used \in Nat
  <2>1. \A i \in DOMAIN chunks : chunks[i] \in Chunk
    BY DEF ArenaInv
  <2>2. \A i \in DOMAIN chunks' : chunks'[i] \in Chunk
    OBVIOUS
  <2> QED
    BY <2>1, <2>2 DEF Chunk
<1>7. \A i \in 1..n : lent[i].chunk = c => lent[i].to <= start
  BY <1>4, <1>6, <1>5
<1>8. ASSUME NEW i \in 1..n
      PROVE  lent[i].to <= chunks'[lent[i].chunk].used
  <2> DEFINE d == lent[i].chunk
  <2>1. d \in DOMAIN chunks /\ lent[i].to <= chunks[d].used /\ lent[i].to \in Nat
    BY <1>4, <1>5
  <2>2. chunks[d].used <= chunks'[d].used /\ chunks[d].used \in Nat /\ chunks'[d].used \in Nat
    BY <1>6, <2>1
  <2> QED
    BY <2>1, <2>2
<1>9. ASSUME NEW i \in DOMAIN lent'
      PROVE  /\ lent'[i].chunk \in DOMAIN chunks'
             /\ lent'[i].to <= chunks'[lent'[i].chunk].used
             /\ (chunks'[lent'[i].chunk].base + lent'[i].from) % lent'[i].align = 0
  <2>1. CASE i \in 1..n
    BY <1>3, <1>4, <1>8, <1>5, <2>1
  <2>2. CASE i = n + 1
    BY <1>1, <1>3, <2>2, RequestProperties
  <2> QED
    BY <1>2, <1>3, <2>1, <2>2
<1>10. ASSUME NEW i \in DOMAIN lent', NEW j \in DOMAIN lent', i # j,
             lent'[i].chunk = lent'[j].chunk
      PROVE  Apart(lent'[i], lent'[j])
  <2>1. CASE i \in 1..n /\ j \in 1..n
    BY <1>2, <1>3, <1>10, <2>1 DEF ArenaInv, ArenaApart
  <2>2. CASE i = n + 1 /\ j \in 1..n
    BY <1>3, <1>7, <1>10, <2>2 DEF Apart
  <2>3. CASE j = n + 1 /\ i \in 1..n
    BY <1>3, <1>7, <1>10, <2>3 DEF Apart
  <2> QED
    BY <1>2, <1>3, <1>10, <2>1, <2>2, <2>3
<1>11. ArenaApart'
  BY <1>9, <1>10 DEF ArenaApart
<1> QED
  BY <1>3, <1>9, <1>11 DEF ArenaInv

(* The piece of a chunk that a request is given, and where it ends.        *)
LEMMA PaddingProperties ==
  ASSUME NEW base \in Nat, NEW from \in Nat, NEW size \in Nat, NEW align \in Alignments
  PROVE  LET c == [base |-> base, size |-> size, used |-> from] IN
         /\ Padding(c, align) \in Nat /\ Padding(c, align) < align
         /\ (base + (from + Padding(c, align))) % align = 0
<1> DEFINE c == [base |-> base, size |-> size, used |-> from]
           up == RoundUp(base + from, align)
<1>1. /\ up \in Nat /\ base + from <= up /\ up < base + from + align /\ up % align = 0
  <2>1. base + from \in Nat
    OBVIOUS
  <2> QED
    BY <2>1, RoundUpProperties
<1>2. Padding(c, align) = up - (base + from)
  BY DEF Padding
<1> HIDE DEF up, c
<1>3. base + (from + (up - (base + from))) = up
  BY <1>1
<1>4. align \in Nat
  BY DEF Alignments
<1>5. /\ Padding(c, align) \in Nat /\ Padding(c, align) < align
  BY <1>1, <1>2, <1>4
<1>6. (base + (from + Padding(c, align))) % align = 0
  BY <1>1, <1>2, <1>3
<1> QED
  BY <1>5, <1>6 DEF c

LEMMA AllocInChunkStep ==
  ASSUME ArenaInv, NEW r \in Requests, AllocInChunk(r[1], r[2])
  PROVE  ArenaInv'
<1> DEFINE n == Len(chunks)
           start == Current.used + Padding(Current, r[2])
<1>1. /\ n \in Nat \ {0} /\ DOMAIN chunks = 1..n
      /\ \A i \in 1..n : chunks[i] \in Chunk /\ chunks[i].used <= chunks[i].size
  BY DEF ArenaInv
<1>2. /\ Current.base \in Nat /\ Current.size \in Nat /\ Current.used \in Nat
      /\ Current = [base |-> Current.base, size |-> Current.size, used |-> Current.used]
  BY <1>1 DEF Current, Chunk
<1>3. r[1] \in Nat /\ r[2] \in Alignments
  BY RequestProperties
<1>4. /\ Padding(Current, r[2]) \in Nat
      /\ (Current.base + start) % r[2] = 0
  BY <1>2, <1>3, PaddingProperties
<1> HIDE DEF n
<1>5. /\ start \in Nat /\ Current.used <= start /\ start + r[1] <= Current.size
      /\ start + r[1] \in Nat /\ Current.used <= start + r[1]
  <2>1. Current.used + Padding(Current, r[2]) + r[1] <= Current.size
    BY DEF AllocInChunk, FitsChunk
  <2> HIDE DEF Current
  <2> QED
    BY <1>2, <1>3, <1>4, <2>1
<1> HIDE DEF start
<1>6. chunks' = [chunks EXCEPT ![n].used = start + r[1]] /\ Lend(n, start, r[1], r[2])
  BY DEF AllocInChunk, n, start
<1>7. /\ chunks[n] = Current /\ n \in DOMAIN chunks /\ chunks \in Seq(Chunk)
      /\ \A i \in DOMAIN chunks : chunks[i].used <= chunks[i].size
  BY <1>1 DEF Current, n, ArenaInv
<1>8. /\ DOMAIN chunks' = DOMAIN chunks
      /\ chunks'[n] = [base |-> Current.base, size |-> Current.size, used |-> start + r[1]]
      /\ \A i \in DOMAIN chunks : i # n => chunks'[i] = chunks[i]
      /\ chunks'[n] \in Chunk
  <2> HIDE DEF Current
  <2> QED
    BY <1>1, <1>2, <1>5, <1>6, <1>7 DEF Chunk
<1>9. chunks' \in Seq(Chunk) /\ chunks' # <<>>
  <2>1. \A i \in 1..n : chunks'[i] \in Chunk
    BY <1>1, <1>8
  <2>2. chunks' = [i \in 1..n |-> chunks'[i]]
    BY <1>1, <1>6
  <2> QED
    BY <1>1, <2>1, <2>2
<1>10. \A i \in DOMAIN chunks :
         /\ chunks'[i].base = chunks[i].base /\ chunks'[i].size = chunks[i].size
         /\ chunks[i].used <= chunks'[i].used
  <2>1. \A i \in DOMAIN chunks : chunks[i].used \in Nat
    BY <1>1 DEF Chunk
  <2> HIDE DEF Current
  <2> QED
    BY <1>5, <1>7, <1>8, <2>1
<1>11. \A i \in DOMAIN chunks' : chunks'[i].used <= chunks'[i].size
  <2> HIDE DEF Current
  <2> QED
    BY <1>5, <1>7, <1>8
<1>12. /\ chunks[n].used <= start /\ chunks'[n].used = start + r[1]
       /\ (chunks'[n].base + start) % r[2] = 0
  <2>1. (Current.base + start) % r[2] = 0
    BY <1>4 DEF start
  <2> HIDE DEF Current
  <2> QED
    BY <1>5, <1>7, <1>8, <2>1
<1> QED
  BY <1>1, <1>5, <1>6, <1>7, <1>8, <1>9, <1>10, <1>11, <1>12, LendKeeps

(* A new chunk has room for the request wherever it starts.                *)
LEMMA NewChunkHasRoom ==
  ASSUME NEW r \in Requests, Current.size \in Nat
  PROVE  NewChunkSize(r[1], r[2]) \in Nat /\ r[1] + r[2] <= NewChunkSize(r[1], r[2])
<1> DEFINE a == Current.size * 2
           b == r[1] + r[2]
           most == Max({a, b})
<1>1. a \in Nat /\ b \in Nat /\ b <= MaxChunkSize /\ MaxChunkSize \in Nat
  BY RequestProperties, BumpAssumption DEF MaxChunkSize
<1> HIDE DEF a, b
<1>2. most \in {a, b} /\ b <= most
  <2>1. \E x \in {a, b} : \A y \in {a, b} : x >= y
    BY <1>1
  <2>2. most \in {a, b} /\ \A y \in {a, b} : most >= y
    BY <2>1 DEF Max
  <2> QED
    BY <1>1, <2>2
<1>3. most \in Nat
  BY <1>1, <1>2
<1> HIDE DEF most
<1>4. Min({most, MaxChunkSize}) \in {most, MaxChunkSize}
  <2>1. \E x \in {most, MaxChunkSize} : \A y \in {most, MaxChunkSize} : x =< y
    BY <1>1, <1>3
  <2> QED
    BY <2>1 DEF Min
<1>5. Min({most, MaxChunkSize}) \in Nat /\ b <= Min({most, MaxChunkSize})
  BY <1>1, <1>2, <1>3, <1>4
<1> QED
  BY <1>5 DEF NewChunkSize, most, a, b

LEMMA AllocInNewChunkStep ==
  ASSUME ArenaInv, NEW r \in Requests, AllocInNewChunk(r[1], r[2])
  PROVE  ArenaInv'
<1> DEFINE n == Len(chunks)
           size == NewChunkSize(r[1], r[2])
<1>1. /\ n \in Nat \ {0} /\ DOMAIN chunks = 1..n /\ chunks \in Seq(Chunk)
      /\ \A i \in 1..n : chunks[i] \in Chunk /\ chunks[i].used <= chunks[i].size
  BY DEF ArenaInv
<1>2. Current.size \in Nat
  BY <1>1 DEF Current, Chunk
<1>3. size \in Nat /\ r[1] + r[2] <= size /\ r[1] \in Nat /\ r[2] \in Alignments /\ r[2] \in Nat
  BY <1>2, NewChunkHasRoom, RequestProperties
<1>4. PICK b \in Bases :
        LET fresh == [base |-> b, size |-> size, used |-> 0]
            start == Padding(fresh, r[2])
        IN  /\ chunks' = Append(chunks, [fresh EXCEPT !.used = start + r[1]])
            /\ Lend(n + 1, start, r[1], r[2])
  BY DEF AllocInNewChunk
<1> DEFINE start == Padding([base |-> b, size |-> size, used |-> 0], r[2])
<1>5. b \in Nat
  BY BumpAssumption
<1> HIDE DEF size
<1>6. start \in Nat /\ start < r[2] /\ (b + (0 + start)) % r[2] = 0
  BY <1>3, <1>5, PaddingProperties
<1>7. chunks' = Append(chunks, [base |-> b, size |-> size, used |-> start + r[1]])
  BY <1>4 DEF size
<1>8. Lend(n + 1, start, r[1], r[2])
  BY <1>4 DEF size
<1> HIDE DEF start
<1>9. [base |-> b, size |-> size, used |-> start + r[1]] \in Chunk /\ start + r[1] <= size
  BY <1>3, <1>5, <1>6 DEF Chunk
<1>10. /\ chunks' \in Seq(Chunk) /\ chunks' # <<>> /\ DOMAIN chunks' = 1..n + 1
       /\ chunks'[n + 1] = [base |-> b, size |-> size, used |-> start + r[1]]
       /\ \A i \in 1..n : chunks'[i] = chunks[i]
  BY <1>1, <1>7, <1>9
<1>11. \A i \in DOMAIN chunks :
         /\ chunks'[i].base = chunks[i].base /\ chunks'[i].size = chunks[i].size
         /\ chunks[i].used <= chunks'[i].used
  <2>1. \A i \in DOMAIN chunks : chunks'[i] = chunks[i]
    BY <1>1, <1>10
  <2>2. \A i \in DOMAIN chunks : chunks[i].used \in Nat
    BY <1>1 DEF Chunk
  <2> QED
    BY <2>1, <2>2
<1>12. \A i \in DOMAIN chunks' : chunks'[i].used <= chunks'[i].size
  BY <1>1, <1>9, <1>10
<1>13. (chunks'[n + 1].base + start) % r[2] = 0
  <2>1. b + (0 + start) = b + start
    BY <1>5, <1>6
  <2> QED
    BY <1>6, <1>10, <2>1
<1>14. /\ DOMAIN chunks \subseteq DOMAIN chunks' /\ n + 1 \in DOMAIN chunks'
       /\ n + 1 \notin DOMAIN chunks /\ n + 1 \in Nat \ {0}
       /\ chunks'[n + 1].used = start + r[1]
  BY <1>1, <1>10
<1> HIDE DEF n
<1> QED
  BY <1>6, <1>8, <1>10, <1>11, <1>12, <1>13, <1>14, LendKeeps

LEMMA ResetStep ==
  ASSUME ArenaInv, Reset
  PROVE  ArenaInv'
<1>1. /\ 1 \in DOMAIN chunks /\ chunks[1] \in Chunk
      /\ chunks' = <<[chunks[1] EXCEPT !.used = 0]>> /\ lent' = <<>>
  BY DEF Reset, ArenaInv
<1>2. [chunks[1] EXCEPT !.used = 0] \in Chunk /\ [chunks[1] EXCEPT !.used = 0].used = 0
  BY <1>1 DEF Chunk
<1>3. /\ chunks' \in Seq(Chunk) /\ chunks' # <<>> /\ DOMAIN chunks' = {1}
      /\ chunks'[1].used = 0 /\ chunks'[1] \in Chunk
  <2> DEFINE first == [chunks[1] EXCEPT !.used = 0]
  <2>1. chunks' = <<first>> /\ first \in Chunk /\ first.used = 0
    BY <1>1, <1>2
  <2> HIDE DEF first
  <2> QED
    BY <2>1
<1>4. \A i \in DOMAIN chunks' : chunks'[i].used <= chunks'[i].size
  BY <1>3 DEF Chunk
<1>5. lent' \in Seq(Lent) /\ DOMAIN lent' = {}
  BY <1>1
<1>6. ArenaApart'
  BY <1>5 DEF ArenaApart
<1> QED
  BY <1>3, <1>4, <1>5, <1>6 DEF ArenaInv

LEMMA InitArena == BumpInit => ArenaInv
<1> SUFFICES ASSUME BumpInit PROVE ArenaInv
  OBVIOUS
<1>1. PICK b \in Bases : chunks = <<[base |-> b, size |-> ChunkSize, used |-> 0]>>
  BY DEF BumpInit
<1>2. [base |-> b, size |-> ChunkSize, used |-> 0] \in Chunk
  BY BumpAssumption DEF Chunk
<1>3. /\ chunks \in Seq(Chunk) /\ chunks # <<>> /\ DOMAIN chunks = {1}
      /\ chunks[1].used = 0 /\ chunks[1].size \in Nat
  BY <1>1, <1>2 DEF Chunk
<1>4. lent \in Seq(Lent) /\ DOMAIN lent = {}
  BY DEF BumpInit
<1> QED
  BY <1>3, <1>4 DEF ArenaInv, ArenaApart

(* Nothing alloc_aligned has handed out since the last reset overlaps, at  *)
(* an address that does not suit it or outside its chunk, for requests of  *)
(* any sizes in any order.                                                 *)
THEOREM BumpArenaApart == BumpSpec => []ArenaApart
<1>1. ArenaInv /\ [StableNext \/ ArenaNext]_bumpVars => ArenaInv'
  <2> SUFFICES ASSUME ArenaInv, [StableNext \/ ArenaNext]_bumpVars PROVE ArenaInv'
    OBVIOUS
  <2>1. CASE UNCHANGED <<chunks, lent>>
    BY <2>1 DEF ArenaInv, ArenaApart
  <2>2. CASE ArenaNext
    BY <2>2, AllocInChunkStep, AllocInNewChunkStep, ResetStep DEF ArenaNext
  <2>3. CASE StableNext
    BY <2>1, <2>3 DEF StableNext, LoadCursor, StoreCursor
  <2> QED
    BY <2>1, <2>2, <2>3 DEF bumpVars
<1>2. ArenaInv => ArenaApart
  BY DEF ArenaInv
<1> QED
  BY <1>1, <1>2, InitArena, PTL DEF BumpSpec

-----------------------------------------------------------------------------
(* The stable region, for one user: what a second one does is a finding.   *)

Given == [from : Nat, to : Nat, align : Alignments]

StableInv ==
  /\ cursor \in Nat /\ cursor <= StableCapacity
  /\ loaded \in [Users -> {-1, cursor}]
  /\ stable \in Seq(Given)
  /\ \A i \in DOMAIN stable : stable[i].to <= cursor
  /\ StableApart

LEMMA StoreCursorStep ==
  ASSUME StableInv, \A u, w \in Users : u = w,
         NEW u \in Users, NEW r \in Requests, StoreCursor(u, r[1], r[2])
  PROVE  StableInv'
<1> DEFINE start == RoundUp(cursor, r[2])
           n == Len(stable)
<1>1. loaded[u] = cursor /\ loaded' = [loaded EXCEPT ![u] = -1] /\ cursor \in Nat
  BY DEF StoreCursor, StableInv
<1>2. /\ start \in Nat /\ cursor <= start /\ start % r[2] = 0
      /\ r[1] \in Nat \ {0} /\ r[2] \in Alignments
  BY <1>1, RequestProperties, RoundUpProperties
<1>3. loaded' \in [Users -> {-1, cursor'}]
  BY <1>1 DEF StableInv
<1>4. CASE start + r[1] > StableCapacity
  <2>1. cursor' = cursor /\ stable' = stable
    BY <1>1, <1>4 DEF StoreCursor
  <2> QED
    BY <1>3, <2>1 DEF StableInv, StableApart
<1>5. CASE ~(start + r[1] > StableCapacity)
  <2> DEFINE fresh == [from |-> start, to |-> start + r[1], align |-> r[2]]
  <2>1. cursor' = start + r[1] /\ stable' = Append(stable, fresh)
    BY <1>1, <1>5 DEF StoreCursor, Stretch
  <2> HIDE DEF start
  <2>2. fresh \in Given /\ start + r[1] <= StableCapacity /\ start + r[1] \in Nat
    BY <1>2, <1>5, BumpAssumption DEF Given
  <2>3. stable \in Seq(Given) /\ n \in Nat /\ DOMAIN stable = 1..n
    BY DEF StableInv
  <2>4. /\ stable' \in Seq(Given) /\ DOMAIN stable' = 1..n + 1 /\ stable'[n + 1] = fresh
        /\ \A i \in 1..n : stable'[i] = stable[i]
    <3> HIDE DEF fresh
    <3> QED
      BY <2>1, <2>2, <2>3
  <2>5. \A i \in 1..n : stable[i].from \in Nat /\ stable[i].to \in Nat
    <3>1. \A i \in 1..n : stable[i] \in Given
      BY <2>3
    <3> QED
      BY <3>1 DEF Given
  <2>6. \A i \in 1..n : stable[i].to <= start
    <3>1. \A i \in 1..n : stable[i].to <= cursor
      BY <2>3 DEF StableInv
    <3> QED
      BY <1>1, <1>2, <2>5, <3>1
  <2>7. \A i \in DOMAIN stable' :
          /\ stable'[i].to <= cursor' /\ stable'[i].to <= StableCapacity
          /\ stable'[i].from % stable'[i].align = 0
    <3> SUFFICES ASSUME NEW i \in DOMAIN stable'
                 PROVE  /\ stable'[i].to <= cursor' /\ stable'[i].to <= StableCapacity
                        /\ stable'[i].from % stable'[i].align = 0
      OBVIOUS
    <3>1. CASE i \in 1..n
      <4>1. stable'[i] = stable[i] /\ stable[i].from % stable[i].align = 0
        BY <2>3, <2>4, <3>1 DEF StableInv, StableApart
      <4>2. stable[i].to <= start + r[1]
        BY <1>2, <2>5, <2>6, <3>1
      <4> QED
        BY <2>1, <2>2, <2>5, <3>1, <4>1, <4>2, BumpAssumption
    <3>2. CASE i = n + 1
      BY <1>2, <2>1, <2>2, <2>4, <3>2
    <3> QED
      BY <2>3, <2>4, <3>1, <3>2
  <2>8. ASSUME NEW i \in DOMAIN stable', NEW j \in DOMAIN stable', i # j
        PROVE  Apart(stable'[i], stable'[j])
    <3>1. CASE i \in 1..n /\ j \in 1..n
      BY <2>3, <2>4, <2>8, <3>1 DEF StableInv, StableApart
    <3>2. CASE i = n + 1 /\ j \in 1..n
      BY <2>4, <2>6, <2>8, <3>2 DEF Apart
    <3>3. CASE j = n + 1 /\ i \in 1..n
      BY <2>4, <2>6, <2>8, <3>3 DEF Apart
    <3> QED
      BY <2>3, <2>4, <2>8, <3>1, <3>2, <3>3
  <2>9. StableApart'
    BY <2>7, <2>8 DEF StableApart
  <2>10. cursor' \in Nat /\ cursor' <= StableCapacity
    BY <2>1, <2>2
  <2> QED
    BY <1>3, <2>4, <2>7, <2>9, <2>10 DEF StableInv
<1> QED
  BY <1>4, <1>5

(* With one user at most, what allocate_immutable answers is apart, aligned*)
(* and inside the region, whatever was asked for before.                   *)
THEOREM BumpStableApart ==
  ASSUME \A u, w \in Users : u = w
  PROVE  BumpSpec => []StableApart
<1>1. BumpInit => StableInv
  BY BumpAssumption DEF BumpInit, StableInv, StableApart
<1>2. StableInv /\ [StableNext \/ ArenaNext]_bumpVars => StableInv'
  <2> SUFFICES ASSUME StableInv, [StableNext \/ ArenaNext]_bumpVars PROVE StableInv'
    OBVIOUS
  <2>1. CASE UNCHANGED <<cursor, loaded, stable>>
    BY <2>1 DEF StableInv, StableApart
  <2>2. ASSUME NEW u \in Users, LoadCursor(u) PROVE StableInv'
    BY <2>2 DEF LoadCursor, StableInv, StableApart
  <2>3. CASE StableNext
    BY <2>2, <2>3, StoreCursorStep DEF StableNext
  <2>4. CASE ArenaNext
    BY <2>1, <2>4 DEF ArenaNext, AllocInChunk, AllocInNewChunk, Reset
  <2> QED
    BY <2>1, <2>3, <2>4 DEF bumpVars
<1>3. StableInv => StableApart
  BY DEF StableInv
<1> QED
  BY <1>1, <1>2, <1>3, PTL DEF BumpSpec

-----------------------------------------------------------------------------
(* The heap of a process.                                                  *)

Object == [from : Nat, to : Nat]

HeapInv ==
  /\ heap_ptr \in Nat /\ heap_top \in Nat
  /\ InitialHeap <= heap_top
  /\ objects \in Seq(Object)
  /\ HeapApart

(* A product grows with either factor.                                     *)
LEMMA TimesGrows ==
  ASSUME NEW a \in Nat, NEW b \in Nat, NEW k \in Nat, a <= b
  PROVE  k * a <= k * b
<1>1. k * (b - a) \in Nat
  <2>1. b - a \in Nat
    OBVIOUS
  <2> QED
    BY <2>1
<1>2. k * (b - a) = k * b - k * a
  OBVIOUS
<1>3. k * a \in Nat /\ k * b \in Nat
  OBVIOUS
<1> QED
  BY <1>1, <1>2, <1>3

(* After growing there is room, although the new size is a number of bytes *)
(* taken for one of words.                                                 *)
LEMMA GrownHasRoom ==
  ASSUME HeapInv, NEW n \in Counts
  PROVE  /\ Grown(heap_top) \in Nat /\ heap_top <= Grown(heap_top)
         /\ heap_ptr + n <= Grown(heap_top)
<1>1. /\ heap_ptr \in Nat /\ heap_top \in Nat /\ InitialHeap <= heap_top
      /\ heap_ptr <= heap_top /\ InitialHeap \in Nat /\ n \in Nat
      /\ WordBytes \in Nat /\ WordBytes >= 1 /\ SmallestHeap \in Nat
      /\ InitialHeap + n <= 2 * WordBytes * InitialHeap
  BY HeapAssumption DEF HeapInv, HeapApart
<1> DEFINE k == 2 * WordBytes - 1
<1>2. k \in Nat /\ k >= 1
  BY <1>1
<1>3. /\ 2 * WordBytes * InitialHeap = k * InitialHeap + InitialHeap
      /\ 2 * (heap_top * WordBytes) = k * heap_top + heap_top
  BY <1>1
<1>4. k * InitialHeap <= k * heap_top /\ k * InitialHeap \in Nat /\ k * heap_top \in Nat
  <2> HIDE DEF k
  <2> QED
    BY <1>1, <1>2, TimesGrows
<1> DEFINE twice == 2 * (heap_top * WordBytes)
<1>5. twice \in Nat /\ heap_ptr + n <= twice /\ heap_top <= twice
  <2> DEFINE x == k * InitialHeap
             y == k * heap_top
  <2>1. /\ x \in Nat /\ y \in Nat /\ x <= y /\ n <= x /\ twice = y + heap_top
    <3>1. InitialHeap + n <= x + InitialHeap
      BY <1>1, <1>3
    <3> HIDE DEF x, y, twice, k
    <3>2. x \in Nat /\ y \in Nat /\ x <= y /\ twice = y + heap_top
      BY <1>3, <1>4 DEF x, y, twice
    <3> QED
      BY <1>1, <3>1, <3>2
  <2> HIDE DEF x, y, twice, k
  <2> QED
    BY <1>1, <2>1
<1> HIDE DEF twice, k
<1>6. Max({twice, SmallestHeap}) \in Nat /\ twice <= Max({twice, SmallestHeap})
  <2>1. \E x \in {twice, SmallestHeap} : \A y \in {twice, SmallestHeap} : x >= y
    BY <1>1, <1>5
  <2>2. /\ Max({twice, SmallestHeap}) \in {twice, SmallestHeap}
        /\ \A y \in {twice, SmallestHeap} : Max({twice, SmallestHeap}) >= y
    BY <2>1 DEF Max
  <2> QED
    BY <1>1, <1>5, <2>2
<1>7. Grown(heap_top) = Max({twice, SmallestHeap})
  BY DEF Grown, Bytes, twice
<1> QED
  BY <1>1, <1>5, <1>6, <1>7

(* Without growing there was room already.                                 *)
LEMMA HadRoom ==
  ASSUME NEW p \in Nat, NEW n \in Nat, NEW top \in Nat, ~(Bytes(p) + Bytes(n) > Bytes(top))
  PROVE  p + n <= top
<1>1. WordBytes \in Nat /\ WordBytes >= 1
  BY HeapAssumption
<1>2. WordBytes * (p + n) <= WordBytes * top
  BY <1>1 DEF Bytes
<1>3. ASSUME top + 1 <= p + n PROVE FALSE
  <2>1. WordBytes * (top + 1) <= WordBytes * (p + n)
    BY <1>1, <1>3, TimesGrows
  <2>2. WordBytes * (top + 1) = WordBytes * top + WordBytes
    BY <1>1
  <2> DEFINE a == WordBytes * top
             b == WordBytes * (p + n)
  <2>3. a \in Nat /\ b \in Nat /\ b <= a /\ a + WordBytes <= b
    BY <1>1, <1>2, <2>1, <2>2
  <2> HIDE DEF a, b
  <2> QED
    BY <1>1, <2>3
<1> QED
  BY <1>3

LEMMA AllocWordsStep ==
  ASSUME HeapInv, NEW n \in Counts, AllocWords(n)
  PROVE  HeapInv'
<1> DEFINE fresh == [from |-> heap_ptr, to |-> heap_ptr + n]
           m == Len(objects)
<1>1. /\ heap_ptr \in Nat /\ heap_top \in Nat /\ n \in Nat /\ heap_ptr <= heap_top
      /\ InitialHeap <= heap_top /\ InitialHeap \in Nat
  BY HeapAssumption DEF HeapInv, HeapApart
<1>2. /\ heap_ptr' = heap_ptr + n
      /\ objects' = Append(objects, fresh)
  BY DEF AllocWords
<1>3. heap_top' \in Nat /\ heap_top <= heap_top' /\ heap_ptr + n <= heap_top'
  <2>1. CASE Bytes(heap_ptr) + Bytes(n) > Bytes(heap_top)
    BY <2>1, GrownHasRoom DEF AllocWords, GrowHeap
  <2>2. CASE ~(Bytes(heap_ptr) + Bytes(n) > Bytes(heap_top))
    <3>1. heap_top' = heap_top
      BY <2>2 DEF AllocWords
    <3>2. heap_ptr + n <= heap_top
      BY <1>1, <2>2, HadRoom
    <3> QED
      BY <1>1, <3>1, <3>2
  <2> QED
    BY <2>1, <2>2
<1>4. fresh \in Object
  BY <1>1 DEF Object
<1>5. /\ objects \in Seq(Object) /\ m \in Nat /\ DOMAIN objects = 1..m
      /\ \A i \in 1..m : objects[i] \in Object /\ objects[i].to <= heap_ptr
      /\ \A i, j \in 1..m : i < j => objects[i].to <= objects[j].from
  BY DEF HeapInv, HeapApart
<1>6. /\ objects' \in Seq(Object) /\ DOMAIN objects' = 1..m + 1
      /\ objects'[m + 1] = fresh /\ \A i \in 1..m : objects'[i] = objects[i]
  <2> HIDE DEF fresh
  <2> QED
    BY <1>2, <1>4, <1>5
<1>7. \A i \in DOMAIN objects' : objects'[i].to <= heap_ptr'
  <2>1. \A i \in 1..m : objects[i].to <= heap_ptr + n
    BY <1>1, <1>5 DEF Object
  <2>2. objects'[m + 1].to <= heap_ptr + n
    BY <1>1, <1>6
  <2> QED
    BY <1>2, <1>5, <1>6, <2>1, <2>2
<1>8. ASSUME NEW i \in DOMAIN objects', NEW j \in DOMAIN objects', i < j
      PROVE  objects'[i].to <= objects'[j].from
  <2>1. CASE j \in 1..m
    <3>1. i \in 1..m
      BY <1>5, <1>6, <1>8, <2>1
    <3> QED
      BY <1>5, <1>6, <1>8, <2>1, <3>1
  <2>2. CASE j = m + 1
    <3>1. i \in 1..m
      BY <1>5, <1>6, <1>8, <2>2
    <3> QED
      BY <1>5, <1>6, <2>2, <3>1
  <2> QED
    BY <1>5, <1>6, <2>1, <2>2
<1>9. heap_ptr' <= heap_top' /\ heap_ptr' \in Nat /\ InitialHeap <= heap_top'
  BY <1>1, <1>2, <1>3
<1> QED
  BY <1>3, <1>6, <1>7, <1>8, <1>9 DEF HeapInv, HeapApart

(* Objects of a process never share a word or leave the heap, however      *)
(* often it grows and wherever realloc puts it, for requests that fit the  *)
(* initial heap once grown (alloc_words, grow_heap).                       *)
THEOREM ProcessHeapApart == HeapSpec => []HeapApart
<1>1. HeapInit => HeapInv
  BY HeapAssumption DEF HeapInit, HeapInv, HeapApart, Object
<1>2. HeapInv /\ [HeapNext]_heapVars => HeapInv'
  <2> SUFFICES ASSUME HeapInv, [HeapNext]_heapVars PROVE HeapInv'
    OBVIOUS
  <2>1. CASE SetHighWater
    BY <2>1 DEF SetHighWater, HeapInv, HeapApart
  <2>2. CASE UNCHANGED heapVars
    BY <2>2 DEF heapVars, HeapInv, HeapApart
  <2> QED
    BY <2>1, <2>2, AllocWordsStep DEF HeapNext
<1>3. HeapInv => HeapApart
  BY DEF HeapInv
<1> QED
  BY <1>1, <1>2, <1>3, PTL DEF HeapSpec

-----------------------------------------------------------------------------
(* Resources.  CapabilityKept is not inductive: the entry a caller is      *)
(* about to make could be under an id that is taken.  DrawnApart says that *)
(* it is not: every id drawn is below the counter, and is entered once.    *)

Entering(c) == entering[c] # NotEntering

(* A map of ids to entries.                                                *)
Map(f) == f = [i \in DOMAIN f |-> f[i]] /\ \A i \in DOMAIN f : f[i] \in Entry

ResourcesTypeOK ==
  /\ Map(resources) /\ Map(history)
  /\ next_id \in Nat \ {0}
  /\ DOMAIN entering = Callers
  /\ entering = [c \in Callers |-> entering[c]]
  /\ \A c \in Callers : Entering(c) => entering[c] \in [id : Nat, entry : Entry]

DrawnApart ==
  /\ \A i \in EnteredIds : i \in Nat /\ i < next_id
  /\ \A c \in Callers : Entering(c) =>
       entering[c].id < next_id /\ entering[c].id \notin EnteredIds
  /\ \A c, d \in Callers :
       Entering(c) /\ Entering(d) /\ entering[c].id = entering[d].id => c = d

ResourceInv == ResourcesTypeOK /\ DrawnApart /\ CapabilityKept

-----------------------------------------------------------------------------
LEMMA InitResources == ResourcesInit => ResourceInv
<1> SUFFICES ASSUME ResourcesInit PROVE ResourceInv
  OBVIOUS
<1>1. DOMAIN resources = {} /\ DOMAIN history = {}
  BY DEF ResourcesInit
<1>2. Map(resources) /\ Map(history)
  BY <1>1 DEF Map, ResourcesInit
<1>3. DOMAIN entering = Callers /\ \A c \in Callers : ~Entering(c)
  BY DEF ResourcesInit, Entering
<1>4. entering = [c \in Callers |-> entering[c]]
  BY DEF ResourcesInit
<1>5. ResourcesTypeOK
  BY <1>2, <1>3, <1>4 DEF ResourcesTypeOK, ResourcesInit
<1>6. DrawnApart /\ CapabilityKept
  BY <1>1, <1>3 DEF DrawnApart, CapabilityKept, EnteredIds
<1> QED
  BY <1>5, <1>6 DEF ResourceInv

(* A map with one entry less.                                              *)
LEMMA WithoutProperties ==
  ASSUME NEW f, Map(f), NEW i
  PROVE  /\ Map(Without(f, i)) /\ DOMAIN Without(f, i) = DOMAIN f \ {i}
         /\ \A j \in DOMAIN f \ {i} : Without(f, i)[j] = f[j]
BY DEF Map, Without

-----------------------------------------------------------------------------
LEMMA DrawIdStep ==
  ASSUME ResourceInv, NEW c \in Callers, NEW e \in Entry, DrawId(c, e)
  PROVE  ResourceInv'
<1>1. /\ resources' = resources /\ history' = history /\ next_id' = next_id + 1
      /\ next_id \in Nat \ {0}
      /\ entering' = [entering EXCEPT ![c] = [id |-> next_id, entry |-> e]]
      /\ DOMAIN entering = Callers
  BY DEF ResourceInv, ResourcesTypeOK, DrawId
<1>2. /\ DOMAIN entering' = Callers /\ entering' = [d \in Callers |-> entering'[d]]
      /\ entering'[c] = [id |-> next_id, entry |-> e]
      /\ \A d \in Callers : d # c => entering'[d] = entering[d]
  BY <1>1 DEF ResourceInv, ResourcesTypeOK
<1>3. ResourcesTypeOK'
  BY <1>1, <1>2 DEF ResourceInv, ResourcesTypeOK, Entering, Map
<1>4. \A d \in Callers : Entering(d) => entering[d].id \in Nat
  BY DEF ResourceInv, ResourcesTypeOK
<1>5. DrawnApart'
  BY <1>1, <1>2, <1>4 DEF ResourceInv, DrawnApart, Entering, EnteredIds
<1> QED
  BY <1>1, <1>3, <1>5 DEF ResourceInv, CapabilityKept, EnteredIds

LEMMA EnterStep ==
  ASSUME ResourceInv, NEW c \in Callers, Enter(c)
  PROVE  ResourceInv'
<1> DEFINE i == entering[c].id
           e == entering[c].entry
<1>1. /\ Entering(c) /\ i \in Nat /\ e \in Entry /\ i < next_id /\ i \notin EnteredIds
      /\ resources' = With(resources, i, e) /\ history' = With(history, i, e)
      /\ entering' = [entering EXCEPT ![c] = NotEntering] /\ next_id' = next_id
  BY DEF ResourceInv, ResourcesTypeOK, DrawnApart, Enter, Entering
<1>2. /\ Map(resources') /\ DOMAIN resources' = DOMAIN resources \cup {i} /\ resources'[i] = e
      /\ \A j \in DOMAIN resources : j # i => resources'[j] = resources[j]
  <2>1. Map(resources)
    BY DEF ResourceInv, ResourcesTypeOK
  <2>2. /\ Map(With(resources, i, e)) /\ DOMAIN With(resources, i, e) = DOMAIN resources \cup {i}
        /\ With(resources, i, e)[i] = e
        /\ \A j \in DOMAIN resources : j # i => With(resources, i, e)[j] = resources[j]
    <3>1. e \in Entry
      BY <1>1
    <3> HIDE DEF i, e
    <3> QED
      BY <2>1, <3>1 DEF With, Map
  <2> QED
    BY <1>1, <2>2
<1>3. /\ Map(history') /\ EnteredIds' = EnteredIds \cup {i} /\ history'[i] = e
      /\ \A j \in EnteredIds : history'[j] = history[j]
  <2>1. Map(history)
    BY DEF ResourceInv, ResourcesTypeOK
  <2>2. /\ Map(With(history, i, e)) /\ DOMAIN With(history, i, e) = DOMAIN history \cup {i}
        /\ With(history, i, e)[i] = e
        /\ \A j \in DOMAIN history : j # i => With(history, i, e)[j] = history[j]
    <3>1. e \in Entry
      BY <1>1
    <3> HIDE DEF i, e
    <3> QED
      BY <2>1, <3>1 DEF With, Map
  <2> QED
    BY <1>1, <2>2 DEF EnteredIds
<1>4. /\ DOMAIN entering' = Callers /\ entering' = [d \in Callers |-> entering'[d]]
      /\ ~Entering(c)'
      /\ \A d \in Callers : d # c => entering'[d] = entering[d]
  BY <1>1 DEF ResourceInv, ResourcesTypeOK, Entering
<1>5. ResourcesTypeOK'
  BY <1>1, <1>2, <1>3, <1>4 DEF ResourceInv, ResourcesTypeOK, Entering
<1>6. DrawnApart'
  BY <1>1, <1>3, <1>4 DEF ResourceInv, DrawnApart, Entering
<1>7. CapabilityKept'
  BY <1>1, <1>2, <1>3 DEF ResourceInv, CapabilityKept
<1> QED
  BY <1>5, <1>6, <1>7 DEF ResourceInv

LEMMA ReleaseStep ==
  ASSUME ResourceInv, NEW i \in Ids, Release(i)
  PROVE  ResourceInv'
<1>1. /\ Map(resources') /\ DOMAIN resources' = DOMAIN resources \ {i}
      /\ \A j \in DOMAIN resources \ {i} : resources'[j] = resources[j]
      /\ next_id' = next_id /\ entering' = entering /\ history' = history
  BY WithoutProperties DEF ResourceInv, ResourcesTypeOK, Release
<1>2. ResourcesTypeOK' /\ DrawnApart'
  BY <1>1 DEF ResourceInv, ResourcesTypeOK, DrawnApart, Entering, EnteredIds
<1>3. CapabilityKept'
  BY <1>1 DEF ResourceInv, CapabilityKept, EnteredIds
<1> QED
  BY <1>2, <1>3 DEF ResourceInv

LEMMA TransferStep ==
  ASSUME ResourceInv, NEW i \in Ids, NEW actor \in Actors, Transfer(i, actor)
  PROVE  ResourceInv'
<1>1. /\ i \in DOMAIN resources
      /\ resources[i].shareable \/ resources[i].owner = actor
      /\ resources' = [resources EXCEPT ![i].owner = actor]
      /\ next_id' = next_id /\ entering' = entering /\ history' = history
  BY DEF Transfer, MayTransfer
<1>2. /\ resources[i] \in Entry
      /\ resources = [j \in DOMAIN resources |-> resources[j]]
      /\ \A j \in DOMAIN resources : resources[j] \in Entry
  BY <1>1 DEF ResourceInv, ResourcesTypeOK, Map
<1>3. /\ DOMAIN resources' = DOMAIN resources
      /\ resources'[i] = [resources[i] EXCEPT !.owner = actor]
      /\ \A j \in DOMAIN resources : j # i => resources'[j] = resources[j]
      /\ resources' = [j \in DOMAIN resources' |-> resources'[j]]
  BY <1>1, <1>2
<1>4. /\ resources'[i] \in Entry /\ resources'[i].owner = actor
      /\ resources'[i].shareable = resources[i].shareable
  BY <1>2, <1>3 DEF Entry
<1>5. Map(resources')
  BY <1>2, <1>3, <1>4 DEF Map
<1>6. ResourcesTypeOK' /\ DrawnApart'
  BY <1>1, <1>5 DEF ResourceInv, ResourcesTypeOK, DrawnApart, Entering, EnteredIds
<1>7. CapabilityKept'
  BY <1>1, <1>3, <1>4 DEF ResourceInv, CapabilityKept, EnteredIds
<1> QED
  BY <1>6, <1>7 DEF ResourceInv

-----------------------------------------------------------------------------
LEMMA ResourcesStep == ResourceInv /\ [ResourcesNext]_resourceVars => ResourceInv'
<1> SUFFICES ASSUME ResourceInv, [ResourcesNext]_resourceVars PROVE ResourceInv'
  OBVIOUS
<1>1. CASE UNCHANGED resourceVars
  BY <1>1
     DEF resourceVars, ResourceInv, ResourcesTypeOK, DrawnApart, CapabilityKept, Entering, EnteredIds, Map
<1> QED
  BY <1>1, DrawIdStep, EnterStep, ReleaseStep, TransferStep DEF ResourcesNext

(* The invariant holds in every state calls of any threads lead to.        *)
THEOREM ResourcesInvariant == ResourcesSpec => []ResourceInv
<1> QED
  BY InitResources, ResourcesStep, PTL DEF ResourcesSpec

(* A capability id is always the resource it was drawn for, and a resource *)
(* that is not shareable is always its first owner's.                      *)
THEOREM ResourcesCapabilityKept == ResourcesSpec => []CapabilityKept
<1>1. ResourceInv => CapabilityKept
  BY DEF ResourceInv
<1> QED
  BY <1>1, ResourcesInvariant, PTL

(* What was released stays released.                                       *)
THEOREM ResourcesNoRevival == ResourcesSpec => NoRevival
<1>1. ASSUME ResourceInv, [ResourcesNext]_resourceVars, NEW i \in EnteredIds, i \in DOMAIN resources'
      PROVE  i \in DOMAIN resources
  <2>1. CASE UNCHANGED resources
    BY <1>1, <2>1
  <2>2. ASSUME NEW c \in Callers, Enter(c) PROVE i \in DOMAIN resources
    <3>1. entering[c].id # i
      BY <1>1, <2>2 DEF ResourceInv, DrawnApart, Enter, Entering
    <3> QED
      BY <1>1, <2>2, <3>1 DEF Enter, With
  <2>3. ASSUME NEW j \in Ids, Release(j) PROVE i \in DOMAIN resources
    BY <1>1, <2>3 DEF Release, Without
  <2>4. ASSUME NEW j \in Ids, NEW actor \in Actors, Transfer(j, actor)
        PROVE  i \in DOMAIN resources
    BY <1>1, <2>4 DEF Transfer, ResourceInv, ResourcesTypeOK, Map
  <2> QED
    BY <1>1, <2>1, <2>2, <2>3, <2>4 DEF ResourcesNext, resourceVars, DrawId
<1>2. ResourceInv /\ [ResourcesNext]_resourceVars =>
        [\A i \in EnteredIds : i \in DOMAIN resources' => i \in DOMAIN resources]_resourceVars
  BY <1>1
<1> QED
  BY <1>2, ResourcesInvariant, PTL DEF ResourcesSpec, NoRevival

-----------------------------------------------------------------------------
(* Tables.  The two maps of the atom table are an inductive invariant as   *)
(* they are, given their types.  A registry's is not: HandlesKept says     *)
(* nothing of the id that is given next.  IdsFresh adds that no port has   *)
(* had it, and no model the ids that are drawn and not entered yet.        *)

AtomTypes ==
  /\ names \in Seq(Names)
  /\ asking \in [Clients -> Names \cup {Nobody}]
  /\ DOMAIN indices \subseteq Names
  /\ told \subseteq Names \X Nat

HandleTypes ==
  /\ next_port \in Nat /\ next_model \in Nat
  /\ loading \in [Clients -> [id : Nat, thing : Things \cup {Nobody}]]
  /\ handles \subseteq {"port", "model"} \X Nat \X Things

Drawn(c) == loading[c] # NotLoading

IdsFresh ==
  /\ \A h \in handles : h[1] = "port" => h[2] < next_port
  /\ \A h \in handles : h[1] = "model" => h[2] < next_model
  /\ \A c \in Clients : Drawn(c) =>
       /\ loading[c].id < next_model /\ loading[c].thing \in Things
       /\ \A h \in handles : h[1] = "model" => h[2] # loading[c].id
  /\ \A c, d \in Clients : Drawn(c) /\ Drawn(d) /\ loading[c].id = loading[d].id => c = d

AtomInv == AtomTypes /\ AtomsAgree
HandleInv == HandleTypes /\ IdsFresh /\ HandlesKept

-----------------------------------------------------------------------------
LEMMA InitAtoms == TablesInit => AtomInv
<1> SUFFICES ASSUME TablesInit PROVE AtomInv
  OBVIOUS
<1> DEFINE entered == {Standard[i] : i \in DOMAIN Standard}
           at(n) == CHOOSE i \in 0..Len(Standard) - 1 : Standard[i + 1] = n
<1>1. /\ names = Standard /\ indices = [n \in entered |-> at(n)]
      /\ asking = [c \in Clients |-> Nobody] /\ told = {}
  BY DEF TablesInit
<1>2. /\ Standard \in Seq(Names) /\ Len(Standard) \in Nat
      /\ DOMAIN Standard = 1..Len(Standard)
      /\ \A i \in 1..Len(Standard) : Standard[i] \in Names
  BY TablesAssumption
<1>3. ASSUME NEW n \in entered
      PROVE  at(n) \in 0..Len(Standard) - 1 /\ Standard[at(n) + 1] = n
  <2>1. PICK i \in DOMAIN Standard : Standard[i] = n
    OBVIOUS
  <2>2. i - 1 \in 0..Len(Standard) - 1 /\ Standard[(i - 1) + 1] = n
    BY <1>2, <2>1
  <2> QED
    BY <2>2
<1>4. ASSUME NEW i \in DOMAIN Standard
      PROVE  at(Standard[i]) = i - 1
  <2>1. /\ at(Standard[i]) \in 0..Len(Standard) - 1
        /\ Standard[at(Standard[i]) + 1] = Standard[i]
    BY <1>3
  <2>2. at(Standard[i]) + 1 = i
    <3> HIDE DEF at
    <3>1. at(Standard[i]) + 1 \in DOMAIN Standard
      BY <1>2, <2>1
    <3> QED
      BY <2>1, <3>1, TablesAssumption
  <2> HIDE DEF at
  <2> QED
    BY <1>2, <2>1, <2>2
<1> HIDE DEF at
<1>5. AtomTypes
  BY <1>1, <1>2 DEF AtomTypes
<1>6. AtomsAgree
  BY <1>1, <1>2, <1>3, <1>4 DEF AtomsAgree
<1> QED
  BY <1>5, <1>6 DEF AtomInv

LEMMA InitHandles == TablesInit => HandleInv
<1> SUFFICES ASSUME TablesInit PROVE HandleInv
  OBVIOUS
<1>1. HandleTypes
  BY DEF TablesInit, HandleTypes, NotLoading
<1>2. IdsFresh /\ HandlesKept
  BY DEF TablesInit, IdsFresh, HandlesKept, Drawn
<1> QED
  BY <1>1, <1>2 DEF HandleInv

-----------------------------------------------------------------------------
(* A name that is not there gets the next index, and no other index moves. *)
LEMMA EnterKeeps ==
  ASSUME AtomInv, NEW n \in Names, n \notin DOMAIN indices, Enter_atom(n)
  PROVE  /\ AtomsAgree' /\ names' \in Seq(Names)
         /\ DOMAIN indices' \subseteq Names /\ told' \subseteq Names \X Nat
<1>1. /\ names \in Seq(Names) /\ Len(names) \in Nat /\ DOMAIN names = 1..Len(names)
      /\ DOMAIN indices \subseteq Names /\ told \subseteq Names \X Nat
  BY DEF AtomInv, AtomTypes
<1>2. /\ names' \in Seq(Names) /\ Len(names') = Len(names) + 1
      /\ DOMAIN names' = 1..Len(names) + 1
      /\ \A i \in DOMAIN names : names'[i] = names[i]
      /\ names'[Len(names) + 1] = n
  BY <1>1 DEF Enter_atom
<1>3. /\ DOMAIN indices' = DOMAIN indices \cup {n} /\ indices'[n] = Len(names)
      /\ \A m \in DOMAIN indices : indices'[m] = indices[m]
      /\ told' = told \cup {<<n, Len(names)>>}
  BY DEF Enter_atom
<1>4. \A t \in told' : t[1] \in DOMAIN indices' /\ indices'[t[1]] = t[2]
  BY <1>3 DEF AtomInv, AtomsAgree
<1>5. ASSUME NEW m \in DOMAIN indices'
      PROVE  indices'[m] \in 0..Len(names') - 1 /\ names'[indices'[m] + 1] = m
  <2>1. CASE m = n
    BY <1>1, <1>2, <1>3, <2>1
  <2>2. CASE m # n
    <3>1. /\ indices'[m] = indices[m] /\ indices[m] \in 0..Len(names) - 1
          /\ names[indices[m] + 1] = m
      BY <1>3, <2>2 DEF AtomInv, AtomsAgree
    <3>2. indices[m] + 1 \in DOMAIN names
      BY <1>1, <3>1
    <3> QED
      BY <1>1, <1>2, <3>1, <3>2
  <2> QED
    BY <2>1, <2>2
<1>6. ASSUME NEW i \in DOMAIN names'
      PROVE  names'[i] \in DOMAIN indices' /\ indices'[names'[i]] = i - 1
  <2>1. CASE i \in DOMAIN names
    <3>1. names[i] \in DOMAIN indices /\ indices[names[i]] = i - 1
      BY <2>1 DEF AtomInv, AtomsAgree
    <3> QED
      BY <1>2, <1>3, <2>1, <3>1
  <2>2. CASE i = Len(names) + 1
    BY <1>1, <1>2, <1>3, <2>2
  <2> QED
    BY <1>1, <1>2, <2>1, <2>2
<1>7. AtomsAgree'
  BY <1>4, <1>5, <1>6 DEF AtomsAgree
<1> QED
  BY <1>1, <1>2, <1>3, <1>7

LEMMA AtomStep ==
  ASSUME AtomInv, AtomsNext
  PROVE  AtomInv'
<1>1. ASSUME NEW c \in Clients, NEW n \in Names, FindAtom(c, n) PROVE AtomInv'
  <2>1. names' = names /\ indices' = indices
    BY <1>1 DEF FindAtom
  <2>2. n \in DOMAIN indices => indices[n] \in Nat
    BY DEF AtomInv, AtomsAgree
  <2>3. told' \subseteq Names \X Nat /\ asking' \in [Clients -> Names \cup {Nobody}]
    BY <1>1, <2>2 DEF FindAtom, AtomInv, AtomTypes
  <2>4. \A t \in told' : t[1] \in DOMAIN indices /\ indices[t[1]] = t[2]
    BY <1>1 DEF FindAtom, AtomInv, AtomsAgree
  <2> QED
    BY <2>1, <2>3, <2>4 DEF AtomInv, AtomTypes, AtomsAgree
<1>2. ASSUME NEW c \in Clients, InsertAtom(c) PROVE AtomInv'
  <2>1. /\ asking[c] \in Names
        /\ asking' \in [Clients -> Names \cup {Nobody}]
    BY <1>2 DEF InsertAtom, AtomInv, AtomTypes
  <2>2. CASE asking[c] \in DOMAIN indices
    <3>1. /\ names' = names /\ indices' = indices
          /\ told' = told \cup {<<asking[c], indices[asking[c]]>>}
      BY <1>2, <2>2 DEF InsertAtom
    <3>2. indices[asking[c]] \in Nat
      BY <2>2 DEF AtomInv, AtomsAgree
    <3>3. \A t \in told' : t[1] \in DOMAIN indices /\ indices[t[1]] = t[2]
      BY <2>2, <3>1 DEF AtomInv, AtomsAgree
    <3> QED
      BY <2>1, <3>1, <3>2, <3>3 DEF AtomInv, AtomTypes, AtomsAgree
  <2>3. CASE asking[c] \notin DOMAIN indices
    <3>1. Enter_atom(asking[c])
      BY <1>2, <2>3 DEF InsertAtom
    <3> QED
      BY <2>1, <2>3, <3>1, EnterKeeps DEF AtomInv, AtomTypes
  <2> QED
    BY <2>2, <2>3
<1> QED
  BY <1>1, <1>2 DEF AtomsNext

-----------------------------------------------------------------------------
(* A port gets an id that is above every id given before.                  *)
LEMMA RegisterPortStep ==
  ASSUME HandleInv, NEW x \in Things, RegisterPort(x)
  PROVE  HandleInv'
<1> DEFINE h == <<"port", next_port, x>>
<1>1. /\ next_port \in Nat /\ next_port' = next_port + 1 /\ next_model' = next_model
      /\ ports' = Put(ports, next_port, x) /\ models' = models /\ loading' = loading
      /\ handles' = handles \cup {h}
  BY DEF HandleInv, HandleTypes, RegisterPort
<1>2. handles \subseteq {"port", "model"} \X Nat \X Things
  BY DEF HandleInv, HandleTypes
<1>3. HandleTypes'
  BY <1>1 DEF HandleInv, HandleTypes
<1>4. \A g \in handles : g[1] = "port" => g[2] # next_port
  BY <1>1, <1>2 DEF HandleInv, IdsFresh
<1>5. IdsFresh'
  <2>1. \A g \in handles' : g[1] = "port" => g[2] < next_port'
    BY <1>1, <1>2 DEF HandleInv, IdsFresh
  <2>2. \A g \in handles' : g[1] = "model" => g \in handles
    BY <1>1
  <2> QED
    BY <1>1, <2>1, <2>2 DEF HandleInv, IdsFresh, Drawn
<1>6. HandlesKept'
  <2>1. \A i \in DOMAIN ports' : \A y \in Things :
          <<"port", i, y>> \in handles' => ports'[i] = y
    <3> SUFFICES ASSUME NEW i \in DOMAIN ports', NEW y \in Things, <<"port", i, y>> \in handles'
                 PROVE  ports'[i] = y
      OBVIOUS
    <3>1. CASE i = next_port
      <4>1. <<"port", i, y>> \notin handles
        BY <1>4, <3>1
      <4>2. y = x
        BY <1>1, <4>1
      <4> QED
        BY <1>1, <3>1, <4>2 DEF Put
    <3>2. CASE i # next_port
      <4>1. i \in DOMAIN ports /\ ports'[i] = ports[i] /\ <<"port", i, y>> \in handles
        BY <1>1, <3>2 DEF Put
      <4> QED
        BY <4>1 DEF HandleInv, HandlesKept
    <3> QED
      BY <3>1, <3>2
  <2>2. \A i \in DOMAIN models' : \A y \in Things :
          <<"model", i, y>> \in handles' => models'[i] = y
    BY <1>1 DEF HandleInv, HandlesKept
  <2>3. \A f, g \in handles' : f[1] = g[1] /\ f[2] = g[2] => f = g
    BY <1>1, <1>4 DEF HandleInv, HandlesKept
  <2> QED
    BY <2>1, <2>2, <2>3 DEF HandlesKept
<1> QED
  BY <1>3, <1>5, <1>6 DEF HandleInv

(* A model is entered under the id its loader drew; nobody else has it.    *)
LEMMA InsertModelStep ==
  ASSUME HandleInv, NEW c \in Clients, InsertModel(c)
  PROVE  HandleInv'
<1> DEFINE i == loading[c].id
           x == loading[c].thing
           h == <<"model", i, x>>
<1>1. /\ Drawn(c) /\ i \in Nat /\ x \in Things /\ i < next_model
      /\ next_model' = next_model /\ next_port' = next_port /\ ports' = ports
      /\ models' = Put(models, i, x) /\ handles' = handles \cup {h}
      /\ loading' = [loading EXCEPT ![c] = NotLoading]
  BY DEF HandleInv, HandleTypes, IdsFresh, InsertModel, Drawn
<1>2. /\ handles \subseteq {"port", "model"} \X Nat \X Things
      /\ \A g \in handles : g[1] = "model" => g[2] # i
  BY <1>1 DEF HandleInv, HandleTypes, IdsFresh
<1>3. /\ loading' \in [Clients -> [id : Nat, thing : Things \cup {Nobody}]]
      /\ loading'[c] = NotLoading
      /\ \A d \in Clients : d # c => loading'[d] = loading[d]
  BY <1>1 DEF HandleInv, HandleTypes, NotLoading
<1> HIDE DEF i, x
<1>4. HandleTypes'
  BY <1>1, <1>3 DEF HandleInv, HandleTypes
<1>5. IdsFresh'
  <2>1. \A g \in handles' : g[1] = "port" => g[2] < next_port'
    BY <1>1 DEF HandleInv, IdsFresh
  <2>2. \A g \in handles' : g[1] = "model" => g[2] < next_model'
    BY <1>1 DEF HandleInv, IdsFresh
  <2>3. \A d \in Clients : Drawn(d)' => d # c /\ Drawn(d) /\ loading'[d] = loading[d]
    BY <1>3 DEF Drawn
  <2>4. \A d \in Clients : Drawn(d) /\ d # c => loading[d].id # i
    BY <1>1 DEF HandleInv, IdsFresh, i
  <2>5. \A d \in Clients : Drawn(d)' =>
          /\ loading'[d].id < next_model' /\ loading'[d].thing \in Things
          /\ \A g \in handles' : g[1] = "model" => g[2] # loading'[d].id
    BY <1>1, <2>3, <2>4 DEF HandleInv, IdsFresh
  <2>6. \A d, b \in Clients :
          Drawn(d)' /\ Drawn(b)' /\ loading'[d].id = loading'[b].id => d = b
    BY <2>3 DEF HandleInv, IdsFresh
  <2> QED
    BY <2>1, <2>2, <2>5, <2>6 DEF IdsFresh
<1>6. HandlesKept'
  <2>1. \A j \in DOMAIN ports' : \A y \in Things :
          <<"port", j, y>> \in handles' => ports'[j] = y
    BY <1>1 DEF HandleInv, HandlesKept
  <2>2. \A j \in DOMAIN models' : \A y \in Things :
          <<"model", j, y>> \in handles' => models'[j] = y
    <3> SUFFICES ASSUME NEW j \in DOMAIN models', NEW y \in Things,
                        <<"model", j, y>> \in handles'
                 PROVE  models'[j] = y
      OBVIOUS
    <3>1. CASE j = i
      <4>1. <<"model", j, y>> \notin handles
        BY <1>2, <3>1
      <4>2. y = x
        BY <1>1, <4>1
      <4> QED
        BY <1>1, <3>1, <4>2 DEF Put
    <3>2. CASE j # i
      <4>1. j \in DOMAIN models /\ models'[j] = models[j] /\ <<"model", j, y>> \in handles
        BY <1>1, <3>2 DEF Put
      <4> QED
        BY <4>1 DEF HandleInv, HandlesKept
    <3> QED
      BY <3>1, <3>2
  <2>3. \A f, g \in handles' : f[1] = g[1] /\ f[2] = g[2] => f = g
    BY <1>1, <1>2 DEF HandleInv, HandlesKept
  <2> QED
    BY <2>1, <2>2, <2>3 DEF HandlesKept
<1> QED
  BY <1>4, <1>5, <1>6 DEF HandleInv

LEMMA DrawModelIdStep ==
  ASSUME HandleInv, NEW c \in Clients, NEW x \in Things, DrawModelId(c, x)
  PROVE  HandleInv'
<1>1. /\ next_model \in Nat /\ next_model' = next_model + 1
      /\ UNCHANGED <<ports, models, next_port, handles>>
      /\ loading' \in [Clients -> [id : Nat, thing : Things \cup {Nobody}]]
      /\ loading'[c] = [id |-> next_model, thing |-> x]
      /\ \A d \in Clients : d # c => loading'[d] = loading[d]
  BY DEF HandleInv, HandleTypes, DrawModelId
<1>2. HandleTypes'
  BY <1>1 DEF HandleInv, HandleTypes
<1>3. IdsFresh'
  <2>1. \A h \in handles : h[2] \in Nat
    BY DEF HandleInv, HandleTypes
  <2>2. \A d \in Clients : loading[d].id \in Nat
    BY DEF HandleInv, HandleTypes
  <2>3. \A d \in Clients : Drawn(d)' /\ d # c => Drawn(d)
    BY <1>1 DEF Drawn
  <2>4. \A d \in Clients : Drawn(d)' =>
          /\ loading'[d].id < next_model' /\ loading'[d].thing \in Things
          /\ \A h \in handles : h[1] = "model" => h[2] # loading'[d].id
    BY <1>1, <2>1, <2>2, <2>3 DEF HandleInv, IdsFresh
  <2>5. \A d, b \in Clients :
          Drawn(d)' /\ Drawn(b)' /\ loading'[d].id = loading'[b].id => d = b
    BY <1>1, <2>2, <2>3 DEF HandleInv, IdsFresh
  <2> QED
    BY <1>1, <2>1, <2>4, <2>5 DEF HandleInv, IdsFresh
<1> QED
  BY <1>1, <1>2, <1>3 DEF HandleInv, HandlesKept

LEMMA DropStep ==
  ASSUME HandleInv, NEW i, RemovePort(i) \/ UnloadModel(i)
  PROVE  HandleInv'
<1>1. UNCHANGED <<next_port, next_model, loading, handles>>
  BY DEF RemovePort, UnloadModel
<1>2. /\ \A j \in DOMAIN ports' : j \in DOMAIN ports /\ ports'[j] = ports[j]
      /\ \A j \in DOMAIN models' : j \in DOMAIN models /\ models'[j] = models[j]
  BY DEF RemovePort, UnloadModel, Drop
<1>3. HandleTypes' /\ IdsFresh'
  BY <1>1 DEF HandleInv, HandleTypes, IdsFresh, Drawn
<1>4. HandlesKept'
  BY <1>1, <1>2 DEF HandleInv, HandlesKept
<1> QED
  BY <1>3, <1>4 DEF HandleInv

-----------------------------------------------------------------------------
LEMMA TablesStep == AtomInv /\ HandleInv /\ [TablesNext]_tableVars => AtomInv' /\ HandleInv'
<1> SUFFICES ASSUME AtomInv, HandleInv, [TablesNext]_tableVars PROVE AtomInv' /\ HandleInv'
  OBVIOUS
<1>1. ASSUME UNCHANGED atomVars PROVE AtomInv'
  BY <1>1 DEF atomVars, AtomInv, AtomTypes, AtomsAgree
<1>2. ASSUME UNCHANGED handleVars PROVE HandleInv'
  BY <1>2 DEF handleVars, HandleInv, HandleTypes, IdsFresh, Drawn, HandlesKept
<1>3. ASSUME HandlesNext PROVE HandleInv'
  BY <1>3, RegisterPortStep, InsertModelStep, DrawModelIdStep, DropStep DEF HandlesNext
<1> QED
  BY <1>1, <1>2, <1>3, AtomStep DEF TablesNext, tableVars

(* Both invariants hold whatever the threads ask for and register.         *)
THEOREM TablesInvariant == TablesSpec => [](AtomInv /\ HandleInv)
<1> QED
  BY InitAtoms, InitHandles, TablesStep, PTL DEF TablesSpec

(* An index told for a name is that name's for good, and an id given for a *)
(* port or a model finds that one or nothing.                              *)
THEOREM TablesNumbersKept == TablesSpec => []NumbersKept
<1>1. AtomInv /\ HandleInv => NumbersKept
  BY DEF AtomInv, HandleInv, NumbersKept
<1> QED
  BY <1>1, TablesInvariant, PTL

-----------------------------------------------------------------------------
(* Regions: the reference counts are exact, the lists and the allocator    *)
(* agree, and the regions keep the promise of SharedBlocks.                *)
(*                                                                         *)
(* RefcountExact is inductive only together with ListsMatchAllocator (a    *)
(* new block must not be listed under an address in use) and with          *)
(* ArrivalsApart: two allocations on their way to the list have different  *)
(* addresses.                                                              *)

ArrivalsApart ==
  \A t, u \in Threads :
    /\ call[t].at = "push" /\ call[u].at = "push" /\ call[t].ptr = call[u].ptr => t = u
    /\ call[t].at = "push" => call[t].ptr \in allocated

OneEntryEach == \A r \in Kinds : \A d, e \in blocks[r] : d.ptr = e.ptr => d = e

IInv ==
  /\ RegionsTypeOK
  /\ RefcountExact
  /\ ListsMatchAllocator
  /\ ArrivalsApart

-----------------------------------------------------------------------------
(* EntryOf answers the entry there is.                                     *)
LEMMA EntryOfListed ==
  ASSUME OneEntryEach, NEW r \in Kinds, NEW a \in Listed(r)
  PROVE  /\ EntryOf(r, a) \in blocks[r]
         /\ EntryOf(r, a).ptr = a
         /\ \A e \in blocks[r] : e.ptr = a => e = EntryOf(r, a)
<1>1. \E e \in blocks[r] : e.ptr = a
  BY DEF Listed
<1>2. EntryOf(r, a) \in blocks[r] /\ EntryOf(r, a).ptr = a
  BY <1>1 DEF EntryOf
<1> QED
  BY <1>2 DEF OneEntryEach

(* Writing a new count to an entry changes nothing else of the list.       *)
LEMMA RecountedList ==
  ASSUME OneEntryEach, blocks \in [Kinds -> SUBSET BlockEntry],
         NEW r \in Kinds, NEW a \in Listed(r), NEW n \in Nat,
         blocks' = Recounted(r, a, n)
  PROVE  /\ blocks' \in [Kinds -> SUBSET BlockEntry]
         /\ \A q \in Kinds : Listed(q)' = Listed(q)
         /\ OneEntryEach'
         /\ \A q \in Kinds : \A f \in blocks'[q] :
              IF q = r /\ f.ptr = a THEN f.refcount = n ELSE f \in blocks[q]
<1> DEFINE old == EntryOf(r, a)
           new == [old EXCEPT !.refcount = n]
<1>1. /\ old \in blocks[r]
      /\ old.ptr = a
      /\ \A e \in blocks[r] : e.ptr = a => e = old
  BY EntryOfListed
<1>2. old \in BlockEntry
  BY <1>1
<1>3. new \in BlockEntry /\ new.ptr = a /\ new.refcount = n
  BY <1>1, <1>2 DEF BlockEntry
<1>4. blocks' = [blocks EXCEPT ![r] = (@ \ {old}) \cup {new}]
  BY DEF Recounted
<1> HIDE DEF old, new
<1>5. blocks'[r] = (blocks[r] \ {old}) \cup {new}
  BY <1>4
<1>6. \A q \in Kinds : q # r => blocks'[q] = blocks[q]
  BY <1>4
<1>7. blocks' \in [Kinds -> SUBSET BlockEntry]
  BY <1>3, <1>4
<1>8. \A q \in Kinds : Listed(q)' = Listed(q)
  <2> SUFFICES ASSUME NEW q \in Kinds
               PROVE  Listed(q)' = Listed(q)
    OBVIOUS
  <2>1. CASE q = r
    BY <1>1, <1>3, <1>5, <2>1 DEF Listed
  <2>2. CASE q # r
    BY <1>6, <2>2 DEF Listed
  <2> QED
    BY <2>1, <2>2
<1>9. OneEntryEach'
  <2> SUFFICES ASSUME NEW q \in Kinds, NEW d \in blocks'[q], NEW e \in blocks'[q], d.ptr = e.ptr
               PROVE  d = e
    BY DEF OneEntryEach
  <2>1. CASE q = r
    BY <1>1, <1>3, <1>5, <2>1 DEF OneEntryEach
  <2>2. CASE q # r
    BY <1>6, <2>2 DEF OneEntryEach
  <2> QED
    BY <2>1, <2>2
<1>10. ASSUME NEW q \in Kinds, NEW f \in blocks'[q]
       PROVE  IF q = r /\ f.ptr = a THEN f.refcount = n ELSE f \in blocks[q]
  <2>1. CASE q = r
    BY <1>1, <1>3, <1>5, <1>10, <2>1
  <2>2. CASE q # r
    BY <1>6, <1>10, <2>2
  <2> QED
    BY <2>1, <2>2
<1> QED
  BY <1>7, <1>8, <1>9, <1>10

(* Taking an entry out of a list takes its address off it, and no other.   *)
LEMMA ShortenedList ==
  ASSUME OneEntryEach, blocks \in [Kinds -> SUBSET BlockEntry],
         NEW r \in Kinds, NEW a \in Listed(r),
         blocks' = [blocks EXCEPT ![r] = @ \ {EntryOf(r, a)}]
  PROVE  /\ blocks' \in [Kinds -> SUBSET BlockEntry]
         /\ \A q \in Kinds : Listed(q)' = IF q = r THEN Listed(q) \ {a} ELSE Listed(q)
         /\ OneEntryEach'
         /\ \A q \in Kinds : \A f \in blocks'[q] : f \in blocks[q] /\ (q = r => f.ptr # a)
<1> DEFINE old == EntryOf(r, a)
<1>1. /\ old \in blocks[r]
      /\ old.ptr = a
      /\ \A e \in blocks[r] : e.ptr = a => e = old
  BY EntryOfListed
<1>2. blocks' = [blocks EXCEPT ![r] = @ \ {old}]
  OBVIOUS
<1> HIDE DEF old
<1>3. blocks'[r] = blocks[r] \ {old} /\ \A q \in Kinds : q # r => blocks'[q] = blocks[q]
  BY <1>2
<1>4. blocks' \in [Kinds -> SUBSET BlockEntry]
  BY <1>2
<1>5. ASSUME NEW q \in Kinds
      PROVE  Listed(q)' = IF q = r THEN Listed(q) \ {a} ELSE Listed(q)
  <2>1. CASE q = r
    BY <1>1, <1>3, <2>1 DEF Listed
  <2>2. CASE q # r
    BY <1>3, <2>2 DEF Listed
  <2> QED
    BY <2>1, <2>2
<1>6. OneEntryEach'
  BY <1>3 DEF OneEntryEach
<1>7. \A q \in Kinds : \A f \in blocks'[q] : f \in blocks[q] /\ (q = r => f.ptr # a)
  BY <1>1, <1>3
<1> QED
  BY <1>4, <1>5, <1>6, <1>7

(* How many references an address has, before and after one more or less:  *)
(* f and g stand for refs before and after the step.                       *)
Pointers(f, r, a) == {x \in Refs : f[x].region = r /\ f[x].ptr = a}
DifferAt(x, f, g) == \A y \in Refs \ {x} : g[y] = f[y]
PointsAt(f, x, r, a) == f[x].region = r /\ f[x].ptr = a

LEMMA PointersFinite ==
  ASSUME NEW f, NEW r, NEW a
  PROVE  IsFiniteSet(Pointers(f, r, a)) /\ Cardinality(Pointers(f, r, a)) \in Nat
<1>1. Pointers(f, r, a) \in SUBSET Refs
  BY DEF Pointers
<1> QED
  BY <1>1, FS_Subset, FS_CardinalityType, RegionsAssumption

LEMMA ReferenceTaken ==
  ASSUME NEW f \in [Refs -> Handle \cup {Unused}], NEW y \in Refs, f[y] = Unused,
         NEW r \in Kinds, NEW a, NEW g \in [Refs -> Handle \cup {Unused}],
         PointsAt(g, y, r, a), DifferAt(y, f, g)
  PROVE  /\ Pointers(g, r, a) = Pointers(f, r, a) \cup {y}
         /\ \A q \in Kinds : \A b : ~(q = r /\ b = a) => Pointers(g, q, b) = Pointers(f, q, b)
         /\ Cardinality(Pointers(g, r, a)) = Cardinality(Pointers(f, r, a)) + 1
<1>1. Unused.region \notin Kinds
  BY RegionsAssumption DEF Unused, Kinds
<1>2. Pointers(g, r, a) = Pointers(f, r, a) \cup {y}
  BY DEF Pointers, PointsAt, DifferAt
<1>3. \A q \in Kinds : \A b : ~(q = r /\ b = a) => Pointers(g, q, b) = Pointers(f, q, b)
  BY <1>1 DEF Pointers, PointsAt, DifferAt
<1>4. y \notin Pointers(f, r, a)
  BY <1>1 DEF Pointers, PointsAt, DifferAt
<1>5. Cardinality(Pointers(f, r, a) \cup {y}) = Cardinality(Pointers(f, r, a)) + 1
  BY <1>4, PointersFinite, FS_AddElement
<1> QED
  BY <1>2, <1>3, <1>5

LEMMA ReferenceGivenUp ==
  ASSUME NEW f \in [Refs -> Handle \cup {Unused}], NEW x \in Refs,
         NEW r \in Kinds, NEW a, PointsAt(f, x, r, a),
         NEW g \in [Refs -> Handle \cup {Unused}],
         g[x] = Unused, DifferAt(x, f, g)
  PROVE  /\ x \in Pointers(f, r, a)
         /\ Pointers(g, r, a) = Pointers(f, r, a) \ {x}
         /\ \A q \in Kinds : \A b : ~(q = r /\ b = a) => Pointers(g, q, b) = Pointers(f, q, b)
         /\ Cardinality(Pointers(g, r, a)) = Cardinality(Pointers(f, r, a)) - 1
<1>1. Unused.region \notin Kinds
  BY RegionsAssumption DEF Unused, Kinds
<1>2. Pointers(g, r, a) = Pointers(f, r, a) \ {x}
  BY <1>1 DEF Pointers, PointsAt, DifferAt
<1>3. \A q \in Kinds : \A b : ~(q = r /\ b = a) => Pointers(g, q, b) = Pointers(f, q, b)
  BY <1>1 DEF Pointers, PointsAt, DifferAt
<1>4. x \in Pointers(f, r, a)
  BY DEF Pointers, PointsAt, DifferAt
<1>5. Cardinality(Pointers(f, r, a) \ {x}) = Cardinality(Pointers(f, r, a)) - 1
  BY <1>4, PointersFinite, FS_RemoveElement
<1> QED
  BY <1>2, <1>3, <1>4, <1>5

-----------------------------------------------------------------------------
(* The initial state.                                                      *)
LEMMA InitIInv == RegionsInit => IInv
<1> SUFFICES ASSUME RegionsInit PROVE IInv
  OBVIOUS
<1>1. RegionsTypeOK
  <2>1. dropped \in BOOLEAN
    BY Zenon DEF RegionsInit
  <2>2. /\ blocks \in [Kinds -> SUBSET BlockEntry]
        /\ used \in [Kinds -> Int]
        /\ allocated \subseteq Addresses
    BY DEF RegionsInit
  <2>3. refs \in [Refs -> Handle \cup {Unused}] /\ call \in [Threads -> Call \cup {Idle}]
    BY DEF RegionsInit
  <2> QED
    BY <2>1, <2>2, <2>3 DEF RegionsTypeOK
<1>2. RefcountExact
  BY RegionsAssumption DEF RegionsInit, RefcountExact, Kinds, Unused
<1>3. ListsMatchAllocator
  <2>1. Listed("binary") = {} /\ Listed("tensor") = {}
    BY DEF RegionsInit, Listed, Kinds
  <2>2. Arriving = {}
    BY DEF RegionsInit, Arriving, Idle
  <2> QED
    BY <2>1, <2>2 DEF RegionsInit, ListsMatchAllocator, Kinds
<1>4. ArrivalsApart
  BY DEF RegionsInit, ArrivalsApart, Idle
<1> QED
  BY <1>1, <1>2, <1>3, <1>4 DEF IInv

(* The promise of SharedBlocks over the variables of Regions.              *)
Listing == Listed("binary") \cup Listed("tensor")
Pointing == [x \in Refs |-> refs[x].ptr]

SharedStep == Shared!Next \/ UNCHANGED <<Pointing, Listing>>

(* What the parts of the invariant say when they are put together.         *)
LEMMA Consequences ==
  ASSUME IInv
  PROVE  /\ OneEntryEach
         /\ \A r \in Kinds : \A a : a \in Listed(r) => RefsTo(r, a) # {}
         /\ \A r \in Kinds : \A a : RefsTo(r, a) # {} => a \in Listed(r) /\ a \in Addresses
         /\ \A x \in Refs : refs[x] = Unused <=> refs[x].ptr = Null
         /\ \A x \in Refs : refs[x] # Unused => refs[x] \in Handle
<1>1. OneEntryEach
  BY DEF IInv, ListsMatchAllocator, OneEntryEach
<1>2. ASSUME NEW r \in Kinds, NEW a, a \in Listed(r)
      PROVE  RefsTo(r, a) # {}
  <2>1. PICK e \in blocks[r] : e.ptr = a
    BY <1>2 DEF Listed
  <2>2. Cardinality(RefsTo(r, a)) > 0
    BY <2>1 DEF IInv, RefcountExact
  <2> QED
    BY <2>2, FS_EmptySet
<1>3. ASSUME NEW r \in Kinds, NEW a, RefsTo(r, a) # {}
      PROVE  a \in Listed(r) /\ a \in Addresses
  <2>1. PICK x \in Refs : refs[x].region = r /\ refs[x].ptr = a
    BY <1>3 DEF RefsTo
  <2>2. a \in Listed(r)
    BY <2>1 DEF IInv, RefcountExact
  <2>3. Listed(r) \subseteq Addresses
    BY DEF IInv, RegionsTypeOK, Listed, BlockEntry
  <2> QED
    BY <2>2, <2>3
<1>4. \A x \in Refs : refs[x] \in Handle \cup {Unused}
  BY DEF IInv, RegionsTypeOK
<1>5. \A h \in Handle : h.ptr # Null
  BY RegionsAssumption DEF Handle
<1>6. Unused.ptr = Null
  BY DEF Unused
<1> QED
  BY <1>1, <1>2, <1>3, <1>4, <1>5, <1>6
-----------------------------------------------------------------------------
(* One lemma per action: it keeps the invariant and is a step of           *)
(* SharedBlocks or changes nothing SharedBlocks speaks of.                 *)

LEMMA AllocateStep ==
  ASSUME IInv, NEW t \in Threads, NEW r \in Kinds, NEW size \in Sizes, Allocate(t, r, size)
  PROVE  IInv' /\ SharedStep
<1>1. PICK a \in Addresses \ allocated :
        /\ allocated' = allocated \cup {a}
        /\ call' = [call EXCEPT ![t] = [at |-> "push", region |-> r, ptr |-> a, size |-> size]]
  BY DEF Allocate
<1>2. UNCHANGED <<blocks, used, refs, dropped>> /\ call[t] = Idle
  BY DEF Allocate
<1>3. /\ call'[t] = [at |-> "push", region |-> r, ptr |-> a, size |-> size]
      /\ \A u \in Threads \ {t} : call'[u] = call[u]
  BY <1>1 DEF IInv, RegionsTypeOK
<1>4. RegionsTypeOK'
  <2>1. [at |-> "push", region |-> r, ptr |-> a, size |-> size] \in Call
    BY DEF Call
  <2>2. call' \in [Threads -> Call \cup {Idle}] /\ allocated' \subseteq Addresses
    BY <1>1, <2>1 DEF IInv, RegionsTypeOK
  <2> QED
    BY <1>2, <2>2 DEF IInv, RegionsTypeOK
<1>5. \A q \in Kinds : Listed(q)' = Listed(q)
  BY <1>2 DEF Listed
<1>6. RefcountExact'
  BY <1>2, <1>5 DEF IInv, RefcountExact, RefsTo
<1>7. Arriving' = Arriving \cup {a}
  <2>1. t \notin {u \in Threads : call[u].at = "push"}
    BY <1>2 DEF Idle
  <2>2. {u \in Threads : call'[u].at = "push"} = {u \in Threads : call[u].at = "push"} \cup {t}
    BY <1>3
  <2> QED
    BY <1>3, <2>1, <2>2 DEF Arriving
<1>8. ListsMatchAllocator'
  BY <1>1, <1>2, <1>5, <1>7 DEF IInv, ListsMatchAllocator, Kinds
<1>9. ArrivalsApart'
  BY <1>1, <1>2, <1>3 DEF IInv, ArrivalsApart
<1>10. UNCHANGED <<Pointing, Listing>>
  BY <1>2, <1>5 DEF Pointing, Listing, Kinds
<1> QED
  BY <1>4, <1>6, <1>8, <1>9, <1>10 DEF IInv, SharedStep

LEMMA CountStep ==
  ASSUME IInv, NEW t \in Threads, Count(t)
  PROVE  IInv' /\ SharedStep
<1>1. /\ call[t].at = "count"
      /\ used' = [used EXCEPT ![call[t].region] = @ + call[t].size]
      /\ call' = [call EXCEPT ![t] = Idle]
      /\ UNCHANGED <<blocks, allocated, refs, dropped>>
  BY DEF Count
<1>2. call'[t] = Idle /\ \A u \in Threads \ {t} : call'[u] = call[u]
  BY <1>1 DEF IInv, RegionsTypeOK
<1>3. RegionsTypeOK'
  <2>1. call[t] \in Call
    BY <1>1 DEF IInv, RegionsTypeOK, Idle
  <2>2. call[t].region \in Kinds /\ call[t].size \in Sizes
    BY <2>1 DEF Call
  <2>3. used' \in [Kinds -> Int]
    <3>1. used \in [Kinds -> Int]
      BY DEF IInv, RegionsTypeOK
    <3>2. call[t].size \in Int
      <4>1. Sizes \subseteq Nat
        BY RegionsAssumption
      <4>2. \A n \in Nat : n \in Int
        OBVIOUS
      <4> QED
        BY <2>2, <4>1, <4>2
    <3>3. used[call[t].region] + call[t].size \in Int
      BY <2>2, <3>1, <3>2
    <3> QED
      BY <1>1, <2>2, <3>1, <3>3
  <2>4. call' \in [Threads -> Call \cup {Idle}]
    BY <1>1 DEF IInv, RegionsTypeOK
  <2> QED
    BY <1>1, <2>3, <2>4 DEF IInv, RegionsTypeOK
<1>4. \A q \in Kinds : Listed(q)' = Listed(q)
  BY <1>1 DEF Listed
<1>5. RefcountExact'
  BY <1>1, <1>4 DEF IInv, RefcountExact, RefsTo
<1>6. Arriving' = Arriving
  <2>1. {u \in Threads : call'[u].at = "push"} = {u \in Threads : call[u].at = "push"}
    BY <1>1, <1>2 DEF Idle
  <2>2. \A u \in Threads : call[u].at = "push" => call'[u] = call[u]
    BY <1>1, <1>2
  <2> QED
    BY <2>1, <2>2 DEF Arriving
<1>7. ListsMatchAllocator'
  BY <1>1, <1>4, <1>6 DEF IInv, ListsMatchAllocator, Kinds
<1>8. ArrivalsApart'
  BY <1>1, <1>2 DEF IInv, ArrivalsApart, Idle
<1>9. UNCHANGED <<Pointing, Listing>>
  BY <1>1, <1>4 DEF Pointing, Listing, Kinds
<1> QED
  BY <1>3, <1>5, <1>7, <1>8, <1>9 DEF IInv, SharedStep

LEMMA HandOverStep ==
  ASSUME IInv, NEW t \in Threads, NEW u \in Threads, NEW x \in Refs, HandOver(t, u, x)
  PROVE  IInv' /\ SharedStep
<1>1. /\ refs[x].thread = t
      /\ refs' = [refs EXCEPT ![x].thread = u]
      /\ UNCHANGED <<blocks, used, allocated, call, dropped>>
  BY DEF HandOver, Holds
<1>2. refs[x] \in Handle \cup {Unused}
  BY DEF IInv, RegionsTypeOK
<1>3. [refs[x] EXCEPT !.thread = u] \in Handle
  <2>1. CASE refs[x] \in Handle
    BY <2>1 DEF Handle
  <2>2. CASE refs[x] = Unused
    BY <1>1, <2>2, RegionsAssumption DEF Unused
  <2> QED
    BY <1>2, <2>1, <2>2
<1>4. \A y \in Refs : refs'[y].region = refs[y].region /\ refs'[y].ptr = refs[y].ptr
  <2>1. \A y \in Refs \ {x} : refs'[y] = refs[y]
    BY <1>1 DEF IInv, RegionsTypeOK
  <2>2. refs'[x] = [refs[x] EXCEPT !.thread = u]
    BY <1>1 DEF IInv, RegionsTypeOK
  <2>3. refs'[x].region = refs[x].region /\ refs'[x].ptr = refs[x].ptr
    BY <1>2, <2>2 DEF Handle, Unused
  <2> QED
    BY <2>1, <2>3
<1>5. RegionsTypeOK'
  BY <1>1, <1>3 DEF IInv, RegionsTypeOK
<1>6. \A q, b : RefsTo(q, b)' = RefsTo(q, b)
  BY <1>4 DEF RefsTo
<1>7. \A q \in Kinds : Listed(q)' = Listed(q)
  BY <1>1 DEF Listed
<1>8. RefcountExact'
  BY <1>1, <1>4, <1>6, <1>7 DEF IInv, RefcountExact
<1>9. ListsMatchAllocator' /\ ArrivalsApart'
  BY <1>1, <1>7 DEF IInv, ListsMatchAllocator, ArrivalsApart, Arriving, Kinds
<1>10. UNCHANGED <<Pointing, Listing>>
  BY <1>4, <1>7 DEF Pointing, Listing, Kinds
<1> QED
  BY <1>5, <1>8, <1>9, <1>10 DEF IInv, SharedStep

LEMMA PushStep ==
  ASSUME IInv, NEW t \in Threads, Push(t)
  PROVE  IInv' /\ SharedStep
<1>1. PICK r, a, size : call[t] = [at |-> "push", region |-> r, ptr |-> a, size |-> size]
  <2>1. call[t] \in Call
    BY DEF Push, IInv, RegionsTypeOK, Idle
  <2> QED
    BY <2>1 DEF Call, Push
<1>2. r \in Kinds /\ a \in Addresses /\ size \in Sizes
  <2>1. call[t] \in Call
    BY <1>1 DEF IInv, RegionsTypeOK, Idle
  <2> QED
    BY <1>1, <2>1 DEF Call
<1> PICK h \in Handle : h = [thread |-> t, region |-> r, ptr |-> a]
  BY <1>2 DEF Handle
<1> DEFINE new == [ptr |-> a, size |-> size, refcount |-> 1]
<1>3. PICK y \in Refs : refs[y] = Unused /\ refs' = [refs EXCEPT ![y] = h]
  <2>1. PICK y \in Refs :
          /\ refs[y] = Unused
          /\ refs' = [refs EXCEPT ![y] =
                        [thread |-> t, region |-> call[t].region, ptr |-> call[t].ptr]]
    BY DEF Push
  <2>2. h = [thread |-> t, region |-> call[t].region, ptr |-> call[t].ptr]
    BY <1>1
  <2> QED
    BY <2>1, <2>2
<1>4. /\ blocks' = [blocks EXCEPT ![r] = @ \cup {new}]
      /\ call' = [call EXCEPT ![t].at = "count"]
      /\ UNCHANGED <<used, allocated, dropped>>
  BY <1>1 DEF Push
<1>5. h.region = r /\ h.ptr = a
  OBVIOUS
<1>6. new \in BlockEntry /\ new.ptr = a /\ new.refcount = 1
  BY <1>2 DEF BlockEntry
<1>7. a \in Arriving
  BY <1>1 DEF Arriving
<1>8. \A q \in Kinds : a \notin Listed(q)
  BY <1>7 DEF IInv, ListsMatchAllocator, Kinds
<1>9. RefsTo(r, a) = {}
  BY <1>2, <1>8, Consequences
<1> HIDE DEF new
<1>10. /\ refs' \in [Refs -> Handle \cup {Unused}]
       /\ RefsTo(r, a)' = RefsTo(r, a) \cup {y}
       /\ \A q \in Kinds : \A b : ~(q = r /\ b = a) => RefsTo(q, b)' = RefsTo(q, b)
       /\ Cardinality(RefsTo(r, a))' = Cardinality(RefsTo(r, a)) + 1
  <2>1. refs \in [Refs -> Handle \cup {Unused}]
    BY DEF IInv, RegionsTypeOK
  <2>2. refs' \in [Refs -> Handle \cup {Unused}]
    BY <1>3, <2>1
  <2>3. PointsAt(refs', y, r, a) /\ DifferAt(y, refs, refs')
    BY <1>3, <1>5, <2>1 DEF PointsAt, DifferAt
  <2>4. /\ Pointers(refs', r, a) = Pointers(refs, r, a) \cup {y}
        /\ \A q \in Kinds : \A b : ~(q = r /\ b = a) => Pointers(refs', q, b) = Pointers(refs, q, b)
        /\ Cardinality(Pointers(refs', r, a)) = Cardinality(Pointers(refs, r, a)) + 1
    <3>1. r \in Kinds /\ refs[y] = Unused
      BY <1>2, <1>3
    <3>2. Pointers(refs', r, a) = Pointers(refs, r, a) \cup {y}
      BY <2>1, <2>2, <2>3, <3>1, ReferenceTaken
    <3>3. \A q \in Kinds : \A b : ~(q = r /\ b = a) => Pointers(refs', q, b) = Pointers(refs, q, b)
      BY <2>1, <2>2, <2>3, <3>1, ReferenceTaken
    <3>4. Cardinality(Pointers(refs', r, a)) = Cardinality(Pointers(refs, r, a)) + 1
      BY <2>1, <2>2, <2>3, <3>1, ReferenceTaken
    <3> QED
      BY <3>2, <3>3, <3>4
  <2> QED
    BY <2>2, <2>4 DEF Pointers, RefsTo
<1>11. Cardinality(RefsTo(r, a))' = 1
  BY <1>9, <1>10, FS_EmptySet
<1>12. /\ blocks'[r] = blocks[r] \cup {new}
       /\ \A q \in Kinds : q # r => blocks'[q] = blocks[q]
  BY <1>2, <1>4 DEF IInv, RegionsTypeOK
<1>13. /\ call'[t] = [at |-> "count", region |-> r, ptr |-> a, size |-> size]
       /\ \A u \in Threads \ {t} : call'[u] = call[u]
  BY <1>1, <1>4 DEF IInv, RegionsTypeOK
<1>14. RegionsTypeOK'
  <2>1. blocks' \in [Kinds -> SUBSET BlockEntry]
    BY <1>4, <1>6 DEF IInv, RegionsTypeOK
  <2>2. [at |-> "count", region |-> r, ptr |-> a, size |-> size] \in Call
    BY <1>2 DEF Call
  <2>3. call' \in [Threads -> Call \cup {Idle}]
    BY <1>4, <1>13, <2>2 DEF IInv, RegionsTypeOK
  <2> QED
    BY <1>4, <1>10, <2>1, <2>3 DEF IInv, RegionsTypeOK
<1>15. \A q \in Kinds : Listed(q)' = IF q = r THEN Listed(q) \cup {a} ELSE Listed(q)
  <2>1. Listed(r)' = Listed(r) \cup {a}
    BY <1>6, <1>12 DEF Listed
  <2>2. \A q \in Kinds : q # r => Listed(q)' = Listed(q)
    BY <1>12 DEF Listed
  <2> QED
    BY <2>1, <2>2
<1>16. RefcountExact'
  <2>1. ASSUME NEW q \in Kinds, NEW e \in blocks'[q]
        PROVE  e.refcount = Cardinality(RefsTo(q, e.ptr))' /\ e.refcount > 0
    <3>1. CASE e = new
      <4>1. q = r
        <5>1. SUFFICES ASSUME q # r PROVE FALSE
          OBVIOUS
        <5>2. new \in blocks[q]
          BY <1>12, <2>1, <3>1, <5>1
        <5> QED
          BY <1>6, <1>8, <5>2 DEF Listed
      <4> QED
        BY <1>6, <1>11, <3>1, <4>1
    <3>2. CASE e # new
      <4>1. e \in blocks[q]
        BY <1>12, <2>1, <3>2
      <4>2. e.ptr # a
        BY <1>8, <4>1 DEF Listed
      <4>3. RefsTo(q, e.ptr)' = RefsTo(q, e.ptr)
        BY <1>10, <4>2
      <4> QED
        BY <4>1, <4>3 DEF IInv, RefcountExact
    <3> QED
      BY <3>1, <3>2
  <2>2. ASSUME NEW q \in Kinds, NEW x \in Refs, refs'[x].region = q
        PROVE  refs'[x].ptr \in Listed(q)'
    <3>1. CASE x = y
      <4>1. refs'[x] = h
        BY <1>3, <3>1 DEF IInv, RegionsTypeOK
      <4> QED
        BY <1>5, <1>15, <2>2, <4>1
    <3>2. CASE x # y
      <4>1. refs'[x] = refs[x]
        BY <1>3, <3>2 DEF IInv, RegionsTypeOK
      <4> QED
        BY <1>15, <2>2, <4>1 DEF IInv, RefcountExact
    <3> QED
      BY <3>1, <3>2
  <2> QED
    BY <2>1, <2>2 DEF RefcountExact
<1>17. Arriving' = Arriving \ {a}
  <2>1. {u \in Threads : call'[u].at = "push"} = {u \in Threads : call[u].at = "push"} \ {t}
    BY <1>13
  <2>2. \A u \in Threads \ {t} : call[u].at = "push" => call[u].ptr # a
    BY <1>1 DEF IInv, ArrivalsApart
  <2>3. Arriving' = {call'[u].ptr : u \in {v \in Threads : call[v].at = "push"} \ {t}}
    BY <2>1 DEF Arriving
  <2> QED
    BY <1>1, <1>13, <2>2, <2>3 DEF Arriving
<1>18. OneEntryEach'
  <2> SUFFICES ASSUME NEW q \in Kinds, NEW d \in blocks'[q], NEW e \in blocks'[q], d.ptr = e.ptr
               PROVE  d = e
    BY DEF OneEntryEach
  <2>1. \A f \in blocks[q] : f.ptr # a
    BY <1>8 DEF Listed
  <2>2. OneEntryEach
    BY Consequences
  <2> QED
    BY <1>6, <1>12, <2>1, <2>2 DEF OneEntryEach
<1>19. ListsMatchAllocator'
  <2>1. Listing' = Listing \cup {a}
    BY <1>2, <1>15 DEF Listing, Kinds
  <2>2. allocated' = Listing' \cup Arriving'
    BY <1>4, <1>7, <1>17, <2>1 DEF IInv, ListsMatchAllocator, Listing
  <2>3. Listed("binary")' \cap Listed("tensor")' = {}
    BY <1>8, <1>15 DEF IInv, ListsMatchAllocator, Kinds
  <2>4. Arriving' \cap Listing' = {}
    BY <1>17, <2>1 DEF IInv, ListsMatchAllocator, Listing
  <2> QED
    BY <1>18, <2>2, <2>3, <2>4 DEF ListsMatchAllocator, OneEntryEach, Listing
<1>20. ArrivalsApart'
  BY <1>4, <1>13 DEF IInv, ArrivalsApart
<1>21. Shared!Obtain(y, a)
  <2>1. Pointing[y] = Null
    BY <1>3 DEF Pointing, Unused
  <2>2. a \notin Listing
    BY <1>8 DEF Listing, Kinds
  <2>3. Pointing' = [Pointing EXCEPT ![y] = a]
    <3>1. refs'[y].ptr = a /\ \A x \in Refs \ {y} : refs'[x] = refs[x]
      BY <1>3, <1>5 DEF IInv, RegionsTypeOK
    <3> QED
      BY <3>1 DEF Pointing
  <2>4. Listing' = Listing \cup {a}
    BY <1>2, <1>15 DEF Listing, Kinds
  <2> QED
    BY <2>1, <2>2, <2>3, <2>4 DEF Shared!Obtain, Pointing, Listing
<1>22. SharedStep
  BY <1>2, <1>21 DEF SharedStep, Shared!Next
<1> QED
  BY <1>14, <1>16, <1>19, <1>20, <1>22 DEF IInv

(* What a reference x in use says of the lists.                            *)
LEMMA HandleListed ==
  ASSUME IInv, NEW x \in Refs, refs[x] \in Handle
  PROVE  /\ refs[x].region \in Kinds
         /\ refs[x].ptr \in Addresses
         /\ refs[x].ptr \in Listed(refs[x].region)
         /\ \A q \in Kinds : refs[x].ptr \in Listed(q) => q = refs[x].region
         /\ refs[x].ptr \notin Arriving
<1>1. refs[x].region \in Kinds /\ refs[x].ptr \in Addresses
  BY DEF Handle
<1>2. refs[x].ptr \in Listed(refs[x].region)
  BY <1>1 DEF IInv, RefcountExact
<1>3. \A q \in Kinds : refs[x].ptr \in Listed(q) => q = refs[x].region
  BY <1>1, <1>2 DEF IInv, ListsMatchAllocator, Kinds
<1>4. refs[x].ptr \notin Arriving
  BY <1>1, <1>2 DEF IInv, ListsMatchAllocator, Kinds
<1> QED
  BY <1>1, <1>2, <1>3, <1>4

(* The counts stay exact when one entry's follows its references.          *)
LEMMA CountsFollow ==
  ASSUME RefcountExact, NEW r \in Kinds, NEW a, NEW n \in Nat, n > 0,
         \A q \in Kinds : \A f \in blocks'[q] :
           IF q = r /\ f.ptr = a THEN f.refcount = n ELSE f \in blocks[q],
         Cardinality(Pointers(refs', r, a)) = n,
         \A q \in Kinds : \A b : ~(q = r /\ b = a) => Pointers(refs', q, b) = Pointers(refs, q, b)
  PROVE  \A q \in Kinds : \A e \in blocks'[q] :
           e.refcount = Cardinality(Pointers(refs', q, e.ptr)) /\ e.refcount > 0
<1> SUFFICES ASSUME NEW q \in Kinds, NEW e \in blocks'[q]
             PROVE  e.refcount = Cardinality(Pointers(refs', q, e.ptr)) /\ e.refcount > 0
  OBVIOUS
<1>1. CASE q = r /\ e.ptr = a
  BY <1>1
<1>2. CASE ~(q = r /\ e.ptr = a)
  <2>1. e \in blocks[q]
    BY <1>2
  <2>2. e.refcount = Cardinality(RefsTo(q, e.ptr)) /\ e.refcount > 0
    BY <2>1 DEF RefcountExact
  <2>3. RefsTo(q, e.ptr) = Pointers(refs, q, e.ptr)
    BY DEF RefsTo, Pointers
  <2>4. Pointers(refs', q, e.ptr) = Pointers(refs, q, e.ptr)
    BY <1>2
  <2> QED
    BY <2>2, <2>3, <2>4
<1> QED
  BY <1>1, <1>2

LEMMA IncrefStep ==
  ASSUME IInv, NEW t \in Threads, NEW x \in Refs, Incref(t, x)
  PROVE  IInv' /\ SharedStep
<1>1. refs \in [Refs -> Handle \cup {Unused}] /\ blocks \in [Kinds -> SUBSET BlockEntry]
  BY DEF IInv, RegionsTypeOK
<1>2. refs[x] \in Handle
  BY <1>1, RegionsAssumption DEF Incref, Holds, Unused
<1>3. PICK r \in Kinds, a \in Addresses : refs[x].region = r /\ refs[x].ptr = a
  BY <1>2 DEF Handle
<1>4. a \in Listed(r)
  BY <1>2, <1>3, HandleListed
<1>5. PICK y \in Refs : refs[y] = Unused /\ refs' = [refs EXCEPT ![y] = refs[x]]
  BY DEF Incref
<1>6. blocks' = Recounted(r, a, EntryOf(r, a).refcount + 1)
  BY <1>3, <1>4 DEF Incref
<1>7. UNCHANGED <<used, allocated, call, dropped>>
  BY DEF Incref
<1>8. OneEntryEach
  BY Consequences
<1>9. EntryOf(r, a) \in blocks[r] /\ EntryOf(r, a).ptr = a
  BY <1>4, <1>8, EntryOfListed
<1>10. PICK n \in Nat : EntryOf(r, a).refcount = n
  BY <1>1, <1>9 DEF BlockEntry
<1>11. n = Cardinality(Pointers(refs, r, a))
  <2>1. EntryOf(r, a).refcount = Cardinality(RefsTo(r, EntryOf(r, a).ptr))
    BY <1>9 DEF IInv, RefcountExact
  <2> QED
    BY <1>9, <1>10, <2>1 DEF RefsTo, Pointers
<1>12. /\ blocks' \in [Kinds -> SUBSET BlockEntry]
       /\ \A q \in Kinds : Listed(q)' = Listed(q)
       /\ OneEntryEach'
       /\ \A q \in Kinds : \A f \in blocks'[q] :
            IF q = r /\ f.ptr = a THEN f.refcount = n + 1 ELSE f \in blocks[q]
  <2>1. blocks' = Recounted(r, a, n + 1) /\ n + 1 \in Nat
    BY <1>6, <1>10
  <2> QED
    BY <1>1, <1>4, <1>8, <2>1, RecountedList
<1>13. refs' \in [Refs -> Handle \cup {Unused}]
  BY <1>1, <1>2, <1>5
<1>14. refs'[y] = refs[x] /\ \A z \in Refs \ {y} : refs'[z] = refs[z]
  BY <1>1, <1>5
<1>15. PointsAt(refs', y, r, a) /\ DifferAt(y, refs, refs') /\ refs[y] = Unused
  BY <1>3, <1>5, <1>14 DEF PointsAt, DifferAt
<1>16. \A q \in Kinds : \A b : ~(q = r /\ b = a) => Pointers(refs', q, b) = Pointers(refs, q, b)
  BY <1>1, <1>13, <1>15, ReferenceTaken
<1>17. Cardinality(Pointers(refs', r, a)) = n + 1
  <2>1. Cardinality(Pointers(refs', r, a)) = Cardinality(Pointers(refs, r, a)) + 1
    BY <1>1, <1>13, <1>15, ReferenceTaken
  <2> QED
    BY <1>11, <2>1
<1>18. RegionsTypeOK'
  BY <1>7, <1>12, <1>13 DEF IInv, RegionsTypeOK
<1>19. RefcountExact'
  <2>1. \A q \in Kinds : \A e \in blocks'[q] :
          e.refcount = Cardinality(Pointers(refs', q, e.ptr)) /\ e.refcount > 0
    <3>1. RefcountExact /\ n + 1 \in Nat /\ n + 1 > 0
      BY DEF IInv
    <3> QED
      BY <1>12, <1>16, <1>17, <3>1, CountsFollow
  <2>2. ASSUME NEW q \in Kinds, NEW z \in Refs, refs'[z].region = q
        PROVE  refs'[z].ptr \in Listed(q)'
    BY <1>3, <1>4, <1>12, <1>14, <2>2 DEF IInv, RefcountExact
  <2> QED
    BY <2>1, <2>2 DEF RefcountExact, RefsTo, Pointers
<1>20. ListsMatchAllocator' /\ ArrivalsApart'
  <2>1. Listed("binary")' = Listed("binary") /\ Listed("tensor")' = Listed("tensor")
    BY <1>12 DEF Kinds
  <2>2. Arriving' = Arriving
    BY <1>7 DEF Arriving
  <2> QED
    BY <1>7, <1>12, <2>1, <2>2 DEF IInv, ListsMatchAllocator, ArrivalsApart, OneEntryEach
<1>21. Shared!Share(x, y)
  <2>1. Pointing[x] # Null /\ Pointing[y] = Null
    BY <1>3, <1>5, RegionsAssumption DEF Pointing, Unused
  <2>2. Pointing' = [Pointing EXCEPT ![y] = Pointing[x]]
    BY <1>14 DEF Pointing
  <2>3. Listing' = Listing
    BY <1>12 DEF Listing, Kinds
  <2> QED
    BY <2>1, <2>2, <2>3 DEF Shared!Share, Pointing, Listing
<1>22. SharedStep
  BY <1>21 DEF SharedStep, Shared!Next
<1> QED
  BY <1>18, <1>19, <1>20, <1>22 DEF IInv

(* Decref, up to what happens to the entry: the reference is gone.         *)
LEMMA DecrefReference ==
  ASSUME IInv, NEW t \in Threads, NEW x \in Refs, Decref(t, x),
         NEW r \in Kinds, NEW a \in Addresses, refs[x].region = r, refs[x].ptr = a
  PROVE  /\ refs' \in [Refs -> Handle \cup {Unused}]
         /\ refs'[x] = Unused /\ \A z \in Refs \ {x} : refs'[z] = refs[z]
         /\ x \in Pointers(refs, r, a)
         /\ Pointers(refs', r, a) = Pointers(refs, r, a) \ {x}
         /\ \A q \in Kinds : \A b : ~(q = r /\ b = a) => Pointers(refs', q, b) = Pointers(refs, q, b)
         /\ Cardinality(Pointers(refs', r, a)) = Cardinality(Pointers(refs, r, a)) - 1
         /\ EntryOf(r, a).refcount = Cardinality(Pointers(refs, r, a))
         /\ Pointing' = [Pointing EXCEPT ![x] = Null] /\ Pointing[x] = a
<1>1. refs \in [Refs -> Handle \cup {Unused}]
  BY DEF IInv, RegionsTypeOK
<1>2. refs' = [refs EXCEPT ![x] = Unused]
  BY DEF Decref
<1>3. refs' \in [Refs -> Handle \cup {Unused}]
  BY <1>1, <1>2
<1>4. refs'[x] = Unused /\ \A z \in Refs \ {x} : refs'[z] = refs[z]
  BY <1>1, <1>2
<1>5. PointsAt(refs, x, r, a) /\ DifferAt(x, refs, refs') /\ refs'[x] = Unused
  BY <1>4 DEF PointsAt, DifferAt
<1>6. x \in Pointers(refs, r, a)
  BY <1>1, <1>3, <1>5, ReferenceGivenUp
<1>7. Pointers(refs', r, a) = Pointers(refs, r, a) \ {x}
  BY <1>1, <1>3, <1>5, ReferenceGivenUp
<1>8. \A q \in Kinds : \A b : ~(q = r /\ b = a) => Pointers(refs', q, b) = Pointers(refs, q, b)
  BY <1>1, <1>3, <1>5, ReferenceGivenUp
<1>9. Cardinality(Pointers(refs', r, a)) = Cardinality(Pointers(refs, r, a)) - 1
  BY <1>1, <1>3, <1>5, ReferenceGivenUp
<1>10. EntryOf(r, a).refcount = Cardinality(Pointers(refs, r, a))
  <2>1. a \in Listed(r)
    BY DEF IInv, RefcountExact
  <2>2. EntryOf(r, a) \in blocks[r] /\ EntryOf(r, a).ptr = a
    BY <2>1, Consequences, EntryOfListed
  <2>3. EntryOf(r, a).refcount = Cardinality(RefsTo(r, EntryOf(r, a).ptr))
    BY <2>2 DEF IInv, RefcountExact
  <2> QED
    BY <2>2, <2>3 DEF RefsTo, Pointers
<1>11. Pointing' = [Pointing EXCEPT ![x] = Null] /\ Pointing[x] = a
  <2>1. refs'[x].ptr = Null
    BY <1>4 DEF Unused
  <2>2. Pointing' = [Pointing EXCEPT ![x] = Null]
    BY <1>4, <2>1 DEF Pointing
  <2>3. Pointing[x] = a
    BY DEF Pointing
  <2> QED
    BY <2>2, <2>3
<1> QED
  BY <1>3, <1>4, <1>6, <1>7, <1>8, <1>9, <1>10, <1>11

(* decref of the last reference: the block leaves the list and is freed.   *)
LEMMA LastDecref ==
  ASSUME IInv, NEW t \in Threads, NEW x \in Refs, Decref(t, x),
         NEW r \in Kinds, NEW a \in Addresses, refs[x].region = r, refs[x].ptr = a,
         refs[x] \in Handle, EntryOf(r, a).refcount = 1
  PROVE  IInv' /\ SharedStep
<1>1. a \in Listed(r) /\ a \notin Arriving /\ \A q \in Kinds : a \in Listed(q) => q = r
  BY HandleListed
<1>2. OneEntryEach /\ blocks \in [Kinds -> SUBSET BlockEntry]
  BY Consequences DEF IInv, RegionsTypeOK
<1>3. /\ blocks' = [blocks EXCEPT ![r] = @ \ {EntryOf(r, a)}]
      /\ allocated' = allocated \ {a}
      /\ used' = [used EXCEPT ![r] = @ - EntryOf(r, a).size]
      /\ UNCHANGED <<call, dropped>>
  BY <1>1 DEF Decref, Unlist
<1>4. /\ blocks' \in [Kinds -> SUBSET BlockEntry]
      /\ \A q \in Kinds : Listed(q)' = IF q = r THEN Listed(q) \ {a} ELSE Listed(q)
      /\ OneEntryEach'
      /\ \A q \in Kinds : \A f \in blocks'[q] : f \in blocks[q] /\ (q = r => f.ptr # a)
  BY <1>1, <1>2, <1>3, ShortenedList
<1>5. /\ refs' \in [Refs -> Handle \cup {Unused}]
      /\ refs'[x] = Unused /\ \A z \in Refs \ {x} : refs'[z] = refs[z]
      /\ \A q \in Kinds : \A b : ~(q = r /\ b = a) => Pointers(refs', q, b) = Pointers(refs, q, b)
      /\ Pointing' = [Pointing EXCEPT ![x] = Null] /\ Pointing[x] = a
  BY DecrefReference
<1>6. Pointers(refs', r, a) = {}
  <2>1. Cardinality(Pointers(refs', r, a)) = 0
    BY DecrefReference
  <2> QED
    BY <2>1, PointersFinite, FS_EmptySet
<1>7. RegionsTypeOK'
  <2>1. EntryOf(r, a) \in BlockEntry
    BY <1>1, <1>2, EntryOfListed
  <2>2. EntryOf(r, a).size \in Int
    <3>1. EntryOf(r, a).size \in Sizes
      BY <2>1 DEF BlockEntry
    <3>2. Sizes \subseteq Nat
      BY RegionsAssumption
    <3>3. \A n \in Nat : n \in Int
      OBVIOUS
    <3> QED
      BY <3>1, <3>2, <3>3
  <2>3. used \in [Kinds -> Int]
    BY DEF IInv, RegionsTypeOK
  <2>4. used[r] - EntryOf(r, a).size \in Int
    BY <2>2, <2>3
  <2>5. used' \in [Kinds -> Int]
    BY <1>3, <2>3, <2>4
  <2> QED
    BY <1>3, <1>4, <1>5, <2>5 DEF IInv, RegionsTypeOK
<1>8. RefcountExact'
  <2>1. ASSUME NEW q \in Kinds, NEW e \in blocks'[q]
        PROVE  e.refcount = Cardinality(RefsTo(q, e.ptr))' /\ e.refcount > 0
    <3>1. e \in blocks[q] /\ ~(q = r /\ e.ptr = a)
      BY <1>4
    <3>2. e.refcount = Cardinality(RefsTo(q, e.ptr)) /\ e.refcount > 0
      BY <3>1 DEF IInv, RefcountExact
    <3>3. Pointers(refs', q, e.ptr) = Pointers(refs, q, e.ptr)
      BY <1>5, <3>1
    <3> QED
      BY <3>2, <3>3 DEF RefsTo, Pointers
  <2>2. ASSUME NEW q \in Kinds, NEW z \in Refs, refs'[z].region = q
        PROVE  refs'[z].ptr \in Listed(q)'
    <3>1. z # x
      BY <1>5, <2>2, RegionsAssumption DEF Unused, Kinds
    <3>2. refs[z].region = q /\ refs'[z].ptr = refs[z].ptr
      BY <1>5, <2>2, <3>1
    <3>3. refs[z].ptr \in Listed(q)
      BY <3>2 DEF IInv, RefcountExact
    <3>4. ~(q = r /\ refs[z].ptr = a)
      BY <1>6, <2>2, <3>2 DEF Pointers
    <3> QED
      BY <1>4, <3>2, <3>3, <3>4
  <2> QED
    BY <2>1, <2>2 DEF RefcountExact
<1>9. Listing' = Listing \ {a}
  BY <1>1, <1>4 DEF Listing, Kinds
<1>10. ListsMatchAllocator' /\ ArrivalsApart'
  <2>1. Arriving' = Arriving
    BY <1>3 DEF Arriving
  <2>2. allocated' = Listing' \cup Arriving'
    BY <1>1, <1>3, <1>9, <2>1 DEF IInv, ListsMatchAllocator, Listing
  <2>3. Listed("binary")' \cap Listed("tensor")' = {}
    BY <1>4 DEF IInv, ListsMatchAllocator, Kinds
  <2>4. Arriving' \cap Listing' = {}
    BY <1>9, <2>1 DEF IInv, ListsMatchAllocator, Listing
  <2>5. ArrivalsApart'
    BY <1>1, <1>3 DEF IInv, ArrivalsApart, Arriving
  <2> QED
    BY <1>4, <2>2, <2>3, <2>4, <2>5 DEF ListsMatchAllocator, OneEntryEach, Listing
<1>11. a \notin {Pointing[z] : z \in Refs \ {x}}
  <2>1. SUFFICES ASSUME NEW z \in Refs \ {x}, refs[z].ptr = a PROVE FALSE
    BY DEF Pointing
  <2>2. refs[z] \in Handle
    BY <2>1, Consequences, RegionsAssumption
  <2>3. refs[z].region = r
    BY <1>1, <2>1, <2>2, HandleListed
  <2>4. z \in Pointers(refs', r, a)
    BY <1>5, <2>1, <2>3 DEF Pointers
  <2> QED
    BY <1>6, <2>4
<1>12. Shared!Release(x)
  <2>1. Listing' = Listing \ ({Pointing[x]} \ {Pointing[z] : z \in Refs \ {x}})
    BY <1>5, <1>9, <1>11
  <2>2. Pointing[x] # Null
    BY <1>5, RegionsAssumption
  <2> QED
    BY <1>5, <2>1, <2>2 DEF Shared!Release, Shared!Others, Pointing, Listing
<1>13. SharedStep
  BY <1>12 DEF SharedStep, Shared!Next
<1> QED
  BY <1>7, <1>8, <1>10, <1>13 DEF IInv

(* decref of any other: the count goes down and the block stays.           *)
LEMMA EarlierDecref ==
  ASSUME IInv, NEW t \in Threads, NEW x \in Refs, Decref(t, x),
         NEW r \in Kinds, NEW a \in Addresses, refs[x].region = r, refs[x].ptr = a,
         refs[x] \in Handle, EntryOf(r, a).refcount # 1
  PROVE  IInv' /\ SharedStep
<1>1. a \in Listed(r)
  BY HandleListed
<1>2. OneEntryEach /\ blocks \in [Kinds -> SUBSET BlockEntry]
  BY Consequences DEF IInv, RegionsTypeOK
<1>3. /\ blocks' = Recounted(r, a, EntryOf(r, a).refcount - 1)
      /\ UNCHANGED <<allocated, used, call, dropped>>
  BY <1>1 DEF Decref, Unlist
<1>4. PICK n \in Nat : EntryOf(r, a).refcount = n + 1 /\ n > 0
  <2>1. EntryOf(r, a) \in BlockEntry /\ EntryOf(r, a) \in blocks[r]
    BY <1>1, <1>2, EntryOfListed
  <2>2. EntryOf(r, a).refcount \in Nat /\ EntryOf(r, a).refcount > 0
    BY <2>1 DEF IInv, RefcountExact, BlockEntry
  <2>3. PICK m \in Nat : EntryOf(r, a).refcount = m
    BY <2>2
  <2>4. m - 1 \in Nat /\ m = (m - 1) + 1 /\ m - 1 > 0
    BY <2>2, <2>3
  <2> QED
    BY <2>3, <2>4
<1>5. /\ blocks' \in [Kinds -> SUBSET BlockEntry]
      /\ \A q \in Kinds : Listed(q)' = Listed(q)
      /\ OneEntryEach'
      /\ \A q \in Kinds : \A f \in blocks'[q] :
           IF q = r /\ f.ptr = a THEN f.refcount = n ELSE f \in blocks[q]
  <2>1. blocks' = Recounted(r, a, n)
    BY <1>3, <1>4
  <2> QED
    BY <1>1, <1>2, <2>1, RecountedList
<1>6. /\ refs' \in [Refs -> Handle \cup {Unused}]
      /\ refs'[x] = Unused /\ \A z \in Refs \ {x} : refs'[z] = refs[z]
      /\ Pointers(refs', r, a) = Pointers(refs, r, a) \ {x}
      /\ \A q \in Kinds : \A b : ~(q = r /\ b = a) => Pointers(refs', q, b) = Pointers(refs, q, b)
      /\ Pointing' = [Pointing EXCEPT ![x] = Null] /\ Pointing[x] = a
  <2>1. refs' \in [Refs -> Handle \cup {Unused}]
    BY DecrefReference
  <2>2. refs'[x] = Unused /\ \A z \in Refs \ {x} : refs'[z] = refs[z]
    BY DecrefReference
  <2>3. Pointers(refs', r, a) = Pointers(refs, r, a) \ {x}
    BY DecrefReference
  <2>4. \A q \in Kinds : \A b : ~(q = r /\ b = a) => Pointers(refs', q, b) = Pointers(refs, q, b)
    BY DecrefReference
  <2>5. Pointing' = [Pointing EXCEPT ![x] = Null] /\ Pointing[x] = a
    BY DecrefReference
  <2> QED
    BY <2>1, <2>2, <2>3, <2>4, <2>5
<1>7. Cardinality(Pointers(refs', r, a)) = n
  <2>1. /\ Cardinality(Pointers(refs', r, a)) = Cardinality(Pointers(refs, r, a)) - 1
        /\ EntryOf(r, a).refcount = Cardinality(Pointers(refs, r, a))
    BY DecrefReference
  <2> QED
    BY <1>4, <2>1
<1>8. RegionsTypeOK'
  BY <1>3, <1>5, <1>6 DEF IInv, RegionsTypeOK
<1>9. RefcountExact'
  <2>1. \A q \in Kinds : \A e \in blocks'[q] :
          e.refcount = Cardinality(Pointers(refs', q, e.ptr)) /\ e.refcount > 0
    <3>1. RefcountExact /\ n \in Nat /\ n > 0
      BY <1>4 DEF IInv
    <3>2. \A q \in Kinds : \A b : ~(q = r /\ b = a) => Pointers(refs', q, b) = Pointers(refs, q, b)
      BY <1>6
    <3> QED
      BY <1>5, <1>7, <3>1, <3>2, CountsFollow
  <2>2. ASSUME NEW q \in Kinds, NEW z \in Refs, refs'[z].region = q
        PROVE  refs'[z].ptr \in Listed(q)'
    <3>1. z # x
      BY <1>6, <2>2, RegionsAssumption DEF Unused, Kinds
    <3> QED
      BY <1>5, <1>6, <2>2, <3>1 DEF IInv, RefcountExact
  <2> QED
    BY <2>1, <2>2 DEF RefcountExact, RefsTo, Pointers
<1>10. ListsMatchAllocator' /\ ArrivalsApart'
  <2>1. Listed("binary")' = Listed("binary") /\ Listed("tensor")' = Listed("tensor")
    BY <1>5 DEF Kinds
  <2>2. Arriving' = Arriving
    BY <1>3 DEF Arriving
  <2> QED
    BY <1>3, <1>5, <2>1, <2>2 DEF IInv, ListsMatchAllocator, ArrivalsApart, OneEntryEach
<1>11. a \in {Pointing[z] : z \in Refs \ {x}}
  <2>1. Pointers(refs', r, a) # {}
    BY <1>4, <1>7, FS_EmptySet
  <2>2. PICK z \in Refs \ {x} : refs[z].ptr = a
    BY <1>6, <2>1 DEF Pointers
  <2>3. Pointing[z] = a
    BY <2>2 DEF Pointing
  <2> QED
    BY <2>3
<1>12. Shared!Release(x)
  <2>1. Listing' = Listing
    BY <1>5 DEF Listing, Kinds
  <2>2. Listing' = Listing \ ({Pointing[x]} \ {Pointing[z] : z \in Refs \ {x}})
    BY <1>6, <1>11, <2>1
  <2>3. Pointing[x] # Null
    BY <1>6, RegionsAssumption
  <2> QED
    BY <1>6, <2>2, <2>3 DEF Shared!Release, Shared!Others, Pointing, Listing
<1>13. SharedStep
  BY <1>12 DEF SharedStep, Shared!Next
<1> QED
  BY <1>8, <1>9, <1>10, <1>13 DEF IInv

LEMMA DecrefStep ==
  ASSUME IInv, NEW t \in Threads, NEW x \in Refs, Decref(t, x)
  PROVE  IInv' /\ SharedStep
<1>1. refs[x] \in Handle
  BY RegionsAssumption DEF IInv, RegionsTypeOK, Decref, Holds, Unused
<1>2. PICK r \in Kinds, a \in Addresses : refs[x].region = r /\ refs[x].ptr = a
  BY <1>1 DEF Handle
<1>3. CASE EntryOf(r, a).refcount = 1
  BY <1>1, <1>2, <1>3, LastDecref
<1>4. CASE EntryOf(r, a).refcount # 1
  BY <1>1, <1>2, <1>4, EarlierDecref
<1> QED
  BY <1>3, <1>4

LEMMA DropTensorsStep ==
  ASSUME IInv, DropTensors
  PROVE  IInv' /\ SharedStep
<1>1. /\ \A t \in Threads : call[t].region # "tensor"
      /\ dropped' = TRUE
      /\ allocated' = allocated \ Listed("tensor")
      /\ blocks' = [blocks EXCEPT !["tensor"] = {}]
      /\ refs' = [x \in Refs |-> IF refs[x].region = "tensor" THEN Unused ELSE refs[x]]
      /\ UNCHANGED <<used, call>>
  BY DEF DropTensors
<1>2. blocks'["tensor"] = {} /\ blocks'["binary"] = blocks["binary"]
  BY <1>1 DEF IInv, RegionsTypeOK, Kinds
<1>3. Listed("tensor")' = {} /\ Listed("binary")' = Listed("binary")
  BY <1>2 DEF Listed
<1>4. RegionsTypeOK'
  <2>1. blocks' \in [Kinds -> SUBSET BlockEntry] /\ refs' \in [Refs -> Handle \cup {Unused}]
    BY <1>1 DEF IInv, RegionsTypeOK
  <2>2. dropped' \in BOOLEAN
    BY <1>1, Zenon
  <2> QED
    BY <1>1, <2>1, <2>2 DEF IInv, RegionsTypeOK
<1>5. \A a : RefsTo("binary", a)' = RefsTo("binary", a)
  BY <1>1, RegionsAssumption DEF RefsTo, Unused
<1>6. RefcountExact'
  <2>1. ASSUME NEW q \in Kinds, NEW e \in blocks'[q]
        PROVE  e.refcount = Cardinality(RefsTo(q, e.ptr))' /\ e.refcount > 0
    <3>1. q = "binary" /\ e \in blocks[q]
      BY <1>2, <2>1 DEF Kinds
    <3> QED
      BY <1>5, <3>1 DEF IInv, RefcountExact
  <2>2. ASSUME NEW q \in Kinds, NEW x \in Refs, refs'[x].region = q
        PROVE  refs'[x].ptr \in Listed(q)'
    <3>1. q = "binary" /\ refs'[x] = refs[x]
      BY <1>1, <2>2, RegionsAssumption DEF Kinds, Unused
    <3> QED
      BY <1>3, <2>2, <3>1 DEF IInv, RefcountExact
  <2> QED
    BY <2>1, <2>2 DEF RefcountExact
<1>7. ListsMatchAllocator'
  <2>1. Arriving' = Arriving
    BY <1>1 DEF Arriving
  <2>2. \A r \in Kinds : \A d, e \in blocks'[r] : d.ptr = e.ptr => d = e
    BY <1>2 DEF IInv, ListsMatchAllocator, Kinds
  <2> QED
    BY <1>1, <1>3, <2>1, <2>2 DEF IInv, ListsMatchAllocator
<1>8. ArrivalsApart'
  <2>1. \A t \in Threads : call[t].at = "push" => call[t].ptr \notin Listed("tensor")
    BY DEF IInv, ListsMatchAllocator, Arriving
  <2> QED
    BY <1>1, <2>1 DEF IInv, ArrivalsApart
<1>9. PICK C \in SUBSET Addresses : C = Listed("tensor")
  BY DEF IInv, RegionsTypeOK, Listed, BlockEntry, Kinds
<1>10. Shared!Withdraw(C)
  <2>1. ASSUME NEW x \in Refs
        PROVE  refs[x].region = "tensor" <=> refs[x].ptr \in Listed("tensor")
    <3>1. Listed("tensor") \subseteq Addresses
      BY DEF IInv, RegionsTypeOK, Listed, BlockEntry, Kinds
    <3>2. CASE refs[x] \in Handle
      BY <3>2, HandleListed DEF Kinds
    <3>3. CASE refs[x] = Unused
      BY <3>1, <3>3, RegionsAssumption DEF Unused
    <3> QED
      BY <3>2, <3>3 DEF IInv, RegionsTypeOK
  <2>2. Pointing' = [x \in Refs |-> IF Pointing[x] \in C THEN Null ELSE Pointing[x]]
    BY <1>1, <1>9, <2>1 DEF Pointing, Unused
  <2>3. Listing' = Listing \ C
    BY <1>3, <1>9 DEF IInv, ListsMatchAllocator, Listing
  <2> QED
    BY <2>2, <2>3 DEF Shared!Withdraw, Pointing, Listing
<1>11. SharedStep
  BY <1>10 DEF SharedStep, Shared!Next
<1> QED
  BY <1>4, <1>6, <1>7, <1>8, <1>11 DEF IInv

LEMMA StepIInv == IInv /\ [RegionsNext]_regionVars => IInv' /\ SharedStep
<1> SUFFICES ASSUME IInv, [RegionsNext]_regionVars
             PROVE  IInv' /\ SharedStep
  OBVIOUS
<1>1. ASSUME NEW t \in Threads, NEW r \in Kinds, NEW size \in Sizes, Allocate(t, r, size)
      PROVE  IInv' /\ SharedStep
  BY <1>1, AllocateStep
<1>2. ASSUME NEW t \in Threads, Push(t)
      PROVE  IInv' /\ SharedStep
  BY <1>2, PushStep
<1>3. ASSUME NEW t \in Threads, Count(t)
      PROVE  IInv' /\ SharedStep
  BY <1>3, CountStep
<1>4. ASSUME NEW t \in Threads, NEW x \in Refs, Incref(t, x)
      PROVE  IInv' /\ SharedStep
  BY <1>4, IncrefStep
<1>5. ASSUME NEW t \in Threads, NEW x \in Refs, Decref(t, x)
      PROVE  IInv' /\ SharedStep
  BY <1>5, DecrefStep
<1>6. ASSUME NEW t \in Threads, NEW u \in Threads, NEW x \in Refs, HandOver(t, u, x)
      PROVE  IInv' /\ SharedStep
  BY <1>6, HandOverStep
<1>7. CASE DropTensors
  BY <1>7, DropTensorsStep
<1>8. CASE UNCHANGED regionVars
  <2>1. UNCHANGED <<blocks, used, allocated, refs, call, dropped>>
    BY <1>8 DEF regionVars
  <2>2. \A r \in Kinds : Listed(r)' = Listed(r)
    BY <2>1 DEF Listed
  <2>3. UNCHANGED <<Pointing, Listing>>
    BY <2>1, <2>2 DEF Pointing, Listing, Kinds
  <2>4. RegionsTypeOK' /\ ArrivalsApart'
    BY <2>1 DEF IInv, RegionsTypeOK, ArrivalsApart
  <2>5. RefcountExact'
    BY <2>1, <2>2 DEF IInv, RefcountExact, RefsTo
  <2>6. ListsMatchAllocator'
    BY <2>1, <2>2 DEF IInv, ListsMatchAllocator, Arriving, Kinds
  <2> QED
    BY <2>3, <2>4, <2>5, <2>6 DEF IInv, SharedStep
<1> QED
  BY <1>1, <1>2, <1>3, <1>4, <1>5, <1>6, <1>7, <1>8 DEF RegionsNext

-----------------------------------------------------------------------------
(* The count of bytes.  It is exact at every step of a list or of the      *)
(* count, given that the bytes there are can be counted at all.            *)

BytesFinite ==
  \A r \in Kinds : IsFiniteSet(BytesListed(r)) /\ IsFiniteSet(BytesUncounted(r))

UsedInv == BytesFinite /\ UsedExact

LEMMA BlockBytes ==
  ASSUME NEW at, NEW size \in Nat
  PROVE  IsFiniteSet(BytesOf(at, size)) /\ Cardinality(BytesOf(at, size)) = size
<1>1. IsFiniteSet({at}) /\ Cardinality({at}) = 1
  BY FS_Singleton
<1>2. IsFiniteSet(1 .. size) /\ Cardinality(1 .. size) = size
  BY FS_Interval
<1>3. /\ IsFiniteSet({at} \X (1 .. size))
      /\ Cardinality({at} \X (1 .. size)) = Cardinality({at}) * Cardinality(1 .. size)
  BY <1>1, <1>2, FS_Product, Zenon
<1>4. Cardinality({at}) * Cardinality(1 .. size) = size
  BY <1>1, <1>2
<1> QED
  BY <1>3, <1>4 DEF BytesOf

(* A block that was not there adds its size to the count of bytes.         *)
LEMMA BytesCome ==
  ASSUME NEW S, IsFiniteSet(S), NEW at, NEW size \in Nat, S \cap BytesOf(at, size) = {}
  PROVE  /\ IsFiniteSet(S \cup BytesOf(at, size))
         /\ Cardinality(S \cup BytesOf(at, size)) = Cardinality(S) + size
         /\ Cardinality(S) \in Nat
<1>1. IsFiniteSet(BytesOf(at, size)) /\ Cardinality(BytesOf(at, size)) = size
  BY BlockBytes
<1>2. /\ IsFiniteSet(S \cup BytesOf(at, size))
      /\ Cardinality(S \cup BytesOf(at, size)) =
           Cardinality(S) + Cardinality(BytesOf(at, size)) - Cardinality(S \cap BytesOf(at, size))
  BY <1>1, FS_Union, Zenon
<1>3. Cardinality(S \cap BytesOf(at, size)) = 0
  <2>1. Cardinality({}) = 0
    BY FS_EmptySet
  <2> QED
    BY <2>1, Zenon
<1>4. Cardinality(S) \in Nat
  BY FS_CardinalityType
<1>5. Cardinality(S \cup BytesOf(at, size)) = Cardinality(S) + size - 0
  BY <1>1, <1>2, <1>3, Zenon
<1> QED
  BY <1>2, <1>4, <1>5

(* A block that was there takes its size from the count of bytes.          *)
LEMMA BytesGo ==
  ASSUME NEW S, IsFiniteSet(S), NEW at, NEW size \in Nat, BytesOf(at, size) \subseteq S
  PROVE  /\ IsFiniteSet(S \ BytesOf(at, size))
         /\ Cardinality(S \ BytesOf(at, size)) = Cardinality(S) - size
         /\ Cardinality(S) \in Nat
<1>1. Cardinality(BytesOf(at, size)) = size
  BY BlockBytes
<1>2. S \cap BytesOf(at, size) = BytesOf(at, size)
  OBVIOUS
<1>3. Cardinality(S) \in Nat
  BY FS_CardinalityType
<1> QED
  BY <1>1, <1>2, <1>3, FS_Difference

(* Bytes of different addresses, or of different threads, are different.   *)
LEMMA BytesApart ==
  ASSUME NEW a, NEW b, NEW m, NEW n, a # b
  PROVE  BytesOf(a, m) \cap BytesOf(b, n) = {}
BY DEF BytesOf

LEMMA SizesCount ==
  ASSUME IInv
  PROVE  /\ \A r \in Kinds : \A e \in blocks[r] : e.size \in Nat
         /\ \A t \in Threads : call[t].size \in Nat
         /\ \A r \in Kinds : used[r] \in Int
<1>1. ASSUME NEW r \in Kinds, NEW e \in blocks[r]
      PROVE  e.size \in Nat
  <2>1. e.size \in Sizes
    BY DEF IInv, RegionsTypeOK, BlockEntry
  <2> QED
    BY <2>1, RegionsAssumption
<1>2. ASSUME NEW t \in Threads
      PROVE  call[t].size \in Nat
  <2>1. call[t].size \in Sizes \/ call[t].size = 0
    BY DEF IInv, RegionsTypeOK, Call, Idle
  <2>2. 0 \in Nat /\ Sizes \subseteq Nat
    BY RegionsAssumption
  <2> QED
    BY <2>1, <2>2, Zenon
<1>3. \A r \in Kinds : used[r] \in Int
  BY DEF IInv, RegionsTypeOK
<1> QED
  BY <1>1, <1>2, <1>3

(* A thread that starts, or has ended, an uncounted block.                 *)
LEMMA CallStarts ==
  ASSUME NEW t \in Threads, NEW r \in Kinds, call[t].at # "count",
         call'[t].at = "count", call'[t].region = r,
         \A u \in Threads \ {t} : call'[u] = call[u]
  PROVE  /\ BytesUncounted(r)' = BytesUncounted(r) \cup BytesOf(t, call'[t].size)
         /\ BytesUncounted(r) \cap BytesOf(t, call'[t].size) = {}
         /\ \A q \in Kinds \ {r} : BytesUncounted(q)' = BytesUncounted(q)
<1>1. Uncounted(r)' = Uncounted(r) \cup {t} /\ t \notin Uncounted(r)
  BY DEF Uncounted
<1>2. \A q \in Kinds \ {r} : Uncounted(q)' = Uncounted(q) /\ t \notin Uncounted(q)
  BY DEF Uncounted
<1>3. \A q \in Kinds : Uncounted(q) \subseteq Threads
  BY DEF Uncounted
<1>4. BytesUncounted(r)' = BytesUncounted(r) \cup BytesOf(t, call'[t].size)
  BY <1>1, <1>3 DEF BytesUncounted
<1>5. BytesUncounted(r) \cap BytesOf(t, call'[t].size) = {}
  BY <1>1, BytesApart DEF BytesUncounted
<1>6. \A q \in Kinds \ {r} : BytesUncounted(q)' = BytesUncounted(q)
  BY <1>2, <1>3 DEF BytesUncounted
<1> QED
  BY <1>4, <1>5, <1>6

LEMMA CallEnds ==
  ASSUME NEW t \in Threads, NEW r \in Kinds, call[t].at = "count", call[t].region = r,
         call'[t].at # "count",
         \A u \in Threads \ {t} : call'[u] = call[u]
  PROVE  /\ BytesUncounted(r)' = BytesUncounted(r) \ BytesOf(t, call[t].size)
         /\ BytesOf(t, call[t].size) \subseteq BytesUncounted(r)
         /\ \A q \in Kinds \ {r} : BytesUncounted(q)' = BytesUncounted(q)
<1>1. Uncounted(r)' = Uncounted(r) \ {t} /\ t \in Uncounted(r)
  BY DEF Uncounted
<1>2. \A q \in Kinds \ {r} : Uncounted(q)' = Uncounted(q) /\ t \notin Uncounted(q)
  BY DEF Uncounted
<1>3. \A q \in Kinds : Uncounted(q) \subseteq Threads
  BY DEF Uncounted
<1>4. BytesUncounted(r)' = UNION {BytesOf(u, call[u].size) : u \in Uncounted(r) \ {t}}
  BY <1>1, <1>3 DEF BytesUncounted
<1>5. \A u \in Uncounted(r) \ {t} : BytesOf(u, call[u].size) \cap BytesOf(t, call[t].size) = {}
  BY BytesApart
<1>6. BytesUncounted(r)' = BytesUncounted(r) \ BytesOf(t, call[t].size)
  BY <1>1, <1>4, <1>5 DEF BytesUncounted
<1>7. BytesOf(t, call[t].size) \subseteq BytesUncounted(r)
  BY <1>1 DEF BytesUncounted
<1>8. \A q \in Kinds \ {r} : BytesUncounted(q)' = BytesUncounted(q)
  BY <1>2, <1>3 DEF BytesUncounted
<1> QED
  BY <1>6, <1>7, <1>8

(* What UsedInv says of a region, from what became of its bytes.           *)
LEMMA SameBytes ==
  ASSUME UsedInv, NEW q \in Kinds, Open(q)' => Open(q), used'[q] = used[q],
         BytesListed(q)' = BytesListed(q), BytesUncounted(q)' = BytesUncounted(q)
  PROVE  /\ IsFiniteSet(BytesListed(q)') /\ IsFiniteSet(BytesUncounted(q)')
         /\ Open(q)' => used'[q] = Cardinality(BytesListed(q)') - Cardinality(BytesUncounted(q)')
BY DEF UsedInv, BytesFinite, UsedExact

LEMMA AllBytes ==
  ASSUME \A q \in Kinds :
           /\ IsFiniteSet(BytesListed(q)') /\ IsFiniteSet(BytesUncounted(q)')
           /\ Open(q)' => used'[q] = Cardinality(BytesListed(q)') - Cardinality(BytesUncounted(q)')
  PROVE  UsedInv'
BY DEF UsedInv, BytesFinite, UsedExact

LEMMA AllocateUsed ==
  ASSUME IInv, UsedInv, NEW t \in Threads, NEW r \in Kinds, NEW size \in Sizes,
         Allocate(t, r, size)
  PROVE  UsedInv'
<1>1. PICK a \in Addresses :
        call' = [call EXCEPT ![t] = [at |-> "push", region |-> r, ptr |-> a, size |-> size]]
  BY DEF Allocate
<1>2. /\ call'[t].at = "push" /\ call[t] = Idle
      /\ \A u \in Threads \ {t} : call'[u] = call[u]
  BY <1>1 DEF Allocate, IInv, RegionsTypeOK
<1>3. UNCHANGED <<blocks, used, dropped>>
  BY DEF Allocate
<1>4. \A q \in Kinds : Uncounted(q)' = Uncounted(q) /\ Uncounted(q) \subseteq Threads \ {t}
  BY <1>2 DEF Uncounted, Idle
<1>5. \A q \in Kinds : BytesUncounted(q)' = BytesUncounted(q)
  BY <1>2, <1>4 DEF BytesUncounted
<1>6. \A q \in Kinds : BytesListed(q)' = BytesListed(q)
  BY <1>3 DEF BytesListed
<1> QED
  BY <1>3, <1>5, <1>6, SameBytes, AllBytes DEF Open

LEMMA PushUsed ==
  ASSUME IInv, UsedInv, NEW t \in Threads, Push(t)
  PROVE  UsedInv'
<1>1. call[t] \in Call
  BY DEF Push, IInv, RegionsTypeOK, Idle
<1>2. PICK r \in Kinds, a \in Addresses, size \in Sizes :
        call[t] = [at |-> "push", region |-> r, ptr |-> a, size |-> size]
  BY <1>1 DEF Call, Push
<1>3. size \in Nat
  BY RegionsAssumption
<1>4. blocks' = [blocks EXCEPT ![r] = @ \cup {[ptr |-> a, size |-> size, refcount |-> 1]}]
  BY <1>2 DEF Push
<1>5. /\ call'[t].at = "count" /\ call'[t].region = r /\ call'[t].size = size
      /\ \A u \in Threads \ {t} : call'[u] = call[u]
  BY <1>2 DEF Push, IInv, RegionsTypeOK
<1>6. UNCHANGED <<used, dropped>>
  BY DEF Push
<1>7. blocks'[r] = blocks[r] \cup {[ptr |-> a, size |-> size, refcount |-> 1]}
  BY <1>4 DEF IInv, RegionsTypeOK
<1>8. BytesListed(r)' = BytesListed(r) \cup BytesOf(a, size)
  <2>1. PICK e : e = [ptr |-> a, size |-> size, refcount |-> 1]
    OBVIOUS
  <2>2. e.ptr = a /\ e.size = size /\ blocks'[r] = blocks[r] \cup {e}
    BY <1>7, <2>1
  <2> QED
    BY <2>2 DEF BytesListed
<1>9. a \notin Listed(r)
  BY <1>2 DEF IInv, ListsMatchAllocator, Arriving, Kinds
<1>10. BytesListed(r) \cap BytesOf(a, size) = {}
  BY <1>9, BytesApart DEF BytesListed, Listed
<1>11. \A q \in Kinds \ {r} : BytesListed(q)' = BytesListed(q)
  BY <1>4 DEF BytesListed
<1>12. /\ BytesUncounted(r)' = BytesUncounted(r) \cup BytesOf(t, size)
       /\ BytesUncounted(r) \cap BytesOf(t, size) = {}
       /\ \A q \in Kinds \ {r} : BytesUncounted(q)' = BytesUncounted(q)
  <2>1. call[t].at # "count"
    BY <1>2
  <2> QED
    BY <1>5, <2>1, CallStarts
<1>13. /\ IsFiniteSet(BytesListed(r)') /\ IsFiniteSet(BytesUncounted(r)')
       /\ Cardinality(BytesListed(r)') = Cardinality(BytesListed(r)) + size
       /\ Cardinality(BytesUncounted(r)') = Cardinality(BytesUncounted(r)) + size
       /\ Cardinality(BytesListed(r)) \in Nat
       /\ Cardinality(BytesUncounted(r)) \in Nat
  <2>1. IsFiniteSet(BytesListed(r)) /\ IsFiniteSet(BytesUncounted(r))
    BY DEF UsedInv, BytesFinite
  <2> QED
    BY <1>3, <1>8, <1>10, <1>12, <2>1, BytesCome
<1>14. Open(r)' => used'[r] = Cardinality(BytesListed(r)') - Cardinality(BytesUncounted(r)')
  <2>1. Open(r)' => used[r] = Cardinality(BytesListed(r)) - Cardinality(BytesUncounted(r))
    BY <1>6 DEF UsedInv, UsedExact, Open
  <2> QED
    BY <1>3, <1>6, <1>13, <2>1
<1>15. ASSUME NEW q \in Kinds \ {r}
       PROVE  /\ IsFiniteSet(BytesListed(q)') /\ IsFiniteSet(BytesUncounted(q)')
              /\ Open(q)' => used'[q] = Cardinality(BytesListed(q)') - Cardinality(BytesUncounted(q)')
  BY <1>6, <1>11, <1>12, SameBytes DEF Open
<1> QED
  BY <1>13, <1>14, <1>15, AllBytes

LEMMA CountUsed ==
  ASSUME IInv, UsedInv, NEW t \in Threads, Count(t)
  PROVE  UsedInv'
<1>1. call[t] \in Call
  BY DEF Count, IInv, RegionsTypeOK, Idle
<1>2. PICK r \in Kinds, size \in Sizes :
        call[t].at = "count" /\ call[t].region = r /\ call[t].size = size
  BY <1>1 DEF Call, Count
<1>3. size \in Nat
  BY RegionsAssumption
<1>4. /\ used' = [used EXCEPT ![r] = @ + size]
      /\ call' = [call EXCEPT ![t] = Idle]
      /\ UNCHANGED <<blocks, dropped>>
  BY <1>2 DEF Count
<1>5. call'[t].at # "count" /\ \A u \in Threads \ {t} : call'[u] = call[u]
  BY <1>4 DEF Idle, IInv, RegionsTypeOK
<1>6. \A q \in Kinds : BytesListed(q)' = BytesListed(q)
  BY <1>4 DEF BytesListed
<1>7. /\ BytesUncounted(r)' = BytesUncounted(r) \ BytesOf(t, size)
      /\ BytesOf(t, size) \subseteq BytesUncounted(r)
      /\ \A q \in Kinds \ {r} : BytesUncounted(q)' = BytesUncounted(q)
  BY <1>2, <1>5, CallEnds
<1>8. /\ IsFiniteSet(BytesListed(r)) /\ Cardinality(BytesListed(r)) \in Nat
      /\ IsFiniteSet(BytesUncounted(r)') /\ Cardinality(BytesUncounted(r)) \in Nat
      /\ Cardinality(BytesUncounted(r)') = Cardinality(BytesUncounted(r)) - size
  <2>1. IsFiniteSet(BytesListed(r)) /\ IsFiniteSet(BytesUncounted(r))
    BY DEF UsedInv, BytesFinite
  <2> QED
    BY <1>3, <1>7, <2>1, BytesGo, FS_CardinalityType
<1>9. used'[r] = used[r] + size /\ used[r] \in Int /\ \A q \in Kinds \ {r} : used'[q] = used[q]
  BY <1>4 DEF IInv, RegionsTypeOK
<1>10. Open(r)' => used'[r] = Cardinality(BytesListed(r)') - Cardinality(BytesUncounted(r)')
  <2>1. Open(r)' => used[r] = Cardinality(BytesListed(r)) - Cardinality(BytesUncounted(r))
    BY <1>4 DEF UsedInv, UsedExact, Open
  <2> QED
    BY <1>3, <1>6, <1>8, <1>9, <2>1
<1>11. ASSUME NEW q \in Kinds \ {r}
       PROVE  /\ IsFiniteSet(BytesListed(q)') /\ IsFiniteSet(BytesUncounted(q)')
              /\ Open(q)' => used'[q] = Cardinality(BytesListed(q)') - Cardinality(BytesUncounted(q)')
  BY <1>4, <1>6, <1>7, <1>9, SameBytes DEF Open
<1> QED
  BY <1>6, <1>8, <1>10, <1>11, AllBytes

(* A new count in an entry leaves its bytes where they are.                *)
LEMMA RecountedBytes ==
  ASSUME IInv, NEW r \in Kinds, NEW a \in Listed(r), NEW n,
         blocks' = Recounted(r, a, n)
  PROVE  \A q \in Kinds : BytesListed(q)' = BytesListed(q)
<1>1. /\ EntryOf(r, a) \in blocks[r]
      /\ EntryOf(r, a) \in BlockEntry
  BY Consequences, EntryOfListed DEF IInv, RegionsTypeOK
<1> DEFINE old == EntryOf(r, a)
           new == [old EXCEPT !.refcount = n]
<1>2. new.ptr = old.ptr /\ new.size = old.size
  BY <1>1 DEF BlockEntry
<1>3. blocks' = [blocks EXCEPT ![r] = (@ \ {old}) \cup {new}]
  BY DEF Recounted
<1>4. old \in blocks[r]
  BY <1>1
<1> HIDE DEF old, new
<1>5. blocks'[r] = (blocks[r] \ {old}) \cup {new} /\ \A q \in Kinds \ {r} : blocks'[q] = blocks[q]
  BY <1>3 DEF IInv, RegionsTypeOK
<1>6. BytesListed(r)' = BytesListed(r)
  BY <1>2, <1>4, <1>5 DEF BytesListed
<1>7. \A q \in Kinds \ {r} : BytesListed(q)' = BytesListed(q)
  BY <1>5 DEF BytesListed
<1> QED
  BY <1>6, <1>7

LEMMA IncrefUsed ==
  ASSUME IInv, UsedInv, NEW t \in Threads, NEW x \in Refs, Incref(t, x)
  PROVE  UsedInv'
<1>1. UNCHANGED <<used, call, dropped>>
  BY DEF Incref
<1>2. \A q \in Kinds : BytesListed(q)' = BytesListed(q)
  <2> DEFINE r == refs[x].region
             a == refs[x].ptr
  <2>1. r \in Kinds
    BY DEF Incref, Kinds
  <2>2. CASE a \in Listed(r)
    BY <2>1, <2>2, RecountedBytes DEF Incref
  <2>3. CASE a \notin Listed(r)
    <3>1. blocks' = blocks
      BY <2>3 DEF Incref
    <3> QED
      BY <3>1 DEF BytesListed
  <2> QED
    BY <2>2, <2>3
<1>3. \A q \in Kinds : BytesUncounted(q)' = BytesUncounted(q)
  BY <1>1 DEF BytesUncounted, Uncounted
<1> QED
  BY <1>1, <1>2, <1>3, SameBytes, AllBytes DEF Open

LEMMA DecrefUsed ==
  ASSUME IInv, UsedInv, NEW t \in Threads, NEW x \in Refs, Decref(t, x)
  PROVE  UsedInv'
<1>1. refs[x] \in Handle
  BY RegionsAssumption DEF IInv, RegionsTypeOK, Decref, Holds, Unused
<1>2. PICK r \in Kinds, a \in Addresses : refs[x].region = r /\ refs[x].ptr = a
  BY <1>1 DEF Handle
<1>3. a \in Listed(r)
  BY <1>1, <1>2, HandleListed
<1>4. Unlist(r, a) /\ UNCHANGED <<call, dropped>>
  BY <1>2, <1>3 DEF Decref
<1>5. \A q \in Kinds : BytesUncounted(q)' = BytesUncounted(q)
  BY <1>4 DEF BytesUncounted, Uncounted
<1>6. CASE EntryOf(r, a).refcount # 1
  <2>1. blocks' = Recounted(r, a, EntryOf(r, a).refcount - 1) /\ used' = used
    BY <1>4, <1>6 DEF Unlist
  <2>2. \A q \in Kinds : BytesListed(q)' = BytesListed(q)
    BY <1>3, <2>1, RecountedBytes
  <2> QED
    BY <1>4, <1>5, <2>1, <2>2, SameBytes, AllBytes DEF Open
<1>7. CASE EntryOf(r, a).refcount = 1
  <2>1. PICK e \in blocks[r] : e = EntryOf(r, a) /\ e.ptr = a /\ \A d \in blocks[r] : d.ptr = a => d = e
    BY <1>3, Consequences, EntryOfListed
  <2>2. blocks' = [blocks EXCEPT ![r] = @ \ {e}] /\ used' = [used EXCEPT ![r] = @ - e.size]
    BY <1>4, <1>7, <2>1 DEF Unlist
  <2>3. e.size \in Nat /\ used[r] \in Int
    BY SizesCount
  <2>4. blocks'[r] = blocks[r] \ {e} /\ \A q \in Kinds \ {r} : blocks'[q] = blocks[q]
    BY <2>2 DEF IInv, RegionsTypeOK
  <2>5. used'[r] = used[r] - e.size /\ \A q \in Kinds \ {r} : used'[q] = used[q]
    BY <2>2 DEF IInv, RegionsTypeOK
  <2>6. BytesOf(a, e.size) \subseteq BytesListed(r)
    BY <2>1 DEF BytesListed
  <2>7. BytesListed(r)' = BytesListed(r) \ BytesOf(a, e.size)
    <3>1. \A d \in blocks[r] \ {e} : BytesOf(d.ptr, d.size) \cap BytesOf(a, e.size) = {}
      BY <2>1, BytesApart
    <3> QED
      BY <2>1, <2>4, <3>1 DEF BytesListed
  <2>8. \A q \in Kinds \ {r} : BytesListed(q)' = BytesListed(q)
    BY <2>4 DEF BytesListed
  <2>9. /\ IsFiniteSet(BytesListed(r)') /\ Cardinality(BytesListed(r)) \in Nat
        /\ Cardinality(BytesListed(r)') = Cardinality(BytesListed(r)) - e.size
        /\ IsFiniteSet(BytesUncounted(r)) /\ Cardinality(BytesUncounted(r)) \in Nat
    <3>1. IsFiniteSet(BytesListed(r)) /\ IsFiniteSet(BytesUncounted(r))
      BY DEF UsedInv, BytesFinite
    <3> QED
      BY <2>3, <2>6, <2>7, <3>1, BytesGo, FS_CardinalityType
  <2>10. Open(r)' => used'[r] = Cardinality(BytesListed(r)') - Cardinality(BytesUncounted(r)')
    <3>1. Open(r)' => used[r] = Cardinality(BytesListed(r)) - Cardinality(BytesUncounted(r))
      BY <1>4 DEF UsedInv, UsedExact, Open
    <3> QED
      BY <1>5, <2>3, <2>5, <2>9, <3>1
  <2>11. ASSUME NEW q \in Kinds \ {r}
         PROVE  /\ IsFiniteSet(BytesListed(q)') /\ IsFiniteSet(BytesUncounted(q)')
                /\ Open(q)' => used'[q] = Cardinality(BytesListed(q)') - Cardinality(BytesUncounted(q)')
    BY <1>4, <1>5, <2>5, <2>8, SameBytes DEF Open
  <2> QED
    BY <1>5, <2>9, <2>10, <2>11, AllBytes
<1> QED
  BY <1>6, <1>7

LEMMA DropTensorsUsed ==
  ASSUME IInv, UsedInv, DropTensors
  PROVE  UsedInv'
<1>1. /\ dropped' = TRUE
      /\ blocks' = [blocks EXCEPT !["tensor"] = {}]
      /\ UNCHANGED <<used, call>>
  BY DEF DropTensors
<1>2. blocks'["tensor"] = {} /\ blocks'["binary"] = blocks["binary"]
  BY <1>1 DEF IInv, RegionsTypeOK, Kinds
<1>3. BytesListed("tensor")' = {} /\ BytesListed("binary")' = BytesListed("binary")
  BY <1>2 DEF BytesListed
<1>4. \A q \in Kinds : BytesUncounted(q)' = BytesUncounted(q)
  BY <1>1 DEF BytesUncounted, Uncounted
<1>5. ~Open("tensor")' /\ (Open("binary")' => Open("binary"))
  BY <1>1 DEF Open
<1>6. /\ IsFiniteSet(BytesListed("binary")') /\ IsFiniteSet(BytesUncounted("binary")')
      /\ Open("binary")' => used'["binary"] = Cardinality(BytesListed("binary")')
                                                - Cardinality(BytesUncounted("binary")')
  BY <1>1, <1>3, <1>4, <1>5, SameBytes DEF Kinds
<1>7. IsFiniteSet(BytesListed("tensor")') /\ IsFiniteSet(BytesUncounted("tensor")')
  BY <1>3, <1>4, FS_EmptySet DEF UsedInv, BytesFinite, Kinds
<1> QED
  BY <1>5, <1>6, <1>7, AllBytes DEF Kinds

LEMMA StepUsed == IInv /\ UsedInv /\ [RegionsNext]_regionVars => UsedInv'
<1> SUFFICES ASSUME IInv, UsedInv, [RegionsNext]_regionVars
             PROVE  UsedInv'
  OBVIOUS
<1>1. ASSUME NEW t \in Threads, NEW r \in Kinds, NEW size \in Sizes, Allocate(t, r, size)
      PROVE  UsedInv'
  BY <1>1, AllocateUsed
<1>2. ASSUME NEW t \in Threads, Push(t)
      PROVE  UsedInv'
  BY <1>2, PushUsed
<1>3. ASSUME NEW t \in Threads, Count(t)
      PROVE  UsedInv'
  BY <1>3, CountUsed
<1>4. ASSUME NEW t \in Threads, NEW x \in Refs, Incref(t, x)
      PROVE  UsedInv'
  BY <1>4, IncrefUsed
<1>5. ASSUME NEW t \in Threads, NEW x \in Refs, Decref(t, x)
      PROVE  UsedInv'
  BY <1>5, DecrefUsed
<1>6. CASE \/ \E t, u \in Threads, x \in Refs : HandOver(t, u, x)
           \/ UNCHANGED regionVars
  <2>1. UNCHANGED <<blocks, used, call, dropped>>
    BY <1>6 DEF HandOver, regionVars
  <2>2. \A q \in Kinds : BytesListed(q)' = BytesListed(q) /\ BytesUncounted(q)' = BytesUncounted(q)
    BY <2>1 DEF BytesListed, BytesUncounted, Uncounted
  <2> QED
    BY <2>1, <2>2, SameBytes, AllBytes DEF Open
<1>7. CASE DropTensors
  BY <1>7, DropTensorsUsed
<1> QED
  BY <1>1, <1>2, <1>3, <1>4, <1>5, <1>6, <1>7 DEF RegionsNext

-----------------------------------------------------------------------------
(* The inductive invariant holds throughout.                               *)
THEOREM RegionsInvariant == RegionsSpec => []IInv
<1>1. IInv /\ [RegionsNext]_regionVars => IInv'
  BY StepIInv
<1> QED
  BY <1>1, InitIInv, PTL DEF RegionsSpec

(* Every variable keeps its type, for any number of threads, references    *)
(* and addresses (BinaryRegion, TensorRegion).                             *)
THEOREM RegionsTypeCorrect == RegionsSpec => []RegionsTypeOK
<1>1. IInv => RegionsTypeOK
  BY DEF IInv
<1> QED
  BY <1>1, RegionsInvariant, PTL

(* A block's count is the number of references to it: decref frees it with *)
(* the last one and not before (incref, decref).                           *)
THEOREM RegionsRefcountExact == RegionsSpec => []RefcountExact
<1>1. IInv => RefcountExact
  BY DEF IInv
<1> QED
  BY <1>1, RegionsInvariant, PTL

(* The lists of the two regions and the allocator agree, whatever is on    *)
(* its way between them (alloc_binary, alloc_tensor, decref, drop).        *)
THEOREM RegionsListsMatchAllocator == RegionsSpec => []ListsMatchAllocator
<1>1. IInv => ListsMatchAllocator
  BY DEF IInv
<1> QED
  BY <1>1, RegionsInvariant, PTL

(* used() is what is listed and counted, in every interleaving of the      *)
(* list's lock with the count outside it (alloc_binary, decref, used).     *)
THEOREM RegionsUsedExact == RegionsSpec => []UsedExact
<1>1. RegionsInit => UsedInv
  <2> SUFFICES ASSUME RegionsInit PROVE UsedInv
    OBVIOUS
  <2>1. \A r \in Kinds : BytesListed(r) = {} /\ BytesUncounted(r) = {} /\ used[r] = 0
    BY DEF RegionsInit, BytesListed, BytesUncounted, Uncounted, Idle
  <2>2. IsFiniteSet({}) /\ Cardinality({}) = 0
    BY FS_EmptySet
  <2>3. BytesFinite
    BY <2>1, <2>2 DEF BytesFinite
  <2>4. UsedExact
    BY <2>1, <2>2 DEF UsedExact
  <2> QED
    BY <2>3, <2>4 DEF UsedInv
<1>2. UsedInv => UsedExact
  BY DEF UsedInv
<1> QED
  BY <1>1, <1>2, StepUsed, RegionsInvariant, PTL DEF RegionsSpec

(* The two regions are reference-counted memory as SharedBlocks promises   *)
(* it: an address comes back only after its last reference.                *)
THEOREM RegionsImplementShared == RegionsSpec => ImplementsShared
<1>1. RegionsInit => Shared!Init
  <2> SUFFICES ASSUME RegionsInit PROVE Shared!Init
    OBVIOUS
  <2>1. Listed("binary") = {} /\ Listed("tensor") = {}
    BY DEF RegionsInit, Listed, Kinds
  <2>2. \A x \in Refs : refs[x].ptr = Null
    BY DEF RegionsInit, Unused
  <2> QED
    BY <2>1, <2>2 DEF Shared!Init
<1>2. IInv /\ [RegionsNext]_regionVars => [Shared!Next]_(Shared!sharedVars)
  <2>1. SharedStep => [Shared!Next]_(Shared!sharedVars)
    BY DEF SharedStep, Pointing, Listing, Shared!sharedVars
  <2> QED
    BY <2>1, StepIInv
<1> QED
  BY <1>1, <1>2, RegionsInvariant, PTL DEF RegionsSpec, ImplementsShared, Shared!Spec
=============================================================================
