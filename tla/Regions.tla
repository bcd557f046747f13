------------------------------ MODULE Regions ------------------------------
(***************************************************************************)
(* The reference-counted memory regions: BinaryRegion and TensorRegion.    *)
(* Both keep a list of blocks behind a mutex, a byte count beside it, and  *)
(* take their memory from the process-wide allocator, which may give an    *)
(* address that was freed to the next caller, of either region.            *)
(*                                                                         *)
(* A step is a critical section or an access outside one: alloc_binary and *)
(* alloc_tensor are three (the allocator, the list, the count).  The       *)
(* callers keep the protocol the regions are made for: whoever holds a     *)
(* reference may copy it (incref), hand it to another thread or give it up *)
(* (decref) once.                                                          *)
(***************************************************************************)
EXTENDS Integers, FiniteSets

CONSTANTS
  Threads,        (* callers of the regions                                 *)
  Refs,           (* references that can exist at once                      *)
  Addresses,      (* what the allocator can answer                          *)
  Sizes,          (* sizes asked for                                        *)
  Null

ASSUME RegionsAssumption ==
  /\ IsFiniteSet(Refs)
  /\ Sizes \subseteq Nat
  /\ Null \notin Threads \cup Addresses \cup {"binary", "tensor"}

VARIABLES
  blocks,         (* blocks[r]: the region's block entries                  *)
  used,           (* used[r]: its count of bytes                            *)
  allocated,      (* addresses the allocator has given out                  *)
  refs,           (* refs[x]: the holder, region and address of a reference *)
  call,           (* call[t]: the allocation thread t is in the middle of   *)
  dropped         (* the tensor region is gone                              *)

regionVars == <<blocks, used, allocated, refs, call, dropped>>

Kinds == {"binary", "tensor"}
BlockEntry == [ptr : Addresses, size : Sizes, refcount : Nat]
Handle == [thread : Threads, region : Kinds, ptr : Addresses]
Unused == [thread |-> Null, region |-> Null, ptr |-> Null]
Call == [at : {"push", "count"}, region : Kinds, ptr : Addresses, size : Sizes]
Idle == [at |-> "idle", region |-> Null, ptr |-> Null, size |-> 0]

RegionsInit ==
  /\ blocks = [r \in Kinds |-> {}]
  /\ used = [r \in Kinds |-> 0]
  /\ allocated = {}
  /\ refs = [x \in Refs |-> Unused]
  /\ call = [t \in Threads |-> Idle]
  /\ dropped = FALSE

Open(r) == r = "binary" \/ ~dropped

(* A thread between calls holds reference x.                               *)
Holds(t, x) == call[t] = Idle /\ refs[x].thread = t

(* The entry of an address, the first the scan of the list meets.          *)
EntryOf(r, a) == CHOOSE e \in blocks[r] : e.ptr = a
Listed(r) == {e.ptr : e \in blocks[r]}

(* Bound: a reference is left for every block about to be listed.          *)
RefToSpare ==
  Cardinality({x \in Refs : refs[x] = Unused})
    > Cardinality({u \in Threads : call[u].at = "push"})

(* Seeded fault: an address freed a moment ago is taken for granted.       *)
Allocate_Reuses(t, r, size) ==
  /\ call[t] = Idle
  /\ Open(r)
  /\ RefToSpare
  /\ \E a \in Addresses :
       /\ allocated' = allocated \cup {a}
       /\ call' = [call EXCEPT ![t] = [at |-> "push", region |-> r, ptr |-> a, size |-> size]]
  /\ UNCHANGED <<blocks, used, refs, dropped>>

(* The allocator answers an address nobody has, or null, and then the call *)
(* returns without a trace.                                                *)
Allocate(t, r, size) ==
  /\ call[t] = Idle
  /\ Open(r)
  /\ RefToSpare
  /\ \E a \in Addresses \ allocated :
       /\ allocated' = allocated \cup {a}
       /\ call' = [call EXCEPT ![t] = [at |-> "push", region |-> r, ptr |-> a, size |-> size]]
  /\ UNCHANGED <<blocks, used, refs, dropped>>

(* The block is listed with one reference, the one that will be returned.  *)
Push(t) ==
  LET c == call[t] IN
  /\ c.at = "push"
  /\ \E x \in Refs :
       /\ refs[x] = Unused
       /\ refs' = [refs EXCEPT ![x] = [thread |-> t, region |-> c.region, ptr |-> c.ptr]]
  /\ blocks' = [blocks EXCEPT ![c.region] =
                  @ \cup {[ptr |-> c.ptr, size |-> c.size, refcount |-> 1]}]
  /\ call' = [call EXCEPT ![t].at = "count"]
  /\ UNCHANGED <<used, allocated, dropped>>

(* Seeded fault: the count is read before and written after.               *)
Count_OnlyFirst(t) ==
  LET c == call[t] IN
  /\ c.at = "count"
  /\ used' = [used EXCEPT ![c.region] = c.size]
  /\ call' = [call EXCEPT ![t] = Idle]
  /\ UNCHANGED <<blocks, allocated, refs, dropped>>

Count(t) ==
  LET c == call[t] IN
  /\ c.at = "count"
  /\ used' = [used EXCEPT ![c.region] = @ + c.size]
  /\ call' = [call EXCEPT ![t] = Idle]
  /\ UNCHANGED <<blocks, allocated, refs, dropped>>

Recounted(r, a, n) ==
  [blocks EXCEPT ![r] = (@ \ {EntryOf(r, a)}) \cup {[EntryOf(r, a) EXCEPT !.refcount = n]}]

(* incref, which only the binary region has.                               *)
Incref(t, x) ==
  LET r == refs[x].region
      a == refs[x].ptr
  IN
  /\ Holds(t, x)
  /\ r = "binary"
  /\ RefToSpare
  /\ \E y \in Refs :
       /\ refs[y] = Unused
       /\ refs' = [refs EXCEPT ![y] = refs[x]]
  /\ blocks' = IF a \in Listed(r)
                 THEN Recounted(r, a, EntryOf(r, a).refcount + 1)
                 ELSE blocks
  /\ UNCHANGED <<used, allocated, call, dropped>>

(* Seeded fault: the block is freed when one reference is left.            *)
Unlist_Early(r, a) ==
  IF EntryOf(r, a).refcount <= 2
    THEN /\ blocks' = [blocks EXCEPT ![r] = @ \ {EntryOf(r, a)}]
         /\ allocated' = allocated \ {a}
         /\ used' = [used EXCEPT ![r] = @ - EntryOf(r, a).size]
    ELSE /\ blocks' = Recounted(r, a, EntryOf(r, a).refcount - 1)
         /\ UNCHANGED <<allocated, used>>

(* decref and TensorRegion::deallocate for an address in the list.         *)
Unlist(r, a) ==
  IF EntryOf(r, a).refcount = 1
    THEN /\ blocks' = [blocks EXCEPT ![r] = @ \ {EntryOf(r, a)}]
         /\ allocated' = allocated \ {a}
         /\ used' = [used EXCEPT ![r] = @ - EntryOf(r, a).size]
    ELSE /\ blocks' = Recounted(r, a, EntryOf(r, a).refcount - 1)
         /\ UNCHANGED <<allocated, used>>

Decref(t, x) ==
  LET r == refs[x].region
      a == refs[x].ptr
  IN
  /\ Holds(t, x)
  /\ refs' = [refs EXCEPT ![x] = Unused]
  /\ IF a \in Listed(r) THEN Unlist(r, a) ELSE UNCHANGED <<blocks, used, allocated>>
  /\ UNCHANGED <<call, dropped>>

(* A reference travels to another thread in a message.                     *)
HandOver(t, u, x) ==
  /\ Holds(t, x)
  /\ u # t
  /\ refs' = [refs EXCEPT ![x].thread = u]
  /\ UNCHANGED <<blocks, used, allocated, call, dropped>>

(* Seeded fault: the entries go, their memory stays.                       *)
DropTensors_Leaks ==
  /\ ~dropped
  /\ \A t \in Threads : call[t].region # "tensor"
  /\ dropped' = TRUE
  /\ blocks' = [blocks EXCEPT !["tensor"] = {}]
  /\ refs' = [x \in Refs |-> IF refs[x].region = "tensor" THEN Unused ELSE refs[x]]
  /\ UNCHANGED <<allocated, used, call>>

(* Seeded fault: a void reference is cleared in part.                      *)
DropTensors_HalfClears ==
  /\ ~dropped
  /\ \A t \in Threads : call[t].region # "tensor"
  /\ dropped' = TRUE
  /\ allocated' = allocated \ Listed("tensor")
  /\ blocks' = [blocks EXCEPT !["tensor"] = {}]
  /\ refs' = [x \in Refs |-> IF refs[x].region = "tensor"
                               THEN [refs[x] EXCEPT !.ptr = Null] ELSE refs[x]]
  /\ UNCHANGED <<used, call>>

(* Drop of the tensor region frees every buffer left.  It needs the region *)
(* to itself, so no call is under way; references to it are void.          *)
DropTensors ==
  /\ ~dropped
  /\ \A t \in Threads : call[t].region # "tensor"
  /\ dropped' = TRUE
  /\ allocated' = allocated \ Listed("tensor")
  /\ blocks' = [blocks EXCEPT !["tensor"] = {}]
  /\ refs' = [x \in Refs |-> IF refs[x].region = "tensor" THEN Unused ELSE refs[x]]
  /\ UNCHANGED <<used, call>>

RegionsNext ==
  \/ \E t \in Threads, r \in Kinds, size \in Sizes : Allocate(t, r, size)
  \/ \E t \in Threads : Push(t)
  \/ \E t \in Threads : Count(t)
  \/ \E t \in Threads, x \in Refs : Incref(t, x)
  \/ \E t \in Threads, x \in Refs : Decref(t, x)
  \/ \E t, u \in Threads, x \in Refs : HandOver(t, u, x)
  \/ DropTensors

RegionsSpec == RegionsInit /\ [][RegionsNext]_regionVars

-----------------------------------------------------------------------------
RegionsTypeOK ==
  /\ blocks \in [Kinds -> SUBSET BlockEntry]
  /\ used \in [Kinds -> Int]
  /\ allocated \subseteq Addresses
  /\ refs \in [Refs -> Handle \cup {Unused}]
  /\ call \in [Threads -> Call \cup {Idle}]
  /\ dropped \in BOOLEAN

RefsTo(r, a) == {x \in Refs : refs[x].region = r /\ refs[x].ptr = a}

(* Every block's count is the number of references to it, held by whatever *)
(* threads: none is freed while one is left (decref's removal at zero) and *)
(* none outlives the last.                                                 *)
RefcountExact ==
  \A r \in Kinds :
    /\ \A e \in blocks[r] : e.refcount = Cardinality(RefsTo(r, e.ptr)) /\ e.refcount > 0
    /\ \A x \in Refs : refs[x].region = r => refs[x].ptr \in Listed(r)

(* What the allocator has given out is what the two regions list, each     *)
(* address once and in one region, and what is about to be listed: the     *)
(* lists and the allocator agree although they are updated apart.          *)
Arriving == {call[t].ptr : t \in {u \in Threads : call[u].at = "push"}}
ListsMatchAllocator ==
  /\ allocated = Listed("binary") \cup Listed("tensor") \cup Arriving
  /\ Listed("binary") \cap Listed("tensor") = {}
  /\ Arriving \cap (Listed("binary") \cup Listed("tensor")) = {}
  /\ \A r \in Kinds : \A d, e \in blocks[r] : d.ptr = e.ptr => d = e

(* used() is the number of bytes listed, but for blocks listed and not yet *)
(* counted: the count kept outside the lock does not drift.                *)
BytesOf(at, size) == {at} \X (1 .. size)
BytesListed(r) == UNION {BytesOf(e.ptr, e.size) : e \in blocks[r]}
Uncounted(r) == {u \in Threads : call[u].at = "count" /\ call[u].region = r}
BytesUncounted(r) == UNION {BytesOf(u, call[u].size) : u \in Uncounted(r)}
UsedExact ==
  \A r \in Kinds : Open(r) =>
    used[r] = Cardinality(BytesListed(r)) - Cardinality(BytesUncounted(r))

Shared == INSTANCE SharedBlocks
  WITH Cells <- Addresses,
       Nowhere <- Null,
       points <- [x \in Refs |-> refs[x].ptr],
       live <- Listed("binary") \cup Listed("tensor")

(* The two regions together keep the promise of SharedBlocks: an address   *)
(* is handed out again only after its last reference has gone.             *)
ImplementsShared == Shared!Spec
=============================================================================
