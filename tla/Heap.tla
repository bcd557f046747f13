-------------------------------- MODULE Heap --------------------------------
(***************************************************************************)
(* The heap of a process (process.rs): one piece of memory, filled from    *)
(* its start and made larger when it is full.  The code keeps addresses,   *)
(* so that a difference of two of them is a number of bytes, while         *)
(* allocations are in words: grow_heap takes the old size in bytes and the *)
(* new one in words.  The model takes an address for a block of memory and *)
(* an offset in it, in words.  Growing may leave the heap where it is,     *)
(* move it to a fresh block with its contents at the same offsets, or fail *)
(* with null: the code goes on with whatever address realloc answers.      *)
(***************************************************************************)
EXTENDS Naturals, Sequences, FiniteSetsExt

CONSTANTS
  InitialHeap,    (* ProcessBuilder::heap_size, 233 by default              *)
  SmallestHeap,   (* least size after growing, 233 in the code              *)
  WordBytes,      (* bytes in a word, 8 in the code                         *)
  Counts,         (* numbers of words asked for                             *)
  MaxObjects      (* bound: allocations                                     *)

(* alloc_words grows the heap once and does not look again: a request must *)
(* fit the heap as it is after growing.                                    *)
ASSUME HeapAssumption ==
  /\ InitialHeap \in Nat /\ SmallestHeap \in Nat \ {0} /\ WordBytes \in Nat \ {0}
  /\ MaxObjects \in Nat
  /\ \A n \in Counts : n \in Nat /\ InitialHeap + n <= 2 * WordBytes * InitialHeap

VARIABLES
  heap_start,     (* the block the heap is in, 0 for null                   *)
  heap_ptr,       (* the next free word, counted from heap_start            *)
  heap_top,       (* the end of what the heap was allocated                 *)
  heap_high_water,(* an address: where the last scan for the collector ended*)
  granted,        (* blocks the allocator has given out                     *)
  objects         (* history: stretches given out, counted from heap_start  *)

heapVars == <<heap_start, heap_ptr, heap_top, heap_high_water, granted, objects>>

NullBlock == 0
Mark(b, w) == [block |-> b, word |-> w]

HeapInit ==
  /\ heap_start = 1 /\ granted = 1
  /\ heap_ptr = 0 /\ heap_top = InitialHeap /\ heap_high_water = Mark(1, 0)
  /\ objects = <<>>

Bytes(words) == words * WordBytes

(* Seeded fault: the old size is taken for a number of words.              *)
Grown_InWords(top) == Max({2 * top, SmallestHeap})

(* The size after growing: twice the bytes there were, as words.           *)
Grown(top) == Max({2 * Bytes(top), SmallestHeap})

(* realloc: in place, to a fresh block, or null.                           *)
Realloc ==
  \/ UNCHANGED <<heap_start, granted>>
  \/ granted' = granted + 1 /\ heap_start' = granted'
  \/ heap_start' = NullBlock /\ UNCHANGED granted

(* heap_start, heap_ptr and heap_top follow the heap; heap_high_water stays.*)
GrowHeap == Realloc /\ heap_top' = Grown(heap_top)

(* alloc_words; alloc is the same for one word.                            *)
AllocWords(n) ==
  /\ Len(objects) < MaxObjects
  /\ IF Bytes(heap_ptr) + Bytes(n) > Bytes(heap_top) THEN GrowHeap
     ELSE UNCHANGED <<heap_start, heap_top, granted>>
  /\ heap_ptr' = heap_ptr + n
  /\ objects' = Append(objects, [from |-> heap_ptr, to |-> heap_ptr + n])
  /\ UNCHANGED heap_high_water

SetHighWater ==
  /\ heap_high_water' = Mark(heap_start, heap_ptr)
  /\ UNCHANGED <<heap_start, heap_ptr, heap_top, granted, objects>>

HeapNext == (\E n \in Counts : AllocWords(n)) \/ SetHighWater

HeapSpec == HeapInit /\ [][HeapNext]_heapVars

-----------------------------------------------------------------------------
(* Whatever is allocated, and however often the heap has grown and moved,   *)
(* no two objects share a word and each lies inside the heap: a growth adds *)
(* enough for the request, in the units the code mixes, and keeps offsets.  *)
HeapApart ==
  /\ \A i, j \in DOMAIN objects :
       i < j => objects[i].to <= objects[j].from
  /\ \A i \in DOMAIN objects : objects[i].to <= heap_ptr
  /\ heap_ptr <= heap_top

(* The mark for the collector lies between the start of the heap and its    *)
(* next free word, as test_set_high_water asserts (process_edge_tests.rs).  *)
HighWaterInside ==
  heap_high_water.block = heap_start /\ heap_high_water.word <= heap_ptr

(* A process whose heap could not be allocated is refused ("heap allocation *)
(* failed", ProcessBuilder::build): no object is ever given out at null.    *)
ObjectsHaveMemory == objects # <<>> => heap_start # NullBlock
=============================================================================
