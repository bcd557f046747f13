-------------------------------- MODULE Bump --------------------------------
(***************************************************************************)
(* The two bump allocators: the stable immutable region, one piece of      *)
(* fixed size with a cursor, and the arena of a process, a list of chunks  *)
(* that grows and is reset as a whole.  Sizes, offsets and alignments are  *)
(* in machine words.                                                       *)
(*                                                                         *)
(* A stable region can be shared by threads and its cursor is an atomic,   *)
(* read in one step of allocate_immutable and written in another.  An      *)
(* arena cannot be shared (a RefCell keeps its chunks): a call is a step.  *)
(***************************************************************************)
EXTENDS Integers, Sequences, FiniteSetsExt

CONSTANTS
  Users,          (* threads that use one stable region                     *)
  Requests,       (* <<size, align>> pairs asked for                        *)
  StableCapacity, (* size of the stable region                              *)
  ChunkSize,      (* size of the first chunk                                *)
  ChunkFactor,    (* largest chunk over the first, 64 in the code           *)
  Bases,          (* addresses of chunks, modulo the largest alignment      *)
  MaxChunks       (* bound: chunks of the arena                             *)

MaxChunkSize == ChunkSize * ChunkFactor

(* Alignments are powers of two, as in any Layout.  A request and its      *)
(* alignment fit the largest chunk: alloc_aligned assumes it silently.     *)
ASSUME BumpAssumption ==
  /\ \A r \in Requests : r[1] \in Nat \ {0} /\ r[2] \in {1, 2, 4, 8, 16}
  /\ \A r \in Requests : r[1] + r[2] <= MaxChunkSize
  /\ StableCapacity \in Nat /\ ChunkSize \in Nat /\ ChunkFactor \in Nat
  /\ Bases \subseteq Nat

VARIABLES
  cursor,         (* StableImmutableRegion::cursor                          *)
  loaded,         (* loaded[u]: the cursor u has read, -1 before            *)
  stable,         (* history: stretches of the stable region given out      *)
  chunks,         (* Arena::chunks                                          *)
  lent            (* history: stretches of chunks given out since the reset *)

bumpVars == <<cursor, loaded, stable, chunks, lent>>

(* (n + align - 1) & !(align - 1)                                          *)
RoundUp(n, align) == ((n + align - 1) \div align) * align

BumpInit ==
  /\ cursor = 0
  /\ loaded = [u \in Users |-> -1]
  /\ stable = <<>>
  /\ \E b \in Bases : chunks = <<[base |-> b, size |-> ChunkSize, used |-> 0]>>
  /\ lent = <<>>

-----------------------------------------------------------------------------
(* allocate_immutable: load, then the check and the store.                 *)
LoadCursor(u) ==
  /\ loaded[u] = -1
  /\ loaded' = [loaded EXCEPT ![u] = cursor]
  /\ UNCHANGED <<cursor, stable, chunks, lent>>

Stretch(start, size, align) == [from |-> start, to |-> start + size, align |-> align]

(* Seeded fault: the cursor moves by the size, without the padding.        *)
StoreCursor_NoPadding(u, size, align) ==
  LET start == RoundUp(loaded[u], align) IN
  /\ loaded[u] # -1
  /\ IF start + size > StableCapacity
       THEN UNCHANGED <<cursor, stable>>
       ELSE /\ cursor' = loaded[u] + size
            /\ stable' = Append(stable, Stretch(start, size, align))
  /\ loaded' = [loaded EXCEPT ![u] = -1]
  /\ UNCHANGED <<chunks, lent>>

StoreCursor(u, size, align) ==
  LET start == RoundUp(loaded[u], align) IN
  /\ loaded[u] # -1
  /\ IF start + size > StableCapacity
       THEN UNCHANGED <<cursor, stable>>
       ELSE /\ cursor' = start + size
            /\ stable' = Append(stable, Stretch(start, size, align))
  /\ loaded' = [loaded EXCEPT ![u] = -1]
  /\ UNCHANGED <<chunks, lent>>

-----------------------------------------------------------------------------
(* The arena.                                                              *)

Current == chunks[Len(chunks)]

(* What is lost to align the next address of a chunk.                      *)
Padding(chunk, align) ==
  RoundUp(chunk.base + chunk.used, align) - (chunk.base + chunk.used)

FitsChunk(size, align) ==
  Current.used + Padding(Current, align) + size <= Current.size

Lend(i, from, size, align) ==
  lent' = Append(lent, [chunk |-> i, from |-> from, to |-> from + size, align |-> align])

AllocInChunk(size, align) ==
  LET n == Len(chunks)
      start == Current.used + Padding(Current, align)
  IN
  /\ FitsChunk(size, align)
  /\ chunks' = [chunks EXCEPT ![n].used = start + size]
  /\ Lend(n, start, size, align)
  /\ UNCHANGED <<cursor, loaded, stable>>

(* Seeded fault: a new chunk is sized for the request, not its alignment.  *)
NewChunkSize_NoAlign(size, align) ==
  Min({Max({Current.size * 2, size}), MaxChunkSize})

NewChunkSize(size, align) ==
  Min({Max({Current.size * 2, size + align}), MaxChunkSize})

AllocInNewChunk(size, align) ==
  /\ ~FitsChunk(size, align)
  /\ Len(chunks) < MaxChunks
  /\ \E b \in Bases :
       LET fresh == [base |-> b, size |-> NewChunkSize(size, align), used |-> 0]
           start == Padding(fresh, align)
       IN
       /\ chunks' = Append(chunks, [fresh EXCEPT !.used = start + size])
       /\ Lend(Len(chunks) + 1, start, size, align)
  /\ UNCHANGED <<cursor, loaded, stable>>

(* reset keeps the first chunk only.                                       *)
Reset ==
  /\ chunks' = <<[chunks[1] EXCEPT !.used = 0]>>
  /\ lent' = <<>>
  /\ UNCHANGED <<cursor, loaded, stable>>

StableNext ==
  \/ \E u \in Users : LoadCursor(u)
  \/ \E u \in Users, r \in Requests : StoreCursor(u, r[1], r[2])

ArenaNext ==
  \/ \E r \in Requests : AllocInChunk(r[1], r[2])
  \/ \E r \in Requests : AllocInNewChunk(r[1], r[2])
  \/ Reset

BumpSpec == BumpInit /\ [][StableNext \/ ArenaNext]_bumpVars

-----------------------------------------------------------------------------
Apart(s, t) == s.to <= t.from \/ t.to <= s.from

(* No two objects of the stable region share a word, all lie inside it and *)
(* start at a multiple of their alignment from its beginning: what         *)
(* allocate_immutable answers is space nobody else was given.              *)
StableApart ==
  /\ \A i, j \in DOMAIN stable : i # j => Apart(stable[i], stable[j])
  /\ \A i \in DOMAIN stable :
       stable[i].to <= StableCapacity /\ stable[i].from % stable[i].align = 0

(* What alloc_aligned has handed out since the last reset is apart, at an  *)
(* aligned address and inside its chunk: also when a new chunk starts at   *)
(* an address that does not suit the request, or reaches its largest size. *)
ArenaApart ==
  /\ \A i, j \in DOMAIN lent :
       i # j /\ lent[i].chunk = lent[j].chunk => Apart(lent[i], lent[j])
  /\ \A i \in DOMAIN lent :
       LET chunk == chunks[lent[i].chunk] IN
       /\ lent[i].to <= chunk.used
       /\ chunk.used <= chunk.size
       /\ (chunk.base + lent[i].from) % lent[i].align = 0
=============================================================================
