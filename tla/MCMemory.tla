------------------------------ MODULE MCMemory ------------------------------
(***************************************************************************)
(* What processes share, and the heap each has, for TLC.  The memory       *)
(* regions, the resources, the bump allocators, the heap of a process, the *)
(* atom table and the registries share no state and call nothing of each   *)
(* other, so a behaviour that mixes their steps shows no more than one for *)
(* each: `tier` picks the one that moves, and the state space is their sum *)
(* and not their product.                                                  *)
(***************************************************************************)
EXTENDS Regions, Resources, Bump, Heap, Tables, TLC

CONSTANTS t1, t2, x1, x2, x3, x4, a1, a2, a3

VARIABLE tier

memoryVars == <<tier, regionVars, resourceVars, bumpVars, heapVars, tableVars>>

MCThreads == {t1, t2}
MCRefs == {x1, x2, x3, x4}
MCAddresses == {a1, a2, a3}
MCStandard == <<"nil", "true">>
MCNames == {"nil", "true", "hello", "world"}
MCRequests == {<<1, 1>>, <<2, 2>>, <<3, 4>>, <<5, 1>>}
MCSymmetry ==
  Permutations(MCThreads) \cup Permutations(MCRefs) \cup Permutations(MCAddresses)

Init ==
  /\ tier \in {"regions", "resources", "stable", "arena", "heap", "atoms", "handles"}
  /\ RegionsInit /\ ResourcesInit /\ BumpInit /\ HeapInit /\ TablesInit

Regions_only   == UNCHANGED <<resourceVars, bumpVars, heapVars, tableVars>>
Resources_only == UNCHANGED <<regionVars, bumpVars, heapVars, tableVars>>
Bump_only      == UNCHANGED <<regionVars, resourceVars, heapVars, tableVars>>
Heap_only      == UNCHANGED <<regionVars, resourceVars, bumpVars, tableVars>>
Tables_only    == UNCHANGED <<regionVars, resourceVars, bumpVars, heapVars>>

Next ==
  /\ \/ tier = "regions"   /\ RegionsNext   /\ Regions_only
     \/ tier = "resources" /\ ResourcesNext /\ Resources_only
     \/ tier = "stable"    /\ StableNext    /\ Bump_only
     \/ tier = "arena"     /\ ArenaNext     /\ Bump_only
     \/ tier = "heap"      /\ HeapNext      /\ Heap_only
     \/ tier = "atoms"     /\ AtomsNext     /\ Tables_only /\ UNCHANGED handleVars
     \/ tier = "handles"   /\ HandlesNext   /\ Tables_only /\ UNCHANGED atomVars
  /\ UNCHANGED tier

Spec == Init /\ [][Next]_memoryVars
=============================================================================
