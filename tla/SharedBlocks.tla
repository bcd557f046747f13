---------------------------- MODULE SharedBlocks ----------------------------
(***************************************************************************)
(* What a reference-counted region promises: memory is handed out only     *)
(* while nothing refers to it, stays out exactly as long as something      *)
(* does, and is given back with the last reference.                        *)
(***************************************************************************)
CONSTANTS
  Refs,           (* references that can exist at once                      *)
  Cells,          (* pieces of memory                                       *)
  Nowhere         (* what a reference not in use points to                  *)

VARIABLES
  points,         (* points[x]: the cell reference x points to              *)
  live            (* cells handed out                                       *)

sharedVars == <<points, live>>

Init ==
  /\ points = [x \in Refs |-> Nowhere]
  /\ live = {}

Obtain(x, c) ==
  /\ points[x] = Nowhere
  /\ c \notin live
  /\ points' = [points EXCEPT ![x] = c]
  /\ live' = live \cup {c}

Share(x, y) ==
  /\ points[x] # Nowhere
  /\ points[y] = Nowhere
  /\ points' = [points EXCEPT ![y] = points[x]]
  /\ UNCHANGED live

Others(x) == {points[y] : y \in Refs \ {x}}

Release(x) ==
  /\ points[x] # Nowhere
  /\ points' = [points EXCEPT ![x] = Nowhere]
  /\ live' = live \ ({points[x]} \ Others(x))

(* Everything in a set of cells is given back, references or not.          *)
Withdraw(C) ==
  /\ points' = [x \in Refs |-> IF points[x] \in C THEN Nowhere ELSE points[x]]
  /\ live' = live \ C

Next ==
  \/ \E x \in Refs, c \in Cells : Obtain(x, c)
  \/ \E x, y \in Refs : Share(x, y)
  \/ \E x \in Refs : Release(x)
  \/ \E C \in SUBSET Cells : Withdraw(C)

Spec == Init /\ [][Next]_sharedVars
=============================================================================
