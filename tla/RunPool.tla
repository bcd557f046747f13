------------------------------ MODULE RunPool ------------------------------
(***************************************************************************)
(* What the run queues and the scheduler threads promise between them: a   *)
(* pool of processes that hands each process to one worker at a time and   *)
(* never loses one.  Which process a worker is given is left open.         *)
(***************************************************************************)
CONSTANTS
  Jobs,           (* every process that can be submitted                    *)
  Workers,        (* scheduler threads                                      *)
  NoJob           (* what an idle worker holds                              *)

VARIABLES
  ready,          (* processes waiting for a worker                         *)
  held            (* held[w]: the process worker w has taken                *)

poolVars == <<ready, held>>

HeldBySome == {held[w] : w \in Workers} \ {NoJob}

Init ==
  /\ ready = {}
  /\ held = [w \in Workers |-> NoJob]

Submit(j) ==
  /\ j \notin ready \cup HeldBySome
  /\ ready' = ready \cup {j}
  /\ UNCHANGED held

Take(w, j) ==
  /\ held[w] = NoJob
  /\ j \in ready
  /\ ready' = ready \ {j}
  /\ held' = [held EXCEPT ![w] = j]

PutBack(w) ==
  /\ held[w] # NoJob
  /\ ready' = ready \cup {held[w]}
  /\ held' = [held EXCEPT ![w] = NoJob]

Next ==
  \/ \E j \in Jobs : Submit(j)
  \/ \E w \in Workers, j \in Jobs : Take(w, j)
  \/ \E w \in Workers : PutBack(w)

Spec == Init /\ [][Next]_poolVars
=============================================================================
