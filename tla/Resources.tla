----------------------------- MODULE Resources -----------------------------
(***************************************************************************)
(* NativeResourceRegion: native handles known to actors by capability      *)
(* ids.  register draws an id from an atomic counter and enters the        *)
(* resource under a mutex, in two steps; the other calls are one critical  *)
(* section each.  A capability id is a number, so any caller may name any  *)
(* id, registered, released or not yet entered.  What release does with    *)
(* the handle of an owned resource is a comment in the code, so `owned`,   *)
(* kind and handle are left out; get and len change nothing.               *)
(***************************************************************************)
EXTENDS Naturals, FiniteSets

CONSTANTS
  Callers,        (* threads                                                *)
  Actors,         (* pids that can own a resource                           *)
  MaxId           (* bound: registrations, far below the width of the id    *)

ASSUME ResourcesAssumption == MaxId \in Nat

VARIABLES
  resources,      (* the map, a partial function from ids to entries        *)
  next_id,        (* the counter                                            *)
  entering,       (* entering[c]: the registration caller c is in           *)
  history         (* history[i]: the entry as it was registered, once it was*)

resourceVars == <<resources, next_id, entering, history>>

Entry == [shareable : BOOLEAN, owner : Actors]
Ids == 1..MaxId
NotEntering == [id |-> 0, entry |-> {}]
EnteredIds == DOMAIN history

ResourcesInit ==
  /\ resources = <<>>
  /\ next_id = 1
  /\ entering = [c \in Callers |-> NotEntering]
  /\ history = <<>>

(* Seeded fault: ids are the number of resources there are, plus one.      *)
DrawId_BySize(c, e) ==
  /\ entering[c] = NotEntering
  /\ next_id <= MaxId
  /\ entering' = [entering EXCEPT ![c] = [id |-> Cardinality(DOMAIN resources) + 1, entry |-> e]]
  /\ next_id' = next_id + 1
  /\ UNCHANGED <<resources, history>>

DrawId(c, e) ==
  /\ entering[c] = NotEntering
  /\ next_id <= MaxId
  /\ entering' = [entering EXCEPT ![c] = [id |-> next_id, entry |-> e]]
  /\ next_id' = next_id + 1
  /\ UNCHANGED <<resources, history>>

(* A partial function with one more argument, or another value there.      *)
With(f, i, e) == [j \in DOMAIN f \cup {i} |-> IF j = i THEN e ELSE f[j]]
Without(f, i) == [j \in DOMAIN f \ {i} |-> f[j]]

Enter(c) ==
  LET i == entering[c].id
      e == entering[c].entry
  IN
  /\ entering[c] # NotEntering
  /\ resources' = With(resources, i, e)
  /\ history' = With(history, i, e)
  /\ entering' = [entering EXCEPT ![c] = NotEntering]
  /\ UNCHANGED next_id

(* release of an id that is not there answers false and changes nothing.   *)
Release(i) ==
  /\ resources' = Without(resources, i)
  /\ UNCHANGED <<next_id, entering, history>>

(* Seeded fault: the owner is set before the check that may refuse.        *)
MayTransfer_Always(i, actor) == i \in DOMAIN resources

(* A resource that is not shareable can only be given to who has it.       *)
MayTransfer(i, actor) ==
  /\ i \in DOMAIN resources
  /\ resources[i].shareable \/ resources[i].owner = actor

Transfer(i, actor) ==
  /\ MayTransfer(i, actor)
  /\ resources' = [resources EXCEPT ![i].owner = actor]
  /\ UNCHANGED <<next_id, entering, history>>

ResourcesNext ==
  \/ \E c \in Callers, e \in Entry : DrawId(c, e)
  \/ \E c \in Callers : Enter(c)
  \/ \E i \in Ids : Release(i)
  \/ \E i \in Ids, actor \in Actors : Transfer(i, actor)

ResourcesSpec == ResourcesInit /\ [][ResourcesNext]_resourceVars

-----------------------------------------------------------------------------
(* A capability keeps meaning the resource it was drawn for: whatever is   *)
(* registered, transferred and released around it, the entry found under   *)
(* an id is the registered one, and one that is not shareable is still its *)
(* first owner's.                                                          *)
CapabilityKept ==
  \A i \in DOMAIN resources :
    /\ i \in EnteredIds
    /\ resources[i].shareable = history[i].shareable
    /\ ~resources[i].shareable => resources[i].owner = history[i].owner

(* An id is never given to two resources, so a released capability stays   *)
(* dead: nothing enters under an id that was entered before.               *)
NoRevival ==
  [][\A i \in EnteredIds : i \in DOMAIN resources' => i \in DOMAIN resources]_resourceVars
=============================================================================
