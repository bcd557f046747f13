------------------------------ MODULE Dispatch ------------------------------
(***************************************************************************)
(* Module loading, hot replacement and function lookup of dala_dispatch.   *)
(* Threads share one DispatchManager, which has no lock of its own: what   *)
(* is atomic is one access to one concurrent map, so register_module is a  *)
(* step per export and one for the module itself.                          *)
(*                                                                         *)
(* A compiled version of a module is a name and a list of exports; its     *)
(* code pointer for an export is written as the version itself.  The lazy  *)
(* references belong to one copy of a module and are set all together      *)
(* before the copy is shared, or never: a flag of the copy.                *)
(***************************************************************************)
EXTENDS Naturals, Sequences, Functions

CONSTANTS
  Names,          (* module names                                           *)
  Keys,           (* <<function, arity>> pairs                              *)
  Versions,       (* compiled modules                                       *)
  NameOf,         (* NameOf[v]: the module v is a version of                *)
  Exports,        (* Exports[v]: its exports, in order                      *)
  Loaders,        (* threads that load code                                 *)
  None

ASSUME DispatchAssumption ==
  /\ NameOf \in [Versions -> Names]
  /\ Exports \in [Versions -> Seq(Keys)]
  /\ None \notin Versions

VARIABLES
  export_table,   (* export_table[n][k]: version whose code lookup returns  *)
  modules,        (* DispatchManager::modules                               *)
  doing,          (* doing[l]: what loader l is in the middle of            *)
  loading,        (* the version it is loading, or None                     *)
  done,           (* exports it has registered so far                       *)
  registered,     (* history: the last version register_module finished     *)
  overlapped      (* history: names two loaders were at work on at once     *)

loader == <<doing, loading, done>>
vars == <<export_table, modules, loader, registered, overlapped>>

Copy == [version : Versions, resolved : BOOLEAN]
Exported(v) == Range(Exports[v])

Init ==
  /\ export_table = [n \in Names |-> [k \in Keys |-> None]]
  /\ modules = [n \in Names |-> <<>>]
  /\ doing = [l \in Loaders |-> "nothing"]
  /\ loading = [l \in Loaders |-> None]
  /\ done = [l \in Loaders |-> 0]
  /\ registered = [n \in Names |-> None]
  /\ overlapped = {}

Busy(n) == \E l \in Loaders : loading[l] # None /\ NameOf[loading[l]] = n

Begin(l, v, what) ==
  /\ doing[l] = "nothing"
  /\ doing' = [doing EXCEPT ![l] = what]
  /\ loading' = [loading EXCEPT ![l] = v]
  /\ done' = [done EXCEPT ![l] = 0]
  /\ overlapped' = IF Busy(NameOf[v]) THEN overlapped \cup {NameOf[v]} ELSE overlapped
  /\ UNCHANGED registered

Return(l) ==
  /\ doing' = [doing EXCEPT ![l] = "nothing"]
  /\ loading' = [loading EXCEPT ![l] = None]
  /\ done' = [done EXCEPT ![l] = 0]
  /\ UNCHANGED overlapped

(* Seeded fault: the map forgets whose copy it is.                         *)
Install_AllNames(map, v, resolved) ==
  [n \in Names |-> <<[version |-> v, resolved |-> resolved]>>]

(* Insertion in a map that holds at most one copy per name.                *)
Install(map, v, resolved) ==
  [map EXCEPT ![NameOf[v]] = <<[version |-> v, resolved |-> resolved]>>]

-----------------------------------------------------------------------------
(* register_module: every export, then the module, whose references keep   *)
(* the null they were made with.  Exports of an older version stay.        *)

(* Seeded fault: the old exports are withdrawn before the new are entered. *)
StartRegister_Withdraws(l, v) ==
  /\ Begin(l, v, "register")
  /\ export_table' = [export_table EXCEPT ![NameOf[v]] = [k \in Keys |-> None]]
  /\ UNCHANGED modules

StartRegister(l, v) ==
  /\ Begin(l, v, "register")
  /\ UNCHANGED <<export_table, modules>>

(* Seeded fault: an export that is already there is left as it is.         *)
Entered_KeepsOld(v, k) ==
  [export_table EXCEPT ![NameOf[v]][k] = IF @ = None THEN v ELSE @]

Entered(v, k) == [export_table EXCEPT ![NameOf[v]][k] = v]

RegisterExport(l) ==
  LET v == loading[l] IN
  /\ doing[l] = "register"
  /\ done[l] < Len(Exports[v])
  /\ export_table' = Entered(v, Exports[v][done[l] + 1])
  /\ done' = [done EXCEPT ![l] = @ + 1]
  /\ UNCHANGED <<modules, doing, loading, registered, overlapped>>

RegisterModule(l) ==
  LET v == loading[l] IN
  /\ doing[l] = "register"
  /\ done[l] = Len(Exports[v])
  /\ modules' = Install(modules, v, FALSE)
  /\ registered' = [registered EXCEPT ![NameOf[v]] = v]
  /\ Return(l)
  /\ UNCHANGED export_table

-----------------------------------------------------------------------------
(* hot_replace: refused when the exports are not the same list; otherwise  *)
(* the references of the new copy are set and the copy is inserted.  The   *)
(* export table is not touched.                                            *)

(* Seeded fault: the new exports only have to include the old ones' keys.  *)
SameExports_Fewer(v) ==
  \A i \in DOMAIN modules[NameOf[v]] :
    Exported(modules[NameOf[v]][i].version) \subseteq Exported(v)

SameExports(v) ==
  \A i \in DOMAIN modules[NameOf[v]] : Exports[modules[NameOf[v]][i].version] = Exports[v]

Validate(l, v) ==
  /\ SameExports(v)
  /\ Begin(l, v, "replace")
  /\ UNCHANGED <<export_table, modules>>

ExportMismatch(l, v) ==
  /\ doing[l] = "nothing"
  /\ ~SameExports(v)
  /\ UNCHANGED vars

Replace(l) ==
  /\ doing[l] = "replace"
  /\ modules' = Install(modules, loading[l], TRUE)
  /\ Return(l)
  /\ UNCHANGED <<export_table, registered>>

-----------------------------------------------------------------------------
Next ==
  \/ \E l \in Loaders, v \in Versions :
       StartRegister(l, v) \/ Validate(l, v) \/ ExportMismatch(l, v)
  \/ \E l \in Loaders : RegisterExport(l) \/ RegisterModule(l) \/ Replace(l)

Spec == Init /\ [][Next]_vars

-----------------------------------------------------------------------------
(* Every map holds what its type allows, each entry under its own name.    *)
TypeOK ==
  /\ export_table \in [Names -> [Keys -> Versions \cup {None}]]
  /\ DOMAIN modules = Names
  /\ \A n \in Names :
       modules[n] # <<>> => \E c \in Copy : modules[n] = <<c>> /\ NameOf[c.version] = n
  /\ doing \in [Loaders -> {"nothing", "register", "replace"}]
  /\ loading \in [Loaders -> Versions \cup {None}]
  /\ \A l \in Loaders : doing[l] = "nothing" <=> loading[l] = None
  /\ done \in [Loaders -> Nat]
  /\ registered \in [Names -> Versions \cup {None}]
  /\ overlapped \subseteq Names

(* A name that no two loaders were ever at work on at the same time, and   *)
(* that nobody is loading now.                                             *)
Settled(n) == n \notin overlapped /\ ~Busy(n)

Current(n) == modules[n][1].version

(* Whatever else is being loaded, lookup_function answers every export of  *)
(* the version last given to register_module with that version's code.     *)
LookupFindsRegistered ==
  \A n \in Names : Settled(n) /\ registered[n] # None =>
    \A k \in Exported(registered[n]) : export_table[n][k] = registered[n]

(* The last step of the hot loading procedure of docs/dala_dispatch.md: as *)
(* long as the module was registered once, each export of the version now  *)
(* in place is found.  It rests on hot_replace's comparison of exports.    *)
VerifyFindsExports ==
  \A n \in Names : Settled(n) /\ registered[n] # None =>
    \A k \in Exported(Current(n)) : export_table[n][k] # None

(* No load, finished or under way, makes a function that could be called   *)
(* unknown for a while.                                                    *)
NoGap ==
  [][\A n \in Names, k \in Keys :
       export_table[n][k] # None => export_table'[n][k] # None]_vars

(* The protocol's last step, "Old code continues running; new calls use    *)
(* new code" (docs/dala_dispatch.md): once a load has returned, lookup     *)
(* answers with the version in place.                                      *)
NewCallsUseNewCode ==
  \A n \in Names : Settled(n) /\ registered[n] # None =>
    \A k \in Exported(Current(n)) : export_table[n][k] = Current(n)
=============================================================================
