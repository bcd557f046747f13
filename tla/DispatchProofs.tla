--------------------------- MODULE DispatchProofs ---------------------------
(***************************************************************************)
(* Proofs about Dispatch, for any number of loaders, modules, versions and *)
(* exports.                                                                *)
(*                                                                         *)
(* What the table holds for a module is only known while nobody loads it,  *)
(* so the invariants follow a load: EntersInOrder says how far a loader    *)
(* has come, StillTheSame that the module a replacement was compared with  *)
(* is still in place.  Both rest on Alone: a name never overlapped has one *)
(* loader at work at most.                                                 *)
(***************************************************************************)
EXTENDS Dispatch, TLAPS

Working(l, n) == loading[l] # None /\ NameOf[loading[l]] = n

Alone ==
  \A n \in Names \ overlapped : \A l, k \in Loaders :
    Working(l, n) /\ Working(k, n) => l = k

(* A loader in the middle of a registration has entered the exports before *)
(* done[l], and they are still its own.                                    *)
EntersInOrder ==
  \A l \in Loaders : doing[l] = "register" =>
    \A n \in Names \ overlapped : Working(l, n) =>
      \A i \in DOMAIN Exports[loading[l]] :
        i <= done[l] => export_table[n][Exports[loading[l]][i]] = loading[l]

Registering(n) == \E l \in Loaders : doing[l] = "register" /\ Working(l, n)

(* LookupFindsRegistered, also while a replacement is under way.           *)
TableCurrent ==
  \A n \in Names \ overlapped : registered[n] # None /\ ~Registering(n) =>
    \A k \in Exported(registered[n]) : export_table[n][k] = registered[n]

ModuleThere == \A n \in Names : registered[n] # None => modules[n] # <<>>

StillTheSame ==
  \A l \in Loaders : doing[l] = "replace" =>
    \A n \in Names \ overlapped : Working(l, n) /\ registered[n] # None =>
      Exports[Current(n)] = Exports[loading[l]]

(* VerifyFindsExports at every moment, not only when nobody is loading.    *)
ExportsEntered ==
  \A n \in Names \ overlapped : registered[n] # None =>
    \A k \in Exported(Current(n)) : export_table[n][k] # None

IInv ==
  /\ TypeOK
  /\ Alone
  /\ EntersInOrder
  /\ TableCurrent
  /\ ModuleThere
  /\ StillTheSame
  /\ ExportsEntered

-----------------------------------------------------------------------------
(* The exports of a version are keys.                                      *)
LEMMA ExportsAreKeys ==
  ASSUME NEW v \in Versions
  PROVE  /\ Exports[v] \in Seq(Keys) /\ NameOf[v] \in Names /\ v # None
         /\ Len(Exports[v]) \in Nat
         /\ DOMAIN Exports[v] = 1 .. Len(Exports[v])
         /\ \A i \in DOMAIN Exports[v] : Exports[v][i] \in Exported(v)
         /\ \A k \in Exported(v) : \E i \in DOMAIN Exports[v] : Exports[v][i] = k
         /\ Exported(v) \subseteq Keys
<1>1. Exports[v] \in Seq(Keys) /\ NameOf[v] \in Names /\ v # None
  BY DispatchAssumption
<1>2. /\ Len(Exports[v]) \in Nat /\ DOMAIN Exports[v] = 1 .. Len(Exports[v])
      /\ \A i \in 1 .. Len(Exports[v]) : Exports[v][i] \in Keys
  BY <1>1
<1> QED
  BY <1>1, <1>2 DEF Exported, Range

LEMMA InitInvariant == Init => IInv
<1> SUFFICES ASSUME Init PROVE IInv
  OBVIOUS
<1>1. TypeOK
  BY DEF Init, TypeOK
<1>2. Alone /\ EntersInOrder /\ TableCurrent /\ ModuleThere /\ StillTheSame /\ ExportsEntered
  BY DEF Init, Alone, EntersInOrder, TableCurrent, ModuleThere, StillTheSame, ExportsEntered, Working
<1> QED
  BY <1>1, <1>2 DEF IInv

-----------------------------------------------------------------------------
(* A load begins: nothing but the loader and the record of overlaps moves. *)
LEMMA BeginStep ==
  ASSUME IInv, NEW l \in Loaders, NEW v \in Versions, NEW what \in {"register", "replace"},
         Begin(l, v, what), UNCHANGED <<export_table, modules>>,
         what = "replace" => SameExports(v)
  PROVE  IInv'
<1> USE DEF IInv, Begin
<1>0. NameOf[v] \in Names /\ v # None
  BY ExportsAreKeys
<1>1. /\ doing' = [doing EXCEPT ![l] = what] /\ loading' = [loading EXCEPT ![l] = v]
      /\ done' = [done EXCEPT ![l] = 0] /\ registered' = registered
      /\ overlapped \subseteq overlapped'
      /\ Busy(NameOf[v]) => NameOf[v] \in overlapped'
  OBVIOUS
<1>2. TypeOK'
  BY <1>0 DEF TypeOK
<1>3. \A k \in Loaders : k # l =>
        doing'[k] = doing[k] /\ loading'[k] = loading[k] /\ done'[k] = done[k]
  BY DEF TypeOK
<1>4. doing'[l] = what /\ loading'[l] = v /\ done'[l] = 0 /\ loading[l] = None
  BY DEF TypeOK
<1>5. \A n \in Names \ overlapped', k \in Loaders :
        Working(k, n)' => (k = l /\ n = NameOf[v]) \/ (k # l /\ n # NameOf[v] /\ Working(k, n))
  BY <1>1, <1>3, <1>4 DEF Working, Busy
<1>6. Alone'
  BY <1>1, <1>5 DEF Alone
<1>7. EntersInOrder'
  <2> SUFFICES ASSUME NEW k \in Loaders, doing'[k] = "register",
                      NEW n \in Names \ overlapped', Working(k, n)',
                      NEW i \in DOMAIN Exports[loading'[k]], i <= done'[k]
               PROVE  export_table'[n][Exports[loading'[k]][i]] = loading'[k]
    BY DEF EntersInOrder
  <2>1. CASE k = l
    BY <1>4, <2>1, ExportsAreKeys
  <2>2. CASE k # l
    BY <1>1, <1>3, <1>5, <2>2 DEF EntersInOrder
  <2> QED
    BY <2>1, <2>2
<1>8. TableCurrent'
  <2> SUFFICES ASSUME NEW n \in Names \ overlapped', registered[n] # None, ~Registering(n)',
                      NEW k \in Exported(registered[n])
               PROVE  export_table[n][k] = registered[n]
    BY <1>1 DEF TableCurrent
  <2>1. ~Registering(n)
    BY <1>3, <1>4 DEF Registering, Working
  <2> QED
    BY <1>1, <2>1 DEF TableCurrent
<1>9. ModuleThere' /\ ExportsEntered'
  BY <1>1 DEF ModuleThere, ExportsEntered, Current
<1>10. StillTheSame'
  <2> SUFFICES ASSUME NEW k \in Loaders, doing'[k] = "replace",
                      NEW n \in Names \ overlapped', Working(k, n)', registered[n] # None
               PROVE  Exports[Current(n)] = Exports[loading'[k]]
    BY <1>1 DEF StillTheSame, Current
  <2>1. CASE k = l
    <3>1. n = NameOf[v] /\ SameExports(v)
      BY <1>4, <2>1 DEF Working
    <3>2. \E c \in Copy : modules[n] = <<c>>
      BY DEF ModuleThere, TypeOK
    <3> QED
      BY <1>4, <2>1, <3>1, <3>2 DEF SameExports, Current
  <2>2. CASE k # l
    BY <1>1, <1>3, <1>5, <2>2 DEF StillTheSame
  <2> QED
    BY <2>1, <2>2
<1> QED
  BY <1>2, <1>6, <1>7, <1>8, <1>9, <1>10

-----------------------------------------------------------------------------
(* An export is entered: it is the next one of the only loader at work on  *)
(* its module, so what was entered before stays.                           *)
LEMMA RegisterExportStep ==
  ASSUME IInv, NEW l \in Loaders, RegisterExport(l)
  PROVE  IInv'
<1> DEFINE v == loading[l]
           m == NameOf[v]
           key == Exports[v][done[l] + 1]
<1>1. /\ doing[l] = "register" /\ v \in Versions /\ done[l] \in Nat
      /\ done[l] < Len(Exports[v])
      /\ export_table' = [export_table EXCEPT ![m][key] = v]
      /\ done' = [done EXCEPT ![l] = @ + 1]
      /\ UNCHANGED <<modules, doing, loading, registered, overlapped>>
  BY DEF IInv, TypeOK, RegisterExport, Entered
<1>2. /\ m \in Names /\ v # None /\ Len(Exports[v]) \in Nat
      /\ DOMAIN Exports[v] = 1 .. Len(Exports[v])
      /\ key \in Keys
  <2>1. done[l] + 1 \in DOMAIN Exports[v]
    BY <1>1, ExportsAreKeys
  <2> QED
    BY <1>1, <2>1, ExportsAreKeys
<1>3. export_table \in [Names -> [Keys -> Versions \cup {None}]]
  BY DEF IInv, TypeOK
<1>4. /\ \A n \in Names, k \in Keys :
           export_table'[n][k] = IF n = m /\ k = key THEN v ELSE export_table[n][k]
      /\ export_table' \in [Names -> [Keys -> Versions \cup {None}]]
  BY <1>1, <1>2, <1>3
<1>5. TypeOK'
  BY <1>1, <1>4 DEF IInv, TypeOK
<1>6. /\ \A k \in Loaders, n \in Names : Working(k, n)' <=> Working(k, n)
      /\ Working(l, m) /\ Registering(m)
      /\ \A n \in Names : Registering(n)' <=> Registering(n)
  BY <1>1, <1>2 DEF Working, Registering
<1>7. Alone'
  BY <1>1, <1>6 DEF IInv, Alone
<1>8. EntersInOrder'
  <2> SUFFICES ASSUME NEW k \in Loaders, doing[k] = "register",
                      NEW n \in Names \ overlapped, Working(k, n),
                      NEW i \in DOMAIN Exports[loading[k]], i <= done'[k]
               PROVE  export_table'[n][Exports[loading[k]][i]] = loading[k]
    BY <1>1, <1>6 DEF EntersInOrder
  <2>1. /\ loading[k] \in Versions /\ Exports[loading[k]][i] \in Keys
        /\ i \in Nat
    BY ExportsAreKeys DEF IInv, TypeOK, Working
  <2>2. CASE k = l
    <3>1. n = m
      BY <2>2 DEF Working
    <3>2. i <= done[l] \/ i = done[l] + 1
      BY <1>1, <2>1, <2>2 DEF IInv, TypeOK
    <3>3. i <= done[l] => export_table[n][Exports[v][i]] = v
      BY <1>1, <2>2 DEF IInv, EntersInOrder
    <3> QED
      BY <1>4, <2>1, <2>2, <3>1, <3>2, <3>3
  <2>3. CASE k # l
    <3>1. n # m
      BY <1>6, <2>3 DEF IInv, Alone
    <3>2. done'[k] = done[k]
      BY <1>1, <2>3 DEF IInv, TypeOK
    <3>3. export_table[n][Exports[loading[k]][i]] = loading[k]
      BY <3>2 DEF IInv, EntersInOrder
    <3> QED
      BY <1>4, <2>1, <3>1, <3>3
  <2> QED
    BY <2>2, <2>3
<1>9. TableCurrent'
  <2> SUFFICES ASSUME NEW n \in Names \ overlapped, registered[n] # None, ~Registering(n),
                      NEW k \in Exported(registered[n])
               PROVE  export_table'[n][k] = registered[n]
    BY <1>1, <1>6 DEF TableCurrent
  <2>1. k \in Keys
    BY ExportsAreKeys DEF IInv, TypeOK
  <2>2. n # m
    BY <1>6
  <2> QED
    BY <1>4, <2>1, <2>2 DEF IInv, TableCurrent
<1>10. ModuleThere' /\ StillTheSame'
  BY <1>1, <1>6 DEF IInv, ModuleThere, StillTheSame, Current
<1>11. ExportsEntered'
  <2> SUFFICES ASSUME NEW n \in Names \ overlapped, registered[n] # None,
                      NEW k \in Exported(Current(n))
               PROVE  export_table'[n][k] # None
    BY <1>1 DEF ExportsEntered, Current
  <2>1. Current(n) \in Versions
    BY DEF IInv, ModuleThere, TypeOK, Current, Copy
  <2>2. k \in Keys
    BY <2>1, ExportsAreKeys
  <2> QED
    BY <1>2, <1>4, <2>2 DEF IInv, ExportsEntered
<1> QED
  BY <1>5, <1>7, <1>8, <1>9, <1>10, <1>11 DEF IInv

-----------------------------------------------------------------------------
(* What a load that returns leaves of the others: they go on as before.    *)
LEMMA OthersGoOn ==
  ASSUME IInv, NEW l \in Loaders, Return(l)
  PROVE  /\ doing' \in [Loaders -> {"nothing", "register", "replace"}]
         /\ loading' \in [Loaders -> Versions \cup {None}]
         /\ done' \in [Loaders -> Nat]
         /\ \A k \in Loaders : doing'[k] = "nothing" <=> loading'[k] = None
         /\ \A k \in Loaders : k # l =>
              doing'[k] = doing[k] /\ loading'[k] = loading[k] /\ done'[k] = done[k]
         /\ loading'[l] = None /\ doing'[l] = "nothing" /\ overlapped' = overlapped
         /\ \A k \in Loaders, n \in Names : Working(k, n)' => k # l /\ Working(k, n)
         /\ Alone'
<1>1. /\ doing' \in [Loaders -> {"nothing", "register", "replace"}]
      /\ loading' \in [Loaders -> Versions \cup {None}]
      /\ done' \in [Loaders -> Nat]
      /\ \A k \in Loaders : k # l =>
              doing'[k] = doing[k] /\ loading'[k] = loading[k] /\ done'[k] = done[k]
      /\ loading'[l] = None /\ doing'[l] = "nothing" /\ overlapped' = overlapped
  BY DEF IInv, TypeOK, Return
<1>2. \A k \in Loaders : doing'[k] = "nothing" <=> loading'[k] = None
  BY <1>1 DEF IInv, TypeOK
<1>3. \A k \in Loaders, n \in Names : Working(k, n)' => k # l /\ Working(k, n)
  BY <1>1 DEF Working
<1>4. Alone'
  BY <1>1, <1>3 DEF IInv, Alone
<1> QED
  BY <1>1, <1>2, <1>3, <1>4

(* One copy is put in the place of its module's.                           *)
LEMMA Installed ==
  ASSUME IInv, NEW v \in Versions, NEW resolved \in BOOLEAN,
         modules' = Install(modules, v, resolved)
  PROVE  /\ DOMAIN modules' = Names
         /\ \A n \in Names :
              modules'[n] # <<>> => \E c \in Copy : modules'[n] = <<c>> /\ NameOf[c.version] = n
         /\ modules'[NameOf[v]] # <<>> /\ modules'[NameOf[v]][1].version = v
         /\ \A n \in Names \ {NameOf[v]} : modules'[n] = modules[n]
<1> DEFINE c == [version |-> v, resolved |-> resolved]
<1>1. NameOf[v] \in Names /\ c \in Copy /\ c.version = v
  BY ExportsAreKeys DEF Copy
<1>2. /\ DOMAIN modules' = Names /\ modules'[NameOf[v]] = <<c>>
      /\ \A n \in Names \ {NameOf[v]} : modules'[n] = modules[n]
  BY <1>1 DEF IInv, TypeOK, Install
<1>3. <<c>> # <<>> /\ <<c>>[1] = c
  OBVIOUS
<1> HIDE DEF c
<1>4. modules'[NameOf[v]][1].version = v
  BY <1>1, <1>2, <1>3
<1>5. \A n \in Names :
        modules'[n] # <<>> => \E d \in Copy : modules'[n] = <<d>> /\ NameOf[d.version] = n
  BY <1>1, <1>2 DEF IInv, TypeOK
<1> QED
  BY <1>2, <1>3, <1>4, <1>5

(* register_module ends: by now every export is its own.                   *)
LEMMA RegisterModuleStep ==
  ASSUME IInv, NEW l \in Loaders, RegisterModule(l)
  PROVE  IInv'
<1> DEFINE v == loading[l]
           m == NameOf[v]
<1>1. /\ doing[l] = "register" /\ v \in Versions /\ done[l] = Len(Exports[v])
      /\ modules' = Install(modules, v, FALSE)
      /\ registered' = [registered EXCEPT ![m] = v]
      /\ export_table' = export_table /\ overlapped' = overlapped
  BY DEF IInv, TypeOK, RegisterModule, Return
<1>2. m \in Names /\ v # None /\ Working(l, m)
  BY <1>1, ExportsAreKeys DEF Working
<1>3. Return(l)
  BY DEF RegisterModule
<1>4. /\ registered' \in [Names -> Versions \cup {None}] /\ registered'[m] = v
      /\ \A n \in Names \ {m} : registered'[n] = registered[n]
  BY <1>1, <1>2 DEF IInv, TypeOK
<1>5. TypeOK'
  BY <1>1, <1>3, <1>4, OthersGoOn, Installed DEF IInv, TypeOK
<1>6. ASSUME NEW k \in Exported(v), m \notin overlapped
      PROVE  export_table[m][k] = v
  <2>1. PICK i \in DOMAIN Exports[v] : Exports[v][i] = k
    BY <1>1, ExportsAreKeys
  <2>2. i <= done[l]
    BY <1>1, <2>1, ExportsAreKeys
  <2> QED
    BY <1>1, <1>2, <1>6, <2>1, <2>2 DEF IInv, EntersInOrder
<1>14. /\ modules'[m] # <<>> /\ modules'[m][1].version = v
      /\ \A n \in Names \ {m} : modules'[n] = modules[n]
  BY <1>1, Installed
<1>7. \A n \in Names \ overlapped : Working(l, n) => n = m
  BY DEF Working
<1>8. EntersInOrder'
  BY <1>1, <1>3, OthersGoOn DEF IInv, EntersInOrder
<1>9. TableCurrent'
  <2> SUFFICES ASSUME NEW n \in Names \ overlapped, registered'[n] # None, ~Registering(n)',
                      NEW k \in Exported(registered'[n])
               PROVE  export_table[n][k] = registered'[n]
    BY <1>1 DEF TableCurrent, Exported
  <2>1. CASE n = m
    BY <1>4, <1>6, <2>1
  <2>2. CASE n # m
    <3>1. ~Registering(n)
      BY <1>3, <1>7, <2>2, OthersGoOn DEF Registering, Working
    <3> QED
      BY <1>4, <2>2, <3>1 DEF IInv, TableCurrent
  <2> QED
    BY <2>1, <2>2
<1>10. ModuleThere'
  BY <1>1, <1>4, <1>14 DEF IInv, ModuleThere
<1>11. StillTheSame'
  <2> SUFFICES ASSUME NEW k \in Loaders, doing'[k] = "replace", NEW n \in Names \ overlapped,
                      Working(k, n)', registered'[n] # None
               PROVE  Exports[modules'[n][1].version] = Exports[loading'[k]]
    BY <1>1 DEF StillTheSame, Current
  <2>1. k # l /\ Working(k, n) /\ doing[k] = "replace" /\ loading'[k] = loading[k]
    BY <1>3, OthersGoOn
  <2>2. n # m
    BY <1>2, <2>1 DEF IInv, Alone
  <2>3. modules'[n] = modules[n] /\ registered[n] # None
    BY <1>1, <1>4, <1>14, <2>2
  <2> QED
    BY <2>1, <2>3 DEF IInv, StillTheSame, Current
<1>12. ExportsEntered'
  <2> SUFFICES ASSUME NEW n \in Names \ overlapped, registered'[n] # None,
                      NEW k \in Range(Exports[modules'[n][1].version])
               PROVE  export_table[n][k] # None
    BY <1>1 DEF ExportsEntered, Current, Exported
  <2>1. CASE n = m
    BY <1>2, <1>6, <1>14, <2>1 DEF Exported
  <2>2. CASE n # m
    BY <1>1, <1>4, <1>14, <2>2 DEF IInv, ExportsEntered, Current, Exported
  <2> QED
    BY <2>1, <2>2
<1>13. Alone'
  BY <1>3, OthersGoOn
<1> QED
  BY <1>5, <1>8, <1>9, <1>10, <1>11, <1>12, <1>13 DEF IInv

(* hot_replace inserts: the module it was compared with is still there, so *)
(* the exports of the new one have been entered as well.                   *)
LEMMA ReplaceStep ==
  ASSUME IInv, NEW l \in Loaders, Replace(l)
  PROVE  IInv'
<1> DEFINE v == loading[l]
           m == NameOf[v]
<1>1. /\ doing[l] = "replace" /\ v \in Versions
      /\ modules' = Install(modules, v, TRUE)
      /\ registered' = registered /\ export_table' = export_table /\ overlapped' = overlapped
  BY DEF IInv, TypeOK, Replace, Return
<1>2. m \in Names /\ v # None /\ Working(l, m)
  BY <1>1, ExportsAreKeys DEF Working
<1>3. Return(l)
  BY DEF Replace
<1>4. TypeOK'
  BY <1>1, <1>3, OthersGoOn, Installed DEF IInv, TypeOK
<1>11. /\ modules'[m] # <<>> /\ modules'[m][1].version = v
      /\ \A n \in Names \ {m} : modules'[n] = modules[n]
  BY <1>1, Installed
<1>5. EntersInOrder'
  BY <1>1, <1>3, OthersGoOn DEF IInv, EntersInOrder
<1>6. TableCurrent'
  <2> SUFFICES ASSUME NEW n \in Names \ overlapped, registered[n] # None, ~Registering(n)',
                      NEW k \in Exported(registered[n])
               PROVE  export_table[n][k] = registered[n]
    BY <1>1 DEF TableCurrent
  <2>1. ~Registering(n)
    BY <1>1, <1>3, OthersGoOn DEF Registering, Working
  <2> QED
    BY <2>1 DEF IInv, TableCurrent
<1>7. ModuleThere'
  BY <1>1, <1>11 DEF IInv, ModuleThere
<1>8. StillTheSame'
  <2> SUFFICES ASSUME NEW k \in Loaders, doing'[k] = "replace", NEW n \in Names \ overlapped,
                      Working(k, n)', registered[n] # None
               PROVE  Exports[modules'[n][1].version] = Exports[loading'[k]]
    BY <1>1 DEF StillTheSame, Current
  <2>1. k # l /\ Working(k, n) /\ doing[k] = "replace" /\ loading'[k] = loading[k]
    BY <1>3, OthersGoOn
  <2>2. n # m
    BY <1>2, <2>1 DEF IInv, Alone
  <2>3. modules'[n] = modules[n]
    BY <1>11, <2>2
  <2> QED
    BY <2>1, <2>3 DEF IInv, StillTheSame, Current
<1>9. ExportsEntered'
  <2> SUFFICES ASSUME NEW n \in Names \ overlapped, registered[n] # None,
                      NEW k \in Range(Exports[modules'[n][1].version])
               PROVE  export_table[n][k] # None
    BY <1>1 DEF ExportsEntered, Current, Exported
  <2>1. CASE n = m
    <3>1. Exports[Current(m)] = Exports[v] /\ modules'[m][1].version = v
      BY <1>1, <1>2, <1>11, <2>1 DEF IInv, StillTheSame
    <3>2. k \in Exported(Current(m))
      BY <2>1, <3>1 DEF Exported
    <3> QED
      BY <2>1, <3>2 DEF IInv, ExportsEntered
  <2>2. CASE n # m
    BY <1>1, <1>11, <2>2 DEF IInv, ExportsEntered, Current, Exported
  <2> QED
    BY <2>1, <2>2
<1>10. Alone'
  BY <1>3, OthersGoOn
<1> QED
  BY <1>4, <1>5, <1>6, <1>7, <1>8, <1>9, <1>10 DEF IInv

-----------------------------------------------------------------------------
LEMMA NextStep == IInv /\ [Next]_vars => IInv'
<1> SUFFICES ASSUME IInv, [Next]_vars PROVE IInv'
  OBVIOUS
<1>1. ASSUME NEW l \in Loaders, NEW v \in Versions, StartRegister(l, v) PROVE IInv'
  BY <1>1, BeginStep DEF StartRegister
<1>2. ASSUME NEW l \in Loaders, NEW v \in Versions, Validate(l, v) PROVE IInv'
  BY <1>2, BeginStep DEF Validate
<1>3. CASE UNCHANGED vars
  BY <1>3
     DEF vars, loader, IInv, TypeOK, Alone, EntersInOrder, TableCurrent, ModuleThere,
         StillTheSame, ExportsEntered, Working, Registering, Current
<1>4. ASSUME NEW l \in Loaders, NEW v \in Versions, ExportMismatch(l, v) PROVE IInv'
  BY <1>3, <1>4 DEF ExportMismatch
<1>5. ASSUME NEW l \in Loaders, RegisterExport(l) \/ RegisterModule(l) \/ Replace(l) PROVE IInv'
  BY <1>5, RegisterExportStep, RegisterModuleStep, ReplaceStep
<1> QED
  BY <1>1, <1>2, <1>3, <1>4, <1>5 DEF Next

(* The invariant holds in every state a run of the loaders reaches.        *)
THEOREM DispatchInvariant == Spec => []IInv
<1> QED
  BY InitInvariant, NextStep, PTL DEF Spec

(* Every map of the dispatch manager holds, under each name, versions of   *)
(* that module only, at every step of any number of loads.                 *)
THEOREM DispatchTypeOK == Spec => []TypeOK
<1>1. IInv => TypeOK
  BY DEF IInv
<1> QED
  BY <1>1, DispatchInvariant, PTL

(* lookup_function answers every export of the module last registered with *)
(* its code, whatever else was loaded, if its loads did not overlap.       *)
THEOREM DispatchLookupFindsRegistered == Spec => []LookupFindsRegistered
<1>1. IInv => LookupFindsRegistered
  BY DEF IInv, TableCurrent, LookupFindsRegistered, Settled, Busy, Registering, Working
<1> QED
  BY <1>1, DispatchInvariant, PTL

(* Each export of the module in place is found after any sequence of       *)
(* registrations and replacements that did not overlap.                    *)
THEOREM DispatchVerifyFindsExports == Spec => []VerifyFindsExports
<1>1. IInv => VerifyFindsExports
  BY DEF IInv, ExportsEntered, VerifyFindsExports, Settled
<1> QED
  BY <1>1, DispatchInvariant, PTL

(* A function that lookup finds is found from then on: no load, not even   *)
(* of two threads at once, takes an export away.                           *)
THEOREM DispatchNoGap == Spec => NoGap
<1>1. ASSUME IInv, [Next]_vars, NEW n \in Names, NEW k \in Keys, export_table[n][k] # None
      PROVE  export_table'[n][k] # None
  <2>1. CASE UNCHANGED export_table
    BY <1>1, <2>1
  <2>2. ASSUME NEW l \in Loaders, RegisterExport(l) PROVE export_table'[n][k] # None
    <3>1. loading[l] \in Versions /\ loading[l] # None
      BY <1>1, <2>2, DispatchAssumption DEF IInv, TypeOK, RegisterExport
    <3> QED
      BY <1>1, <2>2, <3>1 DEF IInv, TypeOK, RegisterExport, Entered
  <2> QED
    BY <1>1, <2>1, <2>2
       DEF Next, vars, StartRegister, Validate, ExportMismatch, RegisterModule, Replace
<1>2. IInv /\ [Next]_vars =>
        [\A n \in Names, k \in Keys :
           export_table[n][k] # None => export_table'[n][k] # None]_vars
  BY <1>1
<1> QED
  BY <1>2, DispatchInvariant, PTL DEF Spec, NoGap

=============================================================================
