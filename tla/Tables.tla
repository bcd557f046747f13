------------------------------- MODULE Tables -------------------------------
(***************************************************************************)
(* The tables that give a number for a thing: the atom table, the port     *)
(* registry and the model registry.  Any number of threads use them.  An   *)
(* atom is looked up under one lock and entered under others after the     *)
(* first was released; a port gets its id and its entry under two locks    *)
(* held together; a model's id comes from an atomic counter, before the    *)
(* lock.  Each critical section is a step.                                 *)
(*                                                                         *)
(* Numbers are never reused.  Lookups change nothing and are left out, as  *)
(* are the messages of a port and the memory of models, which is zero in   *)
(* the code.                                                               *)
(***************************************************************************)
EXTENDS Naturals, Sequences, FiniteSets

CONSTANTS
  Clients,        (* threads                                                *)
  Standard,       (* the atoms every table starts with, in order            *)
  Names,          (* other names that are asked for                         *)
  Things,         (* ports and models, as who registers them tells them     *)
  Nobody,         (* no name                                                *)
  MaxHandles      (* bound: ports, and models, registered                   *)

ASSUME TablesAssumption ==
  /\ Standard \in Seq(Names)
  /\ \A i, j \in DOMAIN Standard : Standard[i] = Standard[j] => i = j
  /\ Nobody \notin Names /\ Nobody \notin Things
  /\ MaxHandles \in Nat

VARIABLES
  names,          (* AtomTable::names                                       *)
  indices,        (* AtomTable::indices, a partial function                 *)
  asking,         (* asking[c]: the name c did not find under the read lock *)
  told,           (* history: <<name, index>> pairs answered                *)
  ports, models,  (* the registries, partial functions                      *)
  next_port,
  next_model,
  loading,        (* loading[c]: the id drawn by c, and its model           *)
  handles         (* history: <<registry, id, thing>> given out             *)

atomVars   == <<names, indices, asking, told>>
handleVars == <<ports, models, next_port, next_model, loading, handles>>
tableVars  == <<atomVars, handleVars>>

NotLoading == [id |-> 0, thing |-> Nobody]

TablesInit ==
  /\ names = Standard
  /\ indices = [n \in {Standard[i] : i \in DOMAIN Standard} |->
                  CHOOSE i \in 0..Len(Standard) - 1 : Standard[i + 1] = n]
  /\ asking = [c \in Clients |-> Nobody]
  /\ told = {}
  /\ ports = <<>> /\ models = <<>>
  /\ next_port = 1 /\ next_model = 1
  /\ loading = [c \in Clients |-> NotLoading]
  /\ handles = {}

-----------------------------------------------------------------------------
(* lookup_or_insert.                                                       *)

FindAtom(c, n) ==
  /\ asking[c] = Nobody
  /\ IF n \in DOMAIN indices
       THEN told' = told \cup {<<n, indices[n]>>} /\ UNCHANGED asking
       ELSE asking' = [asking EXCEPT ![c] = n] /\ UNCHANGED told
  /\ UNCHANGED <<names, indices>>

(* The table with one more name, whose index is the number of names so far *)
Enter_atom(n) ==
  /\ names' = Append(names, n)
  /\ indices' = [m \in DOMAIN indices \cup {n} |-> IF m = n THEN Len(names) ELSE indices[m]]
  /\ told' = told \cup {<<n, Len(names)>>}

(* Seeded fault: nobody looks again under the write locks.                 *)
InsertAtom_Blind(c) ==
  /\ asking[c] # Nobody
  /\ Enter_atom(asking[c])
  /\ asking' = [asking EXCEPT ![c] = Nobody]

InsertAtom(c) ==
  LET n == asking[c] IN
  /\ n # Nobody
  /\ \/ n \in DOMAIN indices
        /\ told' = told \cup {<<n, indices[n]>>}
        /\ UNCHANGED <<names, indices>>
     \/ n \notin DOMAIN indices /\ Enter_atom(n)
  /\ asking' = [asking EXCEPT ![c] = Nobody]

-----------------------------------------------------------------------------
(* The registries.                                                         *)

Put(f, i, x) == [j \in DOMAIN f \cup {i} |-> IF j = i THEN x ELSE f[j]]
Drop(f, i)   == [j \in DOMAIN f \ {i} |-> f[j]]

RegisterPort(x) ==
  /\ next_port <= MaxHandles
  /\ ports' = Put(ports, next_port, x)
  /\ handles' = handles \cup {<<"port", next_port, x>>}
  /\ next_port' = next_port + 1
  /\ UNCHANGED <<models, next_model, loading>>

RemovePort(i) ==
  /\ ports' = Drop(ports, i)
  /\ UNCHANGED <<models, next_port, next_model, loading, handles>>

DrawModelId(c, x) ==
  /\ loading[c] = NotLoading
  /\ next_model <= MaxHandles
  /\ loading' = [loading EXCEPT ![c] = [id |-> next_model, thing |-> x]]
  /\ next_model' = next_model + 1
  /\ UNCHANGED <<ports, models, next_port, handles>>

InsertModel(c) ==
  LET l == loading[c] IN
  /\ l # NotLoading
  /\ models' = Put(models, l.id, l.thing)
  /\ handles' = handles \cup {<<"model", l.id, l.thing>>}
  /\ loading' = [loading EXCEPT ![c] = NotLoading]
  /\ UNCHANGED <<ports, next_port, next_model>>

UnloadModel(i) ==
  /\ models' = Drop(models, i)
  /\ UNCHANGED <<ports, next_port, next_model, loading, handles>>

AtomsNext ==
  \/ \E c \in Clients, n \in Names : FindAtom(c, n)
  \/ \E c \in Clients : InsertAtom(c)

HandlesNext ==
  \/ \E x \in Things : RegisterPort(x)
  \/ \E i \in 1..MaxHandles : RemovePort(i) \/ UnloadModel(i)
  \/ \E c \in Clients, x \in Things : DrawModelId(c, x)
  \/ \E c \in Clients : InsertModel(c)

TablesNext ==
  \/ AtomsNext /\ UNCHANGED handleVars
  \/ HandlesNext /\ UNCHANGED atomVars

TablesSpec == TablesInit /\ [][TablesNext]_tableVars

-----------------------------------------------------------------------------
(* Two threads that intern the same name at once are told one index, and   *)
(* every index ever told still has the name it was told for: compiled code *)
(* compares atoms by their indices alone (the two maps are inverse).       *)
AtomsAgree ==
  /\ \A t \in told : t[1] \in DOMAIN indices /\ indices[t[1]] = t[2]
  /\ \A n \in DOMAIN indices : indices[n] \in 0..Len(names) - 1 /\ names[indices[n] + 1] = n
  /\ \A i \in DOMAIN names : names[i] \in DOMAIN indices /\ indices[names[i]] = i - 1

(* A port or a model found under an id is the one the id was given for.      *)
HandlesKept ==
  /\ \A i \in DOMAIN ports : \A x \in Things :
       <<"port", i, x>> \in handles => ports[i] = x
  /\ \A i \in DOMAIN models : \A x \in Things :
       <<"model", i, x>> \in handles => models[i] = x
  /\ \A h, g \in handles : h[1] = g[1] /\ h[2] = g[2] => h = g

(* A number never changes its meaning: neither an atom's index, nor a      *)
(* port's or a model's id, in whatever order threads ask, register, remove *)
(* and load.                                                               *)
NumbersKept == AtomsAgree /\ HandlesKept
=============================================================================
