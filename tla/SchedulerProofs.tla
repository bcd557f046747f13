-------------------------- MODULE SchedulerProofs --------------------------
(***************************************************************************)
(* Proofs about Scheduler, for any number of scheduler threads, callers    *)
(* and processes, any mailbox room and any device reports.                 *)
(*                                                                         *)
(* OneTicket is not inductive: it takes that the pids being spawned are    *)
(* distinct and in none of the tables yet, and that the class a caller is  *)
(* about to schedule at is the one it has recorded.  SpawnsApart says so.  *)
(***************************************************************************)
EXTENDS Scheduler, SeqLemmas

Held == {job[s] : s \in {t \in Schedulers : Holds(t)}}

SpawnsApart ==
  /\ \A p \in Pid : p >= next_pid => p \notin processes
  /\ \A c \in Callers :
       /\ step[c] # "idle" => pid[c] \in 1 .. next_pid - 1
       /\ step[c] = "idle" => pid[c] = 0
       /\ step[c] = "build" => pid[c] \notin processes
       /\ step[c] \in {"class", "schedule"} => pid[c] \in processes
       /\ step[c] = "schedule" => process_qos[pid[c]] = want[c]
  /\ \A c, d \in Callers : pid[c] = pid[d] /\ pid[c] # 0 => c = d

JobsArePids ==
  \A s \in Schedulers : Holds(s) \/ pc[s] = "unlock" => job[s] \in Pid

IInv ==
  /\ TypeOK
  /\ SpawnsApart
  /\ OneTicket
  /\ ClassKept
  /\ FullQuantum
  /\ JobsArePids

-----------------------------------------------------------------------------
(* TypeOK by the groups of variables that actions change together.         *)
QueueType == queues \in [Class -> Seq(Pid)]
TableType ==
  /\ processes \in SUBSET Pid
  /\ process_qos \in [Pid -> Class \cup {None}]
  /\ next_pid \in 1 .. MaxPid + 1
ProcessType ==
  /\ holder \in [Pid -> Schedulers \cup {Nobody}]
  /\ status \in [Pid -> {"Runnable", "Running"}]
  /\ max_reductions \in [Pid -> 1 .. 2000]
  /\ reductions \in [Pid -> 0 .. 2000]
  /\ inbox \in [Pid -> 0 .. InboxRoom]
GovernorType ==
  /\ thermal \in Thermal
  /\ battery \in Battery
  /\ throttling \in BOOLEAN
  /\ flagging \in [Setters -> Thermal \cup {None}]
  /\ overlapped \in BOOLEAN
ThreadType ==
  /\ pc \in [Schedulers -> {"pick", "limit", "scan", "unlock"} \cup Holding]
  /\ attempt \in [Schedulers -> 1 .. 2]
  /\ seen \in [Schedulers -> Thermal]
  /\ left \in [Schedulers -> SUBSET Class]
  /\ job \in [Schedulers -> 0 .. MaxPid]
  /\ qos \in [Schedulers -> Class]
CallerType ==
  /\ step \in [Callers -> {"idle", "build", "class", "schedule"}]
  /\ pid \in [Callers -> 0 .. MaxPid]
  /\ want \in [Callers -> Class]

LEMMA TypeParts ==
  TypeOK <=> /\ QueueType /\ TableType /\ ProcessType
             /\ GovernorType /\ ThreadType /\ CallerType
BY DEF TypeOK, QueueType, TableType, ProcessType, GovernorType, ThreadType,
       CallerType

LEMMA TypePartsNext ==
  TypeOK' <=> /\ QueueType' /\ TableType' /\ ProcessType'
              /\ GovernorType' /\ ThreadType' /\ CallerType'
BY DEF TypeOK, QueueType, TableType, ProcessType, GovernorType, ThreadType,
       CallerType

(* A group that a step leaves alone keeps its types.                       *)
LEMMA TypeKept ==
  /\ QueueType /\ UNCHANGED queues => QueueType'
  /\ TableType /\ UNCHANGED table => TableType'
  /\ ProcessType /\ UNCHANGED process => ProcessType'
  /\ GovernorType /\ UNCHANGED governor => GovernorType'
  /\ ThreadType /\ UNCHANGED thread => ThreadType'
  /\ CallerType /\ UNCHANGED caller => CallerType'
<1>1. QueueType /\ UNCHANGED queues => QueueType'
  BY DEF QueueType
<1>2. TableType /\ UNCHANGED table => TableType'
  BY DEF table, TableType
<1>3. ProcessType /\ UNCHANGED process => ProcessType'
  BY DEF process, ProcessType
<1>4. GovernorType /\ UNCHANGED governor => GovernorType'
  BY DEF governor, GovernorType
<1>5. ThreadType /\ UNCHANGED thread => ThreadType'
  BY DEF thread, ThreadType
<1>6. CallerType /\ UNCHANGED caller => CallerType'
  BY DEF caller, CallerType
<1>7. QED
  BY <1>1, <1>2, <1>3, <1>4, <1>5, <1>6

-----------------------------------------------------------------------------
(* No class and no thermal state gives a quantum of nothing, or more than  *)
(* the largest one.                                                        *)
LEMMA BudgetType ==
  ASSUME NEW q \in Class, NEW t \in Thermal
  PROVE  ReductionBudget(q, t) \in 1 .. 2000
<1>1. BaseBudget[q] \in {500, 1000, 2000}
  BY DEF BaseBudget
<1>2. BudgetPercent[t] \in {100, 80, 50, 25}
  BY DEF BudgetPercent
<1>3. \A b \in {500, 1000, 2000}, r \in {100, 80, 50, 25} : (b * r) \div 100 \in 1 .. 2000
  OBVIOUS
<1>4. QED
  BY <1>1, <1>2, <1>3 DEF ReductionBudget

LEMMA InitIInv == Init => IInv
<1> SUFFICES ASSUME Init PROVE IInv
  OBVIOUS
<1>1. TypeOK
  <2>1. QueueType /\ CallerType
    BY SchedulerAssumption DEF Init, QueueType, CallerType, Class, Background
  <2>2. TableType /\ ProcessType
    BY SchedulerAssumption DEF Init, TableType, ProcessType
  <2>3. GovernorType
    <3>1. battery \in Battery
      BY DEF Init, Battery
    <3>2. thermal \in Thermal
      BY DEF Init, Thermal, Nominal
    <3>3. throttling \in BOOLEAN
      BY Zenon DEF Init
    <3>4. flagging \in [Setters -> Thermal \cup {None}]
      BY DEF Init
    <3>5. overlapped \in BOOLEAN
      BY Zenon DEF Init
    <3>6. QED
      BY <3>1, <3>2, <3>3, <3>4, <3>5 DEF GovernorType
  <2>4. ThreadType
    BY SchedulerAssumption
       DEF Init, ThreadType, Holding, Thermal, Nominal, Class, Background
  <2>5. QED
    BY <2>1, <2>2, <2>3, <2>4, TypeParts
<1>2. SpawnsApart
  BY DEF Init, SpawnsApart
<1>3. \A q \in Class : queues[q] = <<>> /\ Range(queues[q]) = {}
  BY RangeEmpty DEF Init
<1>4. \A s \in Schedulers : ~Holds(s) /\ pc[s] # "running"
  BY DEF Init, Holds, Holding
<1>5. Queued = {}
  BY <1>3 DEF Queued
<1>6. OneTicket
  BY <1>3, <1>4, <1>5 DEF Init, OneTicket, NoSecondTicket, Spawned
<1>7. ClassKept /\ FullQuantum /\ JobsArePids
  BY <1>3, <1>4 DEF Init, ClassKept, FullQuantum, JobsArePids
<1>8. QED
  BY <1>1, <1>2, <1>6, <1>7 DEF IInv

-----------------------------------------------------------------------------
(* Every step keeps every variable's type.                                 *)
LEMMA GovernorStepType == TypeOK /\ GovernorStep => TypeOK'
<1> SUFFICES ASSUME TypeOK, GovernorStep PROVE TypeOK'
  OBVIOUS
<1>1. GovernorType
  BY TypeParts
<1>2. GovernorType'
  <2>1. ASSUME NEW g \in Setters, NEW t \in ThermalReports, SetThermal(g, t)
        PROVE  GovernorType'
    <3>1. Updating \in BOOLEAN
      BY DEF Updating
    <3>2. QED
      BY <1>1, <2>1, <3>1, SchedulerAssumption DEF SetThermal, GovernorType
  <2>2. ASSUME NEW g \in Setters, SetThrottling(g)
        PROVE  GovernorType'
    <3>1. Hot(flagging[g]) \in BOOLEAN
      BY DEF Hot
    <3>2. QED
      BY <1>1, <2>2, <3>1 DEF SetThrottling, GovernorType
  <2>3. ASSUME NEW b \in BatteryReports, SetBattery(b)
        PROVE  GovernorType'
    BY <1>1, <2>3, SchedulerAssumption DEF SetBattery, GovernorType
  <2>4. QED
    BY <2>1, <2>2, <2>3 DEF GovernorStep
<1>3. UNCHANGED <<queues, table, process, thread, caller>>
  BY DEF GovernorStep
<1>4. QueueType' /\ TableType' /\ ProcessType' /\ ThreadType' /\ CallerType'
  BY <1>3, TypeParts, TypeKept
<1>5. QED
  BY <1>2, <1>4, TypePartsNext

(* What the scheduler threads may change.                                  *)
LEMMA SchedulerStepType ==
  ASSUME TypeOK, NEW s \in Schedulers, SchedulerStep(s), JobsArePids
  PROVE  TypeOK'
<1>1. QueueType /\ TableType /\ ProcessType /\ GovernorType /\ ThreadType
  BY TypeParts
<1>2. TableType' /\ GovernorType' /\ CallerType'
  BY TypeParts, TypeKept DEF SchedulerStep
<1>3. Nominal \in Thermal /\ Background \in Class /\ {} \in SUBSET Class
  BY DEF Nominal, Thermal, Background, Class
<1> DEFINE j == job[s]
<1>j. j \in Pid \/ pc[s] \notin Holding \cup {"unlock"}
  BY DEF JobsArePids, Holds
<1>4. QueueType' /\ ProcessType' /\ ThreadType'
  <2>1. CASE ReadThermal(s)
    <3>1. QueueType' /\ ProcessType'
      BY <1>1, <2>1, TypeKept DEF ReadThermal
    <3>2. ThreadType'
      BY <1>1, <2>1 DEF ReadThermal, Goto, GovernorType, ThreadType
    <3>3. QED
      BY <3>1, <3>2
  <2>2. CASE ReadBattery(s)
    <3>1. QueueType' /\ ProcessType'
      BY <1>1, <2>2, TypeKept DEF ReadBattery
    <3>2. Allowed(MaxQos(seen[s], battery)) \in SUBSET Class
      BY DEF Allowed
    <3>3. ThreadType'
      BY <1>1, <1>3, <2>2, <3>2 DEF ReadBattery, Goto, ThreadType
    <3>4. QED
      BY <3>1, <3>3
  <2>3. CASE PopEmpty(s)
    <3>1. QueueType' /\ ProcessType'
      BY <1>1, <2>3, TypeKept DEF PopEmpty
    <3>2. ThreadType'
      BY <1>1, <2>3 DEF PopEmpty, ThreadType
    <3>3. QED
      BY <3>1, <3>2
  <2>4. CASE PopJob(s)
    <3>1. PICK q \in left[s] :
            /\ queues[q] # <<>>
            /\ queues' = [queues EXCEPT ![q] = Popped(q)]
            /\ job' = [job EXCEPT ![s] = Top(q)]
            /\ qos' = [qos EXCEPT ![s] = q]
            /\ left' = [left EXCEPT ![s] = {}]
            /\ attempt' = [attempt EXCEPT ![s] = 1]
            /\ pc' = [pc EXCEPT ![s] = "found"]
            /\ UNCHANGED <<process, seen>>
      BY <2>4 DEF PopJob, Goto
    <3>2. q \in Class /\ queues[q] \in Seq(Pid)
      BY <1>1 DEF ThreadType, QueueType
    <3>3. Popped(q) \in Seq(Pid) /\ Top(q) \in 0 .. MaxPid
      BY <3>1, <3>2, LastOff, SchedulerAssumption DEF Popped, Top, Pid
    <3>4. QueueType'
      BY <1>1, <3>1, <3>3 DEF QueueType
    <3>5. ProcessType'
      BY <1>1, <3>1, TypeKept
    <3>6. ThreadType'
      BY <1>1, <1>3, <3>1, <3>2, <3>3 DEF ThreadType, Holding
    <3>7. QED
      BY <3>4, <3>5, <3>6
  <2>5. CASE NothingFound(s)
    <3>1. QueueType' /\ ProcessType'
      BY <1>1, <2>5, TypeKept DEF NothingFound
    <3>2. ThreadType'
      BY <1>1, <2>5 DEF NothingFound, Goto, ThreadType
    <3>3. QED
      BY <3>1, <3>2
  <2>6. CASE FindEntry(s)
    <3>1. QueueType' /\ ProcessType'
      BY <1>1, <2>6, TypeKept DEF FindEntry
    <3>2. ThreadType'
      BY <1>1, <1>3, <2>6, SchedulerAssumption
         DEF FindEntry, Rest, Goto, ThreadType, Holding
    <3>3. QED
      BY <3>1, <3>2
  <2>7. CASE RunStart(s)
    <3>1. ReductionBudget(qos[s], thermal) \in 1 .. 2000
      BY <1>1, BudgetType DEF ThreadType, GovernorType
    <3>2. ProcessType'
      <4> DEFINE b == ReductionBudget(qos[s], thermal)
      <4>1. b \in 1 .. 2000 /\ b \in 0 .. 2000
        BY <3>1
      <4>2. j \in Pid
        BY <1>j, <2>7 DEF RunStart, Holding
      <4>3. /\ holder' = [holder EXCEPT ![j] = s]
            /\ status' = [status EXCEPT ![j] = "Running"]
            /\ max_reductions' = [max_reductions EXCEPT ![j] = b]
            /\ reductions' = [reductions EXCEPT ![j] = b]
            /\ UNCHANGED inbox
        BY <2>7 DEF RunStart, Quantum
      <4> HIDE DEF j, b
      <4>4. holder' \in [Pid -> Schedulers \union {Nobody}]
        BY <1>1, <4>2, <4>3 DEF ProcessType
      <4>5. status' \in [Pid -> {"Runnable", "Running"}]
        BY <1>1, <4>2, <4>3 DEF ProcessType
      <4>6. max_reductions' \in [Pid -> 1 .. 2000]
        <5> DEFINE old == max_reductions
                   Few == 1 .. 2000
        <5>1. old \in [Pid -> Few] /\ b \in Few /\ max_reductions' = [old EXCEPT ![j] = b]
          BY <1>1, <4>1, <4>3 DEF ProcessType
        <5> HIDE DEF Few, old
        <5>2. max_reductions' \in [Pid -> Few]
          BY <4>2, <5>1
        <5> QED
          BY <5>2 DEF Few
      <4>7. reductions' \in [Pid -> 0 .. 2000]
        <5> DEFINE old == reductions
                   Few == 0 .. 2000
        <5>1. old \in [Pid -> Few] /\ b \in Few /\ reductions' = [old EXCEPT ![j] = b]
          BY <1>1, <4>1, <4>3 DEF ProcessType
        <5> HIDE DEF Few, old
        <5>2. reductions' \in [Pid -> Few]
          BY <4>2, <5>1
        <5> QED
          BY <5>2 DEF Few
      <4>8. inbox' \in [Pid -> 0 .. InboxRoom]
        BY <1>1, <4>3 DEF ProcessType
      <4>9. QED
        BY <4>4, <4>5, <4>6, <4>7, <4>8 DEF ProcessType
    <3>3. QueueType'
      BY <1>1, <2>7, TypeKept DEF RunStart
    <3>4. ThreadType'
      BY <1>1, <2>7 DEF RunStart, Goto, ThreadType, Holding
    <3>5. QED
      BY <3>2, <3>3, <3>4
  <2>8. CASE RunEnd(s)
    <3>1. ProcessType'
      <4>1. j \in Pid
        BY <1>j, <2>8 DEF RunEnd, Holding
      <4>2. /\ reductions' = [reductions EXCEPT ![j] = IF @ > 1 THEN @ - 1 ELSE 0]
            /\ status' = [status EXCEPT ![j] = "Runnable"]
            /\ UNCHANGED <<holder, max_reductions, inbox>>
        BY <2>8 DEF RunEnd
      <4> HIDE DEF j
      <4>3. (IF reductions[j] > 1 THEN reductions[j] - 1 ELSE 0) \in 0 .. 2000
        BY <1>1, <4>1 DEF ProcessType
      <4>4. QED
        BY <1>1, <4>1, <4>2, <4>3 DEF ProcessType
    <3>2. ThreadType'
      BY <1>1, <2>8 DEF RunEnd, Goto, ThreadType
    <3>3. QueueType'
      <4>1. job[s] \in Pid
        BY <1>j, <2>8 DEF RunEnd, Holding
      <4>2. qos[s] \in Class
        BY <1>1 DEF ThreadType
      <4>3. Append(queues[qos[s]], job[s]) \in Seq(Pid)
        BY <1>1, <4>1, <4>2, AppendProperties DEF QueueType
      <4>4. queues' = [queues EXCEPT ![qos[s]] = Append(queues[qos[s]], job[s])]
        BY <2>8 DEF RunEnd, Push
      <4>5. QED
        BY <1>1, <4>3, <4>4 DEF QueueType
    <3>4. QED
      BY <3>1, <3>2, <3>3
  <2>9. CASE Unlock(s)
    <3>1. QueueType'
      BY <1>1, <2>9, TypeKept DEF Unlock
    <3>2. ProcessType'
      <4>1. /\ holder' = [holder EXCEPT ![j] = Nobody] /\ j \in Pid
            /\ UNCHANGED <<status, max_reductions, reductions, inbox>>
        BY <1>j, <2>9 DEF Unlock
      <4> HIDE DEF j
      <4>2. QED
        BY <1>1, <4>1 DEF ProcessType
    <3>3. ThreadType'
      BY <1>1, <1>3, <2>9, SchedulerAssumption DEF Unlock, Rest, Goto, ThreadType
    <3>4. QED
      BY <3>1, <3>2, <3>3
  <2>10. QED
    BY <2>1, <2>2, <2>3, <2>4, <2>5, <2>6, <2>7, <2>8, <2>9 DEF SchedulerStep
<1>5. QED
  BY <1>2, <1>4, TypePartsNext

LEMMA SpawnStepType ==
  ASSUME TypeOK, SpawnsApart, NEW c \in Callers, SpawnStep(c) PROVE TypeOK'
<1>1. QueueType /\ TableType /\ ProcessType /\ GovernorType /\ ThreadType /\ CallerType
  BY TypeParts
<1>2. ProcessType' /\ GovernorType' /\ ThreadType'
  BY <1>1, TypeKept DEF SpawnStep
<1>3. step[c] # "idle" => pid[c] \in Pid
  BY <1>1, SchedulerAssumption DEF SpawnsApart, TableType, Pid
<1>4. Background \in Class /\ 0 \in 0 .. MaxPid
  BY SchedulerAssumption DEF Background, Class
<1>5. Return(c) => CallerType'
  BY <1>1, <1>4 DEF Return, CallerType
<1>6. QueueType' /\ TableType' /\ CallerType'
  <2>1. ASSUME NEW q \in SpawnClasses, SpawnPid(c, q)
        PROVE  QueueType' /\ TableType' /\ CallerType'
    <3>1. q \in Class /\ next_pid \in 0 .. MaxPid /\ next_pid + 1 \in 1 .. MaxPid + 1
      BY <1>1, <2>1, SchedulerAssumption DEF SpawnPid, TableType
    <3>2. QueueType' /\ TableType'
      BY <1>1, <2>1, <3>1, TypeKept DEF SpawnPid, TableType
    <3>3. CallerType'
      BY <1>1, <2>1, <3>1 DEF SpawnPid, CallerType
    <3>4. QED
      BY <3>2, <3>3
  <2>2. CASE BuildFails(c)
    BY <1>1, <1>5, <2>2, TypeKept DEF BuildFails, table
  <2>3. CASE InsertProcess(c)
    <3>1. QueueType' /\ TableType'
      BY <1>1, <1>3, <2>3, TypeKept DEF InsertProcess, TableType
    <3>2. CallerType'
      BY <1>1, <2>3 DEF InsertProcess, CallerType
    <3>3. QED
      BY <3>1, <3>2
  <2>4. CASE InsertClass(c)
    <3>1. want[c] \in Class
      BY <1>1 DEF CallerType
    <3>2. QueueType' /\ TableType'
      BY <1>1, <1>3, <2>4, <3>1, TypeKept DEF InsertClass, TableType
    <3>3. CallerType'
      BY <1>1, <2>4 DEF InsertClass, CallerType
    <3>4. QED
      BY <3>2, <3>3
  <2>5. CASE Schedule(c)
    <3>1. want[c] \in Class /\ pid[c] \in Pid
      BY <1>1, <1>3, <2>5 DEF Schedule, CallerType
    <3>2. Append(queues[want[c]], pid[c]) \in Seq(Pid)
      BY <1>1, <3>1, AppendProperties DEF QueueType
    <3>3. queues' = [queues EXCEPT ![want[c]] = Append(queues[want[c]], pid[c])]
      BY <2>5 DEF Schedule, Push
    <3>4. QueueType'
      BY <1>1, <3>1, <3>2, <3>3 DEF QueueType
    <3>5. TableType' /\ CallerType'
      BY <1>1, <1>5, <2>5, TypeKept DEF Schedule, table
    <3>6. QED
      BY <3>4, <3>5
  <2>6. QED
    BY <2>1, <2>2, <2>3, <2>4, <2>5 DEF SpawnStep
<1>7. QED
  BY <1>2, <1>6, TypePartsNext

(* No process ever waits, so send_message never schedules one.             *)
LEMMA SendDoes ==
  ASSUME TypeOK, NEW p \in Pid, Send(p)
  PROVE  /\ UNCHANGED <<queues, table, governor, thread, caller>>
         /\ UNCHANGED <<holder, status, max_reductions, reductions>>
         /\ TypeOK'
<1>1. QueueType /\ TableType /\ ProcessType /\ GovernorType /\ ThreadType /\ CallerType
  BY TypeParts
<1>2. status[p] # "Waiting"
  BY <1>1 DEF ProcessType
<1>3. UNCHANGED <<holder, status, max_reductions, reductions>>
  BY <1>2 DEF Send
<1>4. UNCHANGED <<queues, table, governor, thread, caller>>
  BY <1>2 DEF Send
<1>5. ProcessType'
  <2>1. inbox[p] \in 0 .. InboxRoom
    BY <1>1 DEF ProcessType
  <2>2. (IF inbox[p] < InboxRoom THEN inbox[p] + 1 ELSE inbox[p]) \in 0 .. InboxRoom
    BY <2>1, SchedulerAssumption
  <2>3. inbox' = [inbox EXCEPT ![p] = IF inbox[p] < InboxRoom THEN inbox[p] + 1 ELSE inbox[p]]
    BY DEF Send
  <2>4. QED
    BY <1>1, <1>3, <2>2, <2>3 DEF ProcessType
<1>6. QED
  BY <1>1, <1>3, <1>4, <1>5, TypeKept, TypePartsNext

-----------------------------------------------------------------------------
(* Spawns stay apart: only a caller changes what SpawnsApart speaks of.    *)
LEMMA SpawnsApartKept ==
  SpawnsApart /\ UNCHANGED <<table, caller>> => SpawnsApart'
BY DEF SpawnsApart, table, caller

LEMMA SpawnStepApart ==
  ASSUME TypeOK, SpawnsApart, NEW c \in Callers, SpawnStep(c) PROVE SpawnsApart'
<1>1. TableType /\ CallerType /\ MaxPid \in Nat
  BY TypeParts, SchedulerAssumption
<1>2. \A d \in Callers : pid[d] \in Nat /\ (step[d] # "idle" => pid[d] \in Pid)
  BY <1>1 DEF SpawnsApart, TableType, CallerType, Pid
<1>3. ASSUME NEW q \in SpawnClasses, SpawnPid(c, q) PROVE SpawnsApart'
  <2>1. next_pid \in Nat /\ next_pid \in Pid
    BY <1>1, <1>3 DEF SpawnPid, TableType, Pid
  <2>2. /\ next_pid' = next_pid + 1
        /\ \A d \in Callers \ {c} : pid'[d] = pid[d] /\ step'[d] = step[d] /\ want'[d] = want[d]
        /\ pid'[c] = next_pid /\ step'[c] = "build" /\ step[c] = "idle"
        /\ UNCHANGED <<processes, process_qos>>
    BY <1>1, <1>3 DEF SpawnPid, CallerType
  <2>3. \A d \in Callers : pid[d] # next_pid /\ (step[d] # "idle" => pid[d] \in 1 .. next_pid)
    <3>1. ASSUME NEW d \in Callers
          PROVE  pid[d] # next_pid /\ (step[d] # "idle" => pid[d] \in 1 .. next_pid)
      <4>1. next_pid \in Nat \ {0}
        BY <1>1 DEF TableType
      <4>2. pid[d] \in 1 .. next_pid - 1 \/ (pid[d] = 0 /\ step[d] = "idle")
        BY DEF SpawnsApart
      <4>3. QED
        BY <4>1, <4>2
    <3>2. QED
      BY <3>1
  <2>4. (\A p \in Pid : p >= next_pid => p \notin processes)'
    BY <2>1, <2>2 DEF SpawnsApart, Pid
  <2>5. (\A d, e \in Callers : pid[d] = pid[e] /\ pid[d] # 0 => d = e)'
    BY <2>2, <2>3 DEF SpawnsApart
  <2>6. ASSUME NEW d \in Callers
        PROVE  (/\ step[d] # "idle" => pid[d] \in 1 .. next_pid - 1
                /\ step[d] = "idle" => pid[d] = 0
                /\ step[d] = "build" => pid[d] \notin processes
                /\ step[d] \in {"class", "schedule"} => pid[d] \in processes
                /\ step[d] = "schedule" => process_qos[pid[d]] = want[d])'
    <3>1. CASE d = c
      <4>1. next_pid \notin processes
        BY <2>1 DEF SpawnsApart
      <4>2. QED
        BY <1>1, <2>1, <2>2, <3>1, <4>1 DEF TableType
    <3>2. CASE d # c
      BY <2>1, <2>2, <2>3, <3>2 DEF SpawnsApart
    <3>3. QED
      BY <3>1, <3>2
  <2>7. QED
    BY <2>4, <2>5, <2>6 DEF SpawnsApart
<1>4. ASSUME Return(c), UNCHANGED <<processes, process_qos, next_pid>>
      PROVE  SpawnsApart'
  <2>1. /\ \A d \in Callers \ {c} : pid'[d] = pid[d] /\ step'[d] = step[d] /\ want'[d] = want[d]
        /\ pid'[c] = 0 /\ step'[c] = "idle"
    BY <1>1, <1>4 DEF Return, CallerType
  <2>2. QED
    BY <1>4, <2>1 DEF SpawnsApart
<1>5. CASE BuildFails(c)
  BY <1>4, <1>5 DEF BuildFails
<1>6. CASE InsertProcess(c)
  <2>1. /\ \A d \in Callers \ {c} : step'[d] = step[d]
        /\ step'[c] = "class" /\ step[c] = "build" /\ processes' = processes \cup {pid[c]}
        /\ UNCHANGED <<process_qos, next_pid, pid, want>>
    BY <1>1, <1>6 DEF InsertProcess, CallerType
  <2>2. pid[c] \in Pid /\ ~ (pid[c] >= next_pid)
    BY <1>1, <1>2, <2>1 DEF SpawnsApart, TableType
  <2>3. \A d \in Callers \ {c} : pid[d] # pid[c]
    BY <2>2, <1>1 DEF SpawnsApart, Pid
  <2>4. (\A p \in Pid : p >= next_pid => p \notin processes)'
    BY <2>1, <2>2 DEF SpawnsApart
  <2>5. ASSUME NEW d \in Callers
        PROVE  (/\ step[d] # "idle" => pid[d] \in 1 .. next_pid - 1
                /\ step[d] = "idle" => pid[d] = 0
                /\ step[d] = "build" => pid[d] \notin processes
                /\ step[d] \in {"class", "schedule"} => pid[d] \in processes
                /\ step[d] = "schedule" => process_qos[pid[d]] = want[d])'
    BY <2>1, <2>3 DEF SpawnsApart
  <2>6. QED
    BY <2>1, <2>4, <2>5 DEF SpawnsApart
<1>7. CASE InsertClass(c)
  <2>1. /\ \A d \in Callers \ {c} : step'[d] = step[d]
        /\ step'[c] = "schedule" /\ step[c] = "class"
        /\ process_qos' = [process_qos EXCEPT ![pid[c]] = want[c]]
        /\ UNCHANGED <<processes, next_pid, pid, want>>
    BY <1>1, <1>7 DEF InsertClass, CallerType
  <2>2. pid[c] \in Pid /\ \A d \in Callers \ {c} : pid[d] # pid[c]
    BY <1>1, <1>2, <2>1 DEF SpawnsApart, Pid
  <2>3. /\ process_qos'[pid[c]] = want[c]
        /\ \A p \in Pid : p # pid[c] => process_qos'[p] = process_qos[p]
    BY <1>1, <2>1, <2>2 DEF TableType
  <2>4. ASSUME NEW d \in Callers
        PROVE  (/\ step[d] # "idle" => pid[d] \in 1 .. next_pid - 1
                /\ step[d] = "idle" => pid[d] = 0
                /\ step[d] = "build" => pid[d] \notin processes
                /\ step[d] \in {"class", "schedule"} => pid[d] \in processes
                /\ step[d] = "schedule" => process_qos[pid[d]] = want[d])'
    BY <1>2, <2>1, <2>2, <2>3 DEF SpawnsApart
  <2>5. QED
    BY <2>1, <2>4 DEF SpawnsApart
<1>8. CASE Schedule(c)
  BY <1>4, <1>8 DEF Schedule
<1>9. QED
  BY <1>3, <1>5, <1>6, <1>7, <1>8 DEF SpawnStep

-----------------------------------------------------------------------------
(* Tickets.  A push adds one, a pop takes one, nothing else touches them.  *)
NoPlaceShared ==
  \A q, r \in Class : \A i \in DOMAIN queues[q], j \in DOMAIN queues[r] :
    queues[q][i] = queues[r][j] => q = r /\ i = j

LEMMA PushTicket ==
  ASSUME QueueType, NoPlaceShared, NEW p \in Pid, p \notin Queued,
         NEW q \in Class, Push(p, q)
  PROVE  /\ Queued' = Queued \cup {p}
         /\ NoPlaceShared'
         /\ Range(queues'[q]) = Range(queues[q]) \cup {p}
         /\ \A r \in Class \ {q} : queues'[r] = queues[r]
<1> DEFINE a == Append(queues[q], p)
<1>1. queues[q] \in Seq(Pid)
  BY DEF QueueType
<1>2. /\ Len(queues[q]) \in Nat /\ DOMAIN queues[q] = 1 .. Len(queues[q])
      /\ DOMAIN a = 1 .. Len(queues[q]) + 1
      /\ \A i \in 1 .. Len(queues[q]) : a[i] = queues[q][i]
      /\ a[Len(queues[q]) + 1] = p
  BY <1>1, AppendProperties, LenProperties
<1>3. Range(a) = Range(queues[q]) \cup {p}
  BY <1>1, RangeAppend
<1>4. queues' = [queues EXCEPT ![q] = a]
  BY DEF Push
<1> HIDE DEF a
<1>5. queues'[q] = a /\ \A r \in Class \ {q} : queues'[r] = queues[r]
  BY <1>4 DEF QueueType
<1>6. Queued' = Queued \cup {p}
  <2>1. ASSUME NEW x PROVE x \in Queued' <=> x \in Queued \cup {p}
    BY <1>3, <1>5 DEF Queued
  <2>2. QED
    BY <2>1
<1>7. \A r \in Class : \A i \in DOMAIN queues[r] : queues[r][i] # p
  BY DEF Queued, Range
<1>8. NoPlaceShared'
  <2> SUFFICES ASSUME NEW u \in Class, NEW r \in Class,
                      NEW i \in DOMAIN queues'[u], NEW j \in DOMAIN queues'[r],
                      queues'[u][i] = queues'[r][j]
               PROVE  u = r /\ i = j
    BY DEF NoPlaceShared
  <2>1. ASSUME NEW v \in Class, NEW k \in DOMAIN queues'[v]
        PROVE  \/ k \in DOMAIN queues[v] /\ queues'[v][k] = queues[v][k]
               \/ v = q /\ k = Len(queues[q]) + 1 /\ queues'[v][k] = p
    BY <1>2, <1>5
  <2>2. QED
    BY <1>7, <2>1 DEF NoPlaceShared
<1>9. QED
  BY <1>3, <1>5, <1>6, <1>8

LEMMA PopTicket ==
  ASSUME QueueType, NoPlaceShared, NEW q \in Class, queues[q] # <<>>,
         queues' = [queues EXCEPT ![q] = Popped(q)]
  PROVE  /\ Top(q) \in Pid /\ Top(q) \in Range(queues[q])
         /\ Queued = Queued' \cup {Top(q)} /\ Top(q) \notin Queued'
         /\ NoPlaceShared'
         /\ \A r \in Class : Range(queues'[r]) \subseteq Range(queues[r])
<1>1. queues[q] \in Seq(Pid)
  BY DEF QueueType
<1>2. /\ Len(queues[q]) \in Nat \ {0} /\ DOMAIN queues[q] = 1 .. Len(queues[q])
      /\ Top(q) \in Pid
      /\ DOMAIN Popped(q) = 1 .. Len(queues[q]) - 1
      /\ \A i \in 1 .. Len(queues[q]) - 1 : Popped(q)[i] = queues[q][i]
      /\ Range(queues[q]) = Range(Popped(q)) \cup {Top(q)}
  BY <1>1, LastOff DEF Popped, Top
<1>3. queues'[q] = Popped(q) /\ \A r \in Class \ {q} : queues'[r] = queues[r]
  BY DEF QueueType
<1>4. ASSUME NEW v \in Class, NEW k \in DOMAIN queues'[v]
      PROVE  /\ k \in DOMAIN queues[v] /\ queues'[v][k] = queues[v][k]
             /\ v = q => k # Len(queues[q])
  BY <1>2, <1>3
<1>5. NoPlaceShared'
  BY <1>4 DEF NoPlaceShared
<1>6. Queued = Queued' \cup {Top(q)}
  <2>1. ASSUME NEW x PROVE x \in Queued <=> x \in Queued' \cup {Top(q)}
    BY <1>2, <1>3 DEF Queued
  <2>2. QED
    BY <2>1
<1>7. Top(q) \notin Queued'
  <2> SUFFICES ASSUME NEW v \in Class, NEW k \in DOMAIN queues'[v], queues'[v][k] = Top(q)
               PROVE  FALSE
    BY Zenon DEF Queued, Range
  <2>1. Len(queues[q]) \in DOMAIN queues[q] /\ queues[q][Len(queues[q])] = Top(q)
    BY <1>2 DEF Top
  <2>2. QED
    BY <1>4, <2>1 DEF NoPlaceShared
<1>8. QED
  BY <1>2, <1>3, <1>5, <1>6, <1>7

(* What the rest of the invariant speaks of is left alone.                 *)
SameTickets ==
  /\ UNCHANGED <<queues, processes, process_qos, pid>>
  /\ \A s \in Schedulers : Holds(s)' <=> Holds(s)
  /\ \A s \in Schedulers : Holds(s) => job'[s] = job[s] /\ qos'[s] = qos[s]

LEMMA TicketsKept ==
  ASSUME OneTicket, ClassKept, SameTickets
  PROVE  OneTicket' /\ ClassKept' /\ Queued' = Queued /\ Held' = Held
<1>1. Queued' = Queued
  BY DEF SameTickets, Queued
<1>2. Held' = Held
  BY DEF SameTickets, Held
<1>3. \A p \in Pid : Spawned(p)' <=> Spawned(p)
  BY DEF SameTickets, Spawned
<1>4. OneTicket'
  <2>1. NoSecondTicket'
    BY <1>1 DEF SameTickets, OneTicket, NoSecondTicket
  <2>2. \A p \in Pid : Spawned(p)' <=> p \in Queued' \cup Held'
    BY <1>1, <1>2, <1>3 DEF OneTicket, Held
  <2>3. QED
    BY <2>1, <2>2 DEF OneTicket, Held
<1>5. ClassKept'
  BY DEF SameTickets, ClassKept
<1>6. QED
  BY <1>1, <1>2, <1>4, <1>5

LEMMA TicketParts ==
  OneTicket <=>
    /\ NoPlaceShared
    /\ \A s \in Schedulers : Holds(s) => job[s] \notin Queued
    /\ \A s, t \in Schedulers : Holds(s) /\ Holds(t) /\ job[s] = job[t] => s = t
    /\ \A p \in Pid : Spawned(p) <=> p \in Queued \cup Held
BY DEF OneTicket, NoSecondTicket, NoPlaceShared, Held

LEMMA TicketPartsNext ==
  /\ NoPlaceShared'
  /\ \A s \in Schedulers : Holds(s)' => job'[s] \notin Queued'
  /\ \A s, t \in Schedulers : Holds(s)' /\ Holds(t)' /\ job'[s] = job'[t] => s = t
  /\ \A p \in Pid : Spawned(p)' <=> p \in Queued' \cup Held'
  => OneTicket'
BY DEF OneTicket, NoSecondTicket, NoPlaceShared, Held

(* pick_process hands a ticket from a queue to one thread.                 *)
LEMMA PopJobTickets ==
  ASSUME IInv, NEW s \in Schedulers, PopJob(s), UNCHANGED <<table, caller>>
  PROVE  /\ OneTicket' /\ ClassKept' /\ JobsArePids'
         /\ job'[s] \in Queued /\ Queued' = Queued \ {job'[s]}
<1>1. QueueType /\ ThreadType
  BY TypeParts DEF IInv
<1>2. PICK q \in left[s] :
        /\ pc[s] = "scan"
        /\ queues[q] # <<>>
        /\ queues' = [queues EXCEPT ![q] = Popped(q)]
        /\ job' = [job EXCEPT ![s] = Top(q)]
        /\ qos' = [qos EXCEPT ![s] = q]
        /\ pc' = [pc EXCEPT ![s] = "found"]
  BY DEF PopJob, Goto
<1>3. q \in Class
  BY <1>1 DEF ThreadType
<1>4. OneTicket /\ NoPlaceShared
  BY TicketParts DEF IInv
<1>5. /\ Top(q) \in Pid /\ Top(q) \in Range(queues[q])
      /\ Queued = Queued' \cup {Top(q)} /\ Top(q) \notin Queued'
      /\ NoPlaceShared'
      /\ \A r \in Class : Range(queues'[r]) \subseteq Range(queues[r])
  BY <1>1, <1>2, <1>3, <1>4, PopTicket
<1>6. /\ ~Holds(s) /\ Holds(s)' /\ job'[s] = Top(q) /\ qos'[s] = q
      /\ \A t \in Schedulers \ {s} :
           /\ pc'[t] = pc[t] /\ (Holds(t)' <=> Holds(t))
           /\ job'[t] = job[t] /\ qos'[t] = qos[t]
  BY <1>1, <1>2 DEF Holds, Holding, ThreadType
<1>7. Held' = Held \cup {Top(q)}
  <2>1. ASSUME NEW x PROVE x \in Held' <=> x \in Held \cup {Top(q)}
    BY <1>6 DEF Held
  <2>2. QED
    BY <2>1
<1>8. \A p \in Pid : Spawned(p)' <=> Spawned(p)
  BY DEF Spawned, table, caller
<1>9. OneTicket'
  <2>1. \A t \in Schedulers : Holds(t) => job[t] \notin Queued
    BY <1>4, TicketParts
  <2>2. \A t \in Schedulers : Holds(t)' => job'[t] \notin Queued'
    BY <1>5, <1>6, <2>1
  <2>3. \A t, u \in Schedulers : Holds(t)' /\ Holds(u)' /\ job'[t] = job'[u] => t = u
    BY <1>4, <1>5, <1>6, <2>1, TicketParts
  <2>4. \A p \in Pid : Spawned(p)' <=> p \in Queued' \cup Held'
    BY <1>4, <1>5, <1>7, <1>8, TicketParts
  <2>5. QED
    BY <1>5, <2>2, <2>3, <2>4, TicketPartsNext
<1>10. ClassKept'
  <2>1. process_qos' = process_qos /\ process_qos[Top(q)] = q
    BY <1>3, <1>5 DEF IInv, ClassKept, table
  <2>2. QED
    BY <1>5, <1>6, <2>1 DEF IInv, ClassKept
<1>11. JobsArePids'
  BY <1>5, <1>6 DEF IInv, JobsArePids, Holds
<1>12. QED
  BY <1>5, <1>6, <1>9, <1>10, <1>11

(* run_process hands its ticket back to the queue of the same class.       *)
LEMMA RunEndTickets ==
  ASSUME IInv, NEW s \in Schedulers, RunEnd(s), UNCHANGED <<table, caller>>
  PROVE  /\ OneTicket' /\ ClassKept' /\ JobsArePids'
         /\ Queued' = Queued \cup {job[s]} /\ job[s] \in Pid
<1>1. QueueType /\ ThreadType
  BY TypeParts DEF IInv
<1>2. /\ pc[s] = "running" /\ pc' = [pc EXCEPT ![s] = "unlock"]
      /\ Push(job[s], qos[s]) /\ UNCHANGED <<job, qos>>
  BY DEF RunEnd, Goto
<1>3. /\ Holds(s) /\ ~Holds(s)'
      /\ \A t \in Schedulers \ {s} : pc'[t] = pc[t] /\ (Holds(t)' <=> Holds(t))
  BY <1>1, <1>2 DEF Holds, Holding, ThreadType
<1>4. OneTicket /\ NoPlaceShared /\ qos[s] \in Class /\ job[s] \in Pid
      /\ job[s] \notin Queued
  BY <1>1, <1>3, TicketParts DEF IInv, JobsArePids, ThreadType
<1>5. /\ Queued' = Queued \cup {job[s]}
      /\ NoPlaceShared'
      /\ Range(queues'[qos[s]]) = Range(queues[qos[s]]) \cup {job[s]}
      /\ \A r \in Class \ {qos[s]} : queues'[r] = queues[r]
  BY <1>1, <1>2, <1>4, PushTicket
<1>6. \A t \in Schedulers \ {s} : Holds(t) => job[t] # job[s]
  BY <1>3, <1>4, TicketParts
<1>7. Held = Held' \cup {job[s]}
  <2>1. ASSUME NEW x PROVE x \in Held <=> x \in Held' \cup {job[s]}
    BY <1>2, <1>3 DEF Held
  <2>2. QED
    BY <2>1
<1>8. \A p \in Pid : Spawned(p)' <=> Spawned(p)
  BY DEF Spawned, table, caller
<1>9. OneTicket'
  <2>1. \A t \in Schedulers : Holds(t)' => job'[t] \notin Queued'
    BY <1>2, <1>3, <1>4, <1>5, <1>6, TicketParts
  <2>2. \A t, u \in Schedulers : Holds(t)' /\ Holds(u)' /\ job'[t] = job'[u] => t = u
    BY <1>2, <1>3, <1>4, TicketParts
  <2>3. \A p \in Pid : Spawned(p)' <=> p \in Queued' \cup Held'
    BY <1>4, <1>5, <1>7, <1>8, TicketParts
  <2>4. QED
    BY <1>5, <2>1, <2>2, <2>3, TicketPartsNext
<1>10. ClassKept'
  <2>1. process_qos' = process_qos /\ process_qos[job[s]] = qos[s]
    BY <1>3 DEF IInv, ClassKept, table
  <2>2. QED
    BY <1>2, <1>3, <1>5, <2>1 DEF IInv, ClassKept
<1>11. JobsArePids'
  BY <1>2, <1>3, <1>4 DEF IInv, JobsArePids
<1>12. QED
  BY <1>4, <1>5, <1>9, <1>10, <1>11

(* The other steps of the scheduler threads leave the tickets where they   *)
(* are.                                                                    *)
LEMMA OtherStepTickets ==
  ASSUME IInv, NEW s \in Schedulers, SchedulerStep(s), ~PopJob(s), ~RunEnd(s)
  PROVE  SameTickets /\ JobsArePids'
<1>1. ThreadType /\ UNCHANGED <<table, caller>> /\ UNCHANGED <<processes, process_qos, pid>>
  BY TypeParts DEF IInv, SchedulerStep, table, caller
<1> DEFINE Others == \A t \in Schedulers \ {s} :
                       pc'[t] = pc[t] /\ job'[t] = job[t] /\ qos'[t] = qos[t]
<1>2. UNCHANGED queues /\ Others
  BY <1>1 DEF SchedulerStep, ReadThermal, ReadBattery, PopEmpty, NothingFound,
     FindEntry, RunStart, Unlock, Rest, Goto, ThreadType
<1>3. /\ Holds(s)' <=> Holds(s)
      /\ Holds(s) => job'[s] = job[s] /\ qos'[s] = qos[s]
      /\ pc'[s] = "unlock" => FALSE
  <2>1. CASE ReadThermal(s) \/ ReadBattery(s) \/ PopEmpty(s) \/ NothingFound(s)
    BY <1>1, <2>1 DEF ReadThermal, ReadBattery, PopEmpty, NothingFound, Goto,
       ThreadType, Holds, Holding
  <2>2. CASE FindEntry(s)
    <3>1. Holds(s) /\ job[s] \in Pid
      BY <2>2 DEF FindEntry, IInv, JobsArePids, Holds, Holding
    <3>2. job[s] \in processes
      BY <3>1, TicketParts DEF IInv, Spawned, Held
    <3>3. QED
      BY <1>1, <2>2, <3>2 DEF FindEntry, Goto, ThreadType, Holds, Holding
  <2>3. CASE RunStart(s) \/ Unlock(s)
    BY <1>1, <2>3 DEF RunStart, Unlock, Rest, Goto, ThreadType, Holds, Holding
  <2>4. QED
    BY <2>1, <2>2, <2>3 DEF SchedulerStep
<1>4. SameTickets
  BY <1>1, <1>2, <1>3 DEF SameTickets, Holds
<1>5. JobsArePids'
  BY <1>2, <1>3 DEF IInv, JobsArePids, Holds
<1>6. QED
  BY <1>4, <1>5

(* A spawn adds the ticket with its last step, and none before.            *)
LEMMA ScheduleTickets ==
  ASSUME IInv, NEW c \in Callers, Schedule(c), UNCHANGED thread
  PROVE  /\ OneTicket' /\ ClassKept' /\ JobsArePids'
         /\ pid[c] \in Pid /\ pid[c] \notin Queued \cup Held
         /\ Queued' = Queued \cup {pid[c]}
<1>1. QueueType /\ CallerType /\ TableType /\ SpawnsApart /\ MaxPid \in Nat
  BY TypeParts, SchedulerAssumption DEF IInv
<1>2. /\ step[c] = "schedule" /\ Push(pid[c], want[c])
      /\ pid' = [pid EXCEPT ![c] = 0]
      /\ UNCHANGED <<processes, process_qos>> /\ UNCHANGED <<pc, job, qos>>
  BY DEF Schedule, Return, thread
<1>3. /\ pid[c] \in Pid /\ pid[c] \in processes /\ want[c] \in Class
      /\ process_qos[pid[c]] = want[c] /\ pid[c] # 0
      /\ \A d \in Callers \ {c} : pid[d] # pid[c]
      /\ pid'[c] = 0 /\ \A d \in Callers \ {c} : pid'[d] = pid[d]
  BY <1>1, <1>2 DEF SpawnsApart, TableType, CallerType, Pid
<1>4. OneTicket /\ NoPlaceShared /\ pid[c] \notin Queued \cup Held
  BY <1>3, TicketParts DEF IInv, Spawned
<1>5. /\ Queued' = Queued \cup {pid[c]}
      /\ NoPlaceShared'
      /\ Range(queues'[want[c]]) = Range(queues[want[c]]) \cup {pid[c]}
      /\ \A r \in Class \ {want[c]} : queues'[r] = queues[r]
  BY <1>1, <1>2, <1>3, <1>4, PushTicket
<1>6. Held' = Held /\ \A s \in Schedulers : Holds(s)' <=> Holds(s)
  BY <1>2 DEF Held, Holds
<1>7. \A p \in Pid : Spawned(p)' <=> Spawned(p) \/ p = pid[c]
  <2>1. ASSUME NEW p \in Pid PROVE Spawned(p)' <=> Spawned(p) \/ p = pid[c]
    <3>1. p # 0
      BY DEF Pid
    <3>2. QED
      BY <1>2, <1>3, <3>1 DEF Spawned
  <2>2. QED
    BY <2>1
<1>8. OneTicket'
  <2>1. \A t \in Schedulers : Holds(t)' => job'[t] \notin Queued'
    BY <1>2, <1>4, <1>5, <1>6, TicketParts DEF Held
  <2>2. \A t, u \in Schedulers : Holds(t)' /\ Holds(u)' /\ job'[t] = job'[u] => t = u
    BY <1>2, <1>4, <1>6, TicketParts
  <2>3. \A p \in Pid : Spawned(p)' <=> p \in Queued' \cup Held'
    BY <1>4, <1>5, <1>6, <1>7, TicketParts
  <2>4. QED
    BY <1>5, <2>1, <2>2, <2>3, TicketPartsNext
<1>9. ClassKept'
  BY <1>2, <1>3, <1>5, <1>6 DEF IInv, ClassKept
<1>10. JobsArePids'
  BY <1>2, <1>6 DEF IInv, JobsArePids
<1>11. QED
  BY <1>3, <1>4, <1>5, <1>8, <1>9, <1>10

LEMMA SpawningTickets ==
  ASSUME IInv, NEW c \in Callers, SpawnStep(c), ~Schedule(c)
  PROVE  /\ OneTicket' /\ ClassKept' /\ JobsArePids'
         /\ Queued' = Queued
         /\ \A s \in Schedulers : Holds(s) => process_qos'[job[s]] = process_qos[job[s]]
<1>1. CallerType /\ TableType /\ SpawnsApart /\ MaxPid \in Nat /\ OneTicket
  BY TypeParts, SchedulerAssumption DEF IInv
<1>2. UNCHANGED queues /\ UNCHANGED <<pc, job, qos>>
  BY DEF SpawnStep, SpawnPid, BuildFails, InsertProcess, InsertClass, thread
<1>3. Held' = Held /\ \A s \in Schedulers : Holds(s)' <=> Holds(s)
  BY <1>2 DEF Held, Holds
<1>4. Queued' = Queued
  BY <1>2 DEF Queued
<1>5. step[c] # "idle" => pid[c] \in Pid /\ pid[c] # 0
  BY <1>1 DEF SpawnsApart, TableType, Pid
<1> DEFINE SameOwners ==
      /\ \A p \in Pid : Spawned(p)' <=> Spawned(p)
      /\ \A p \in Queued \cup Held : p \in Pid => process_qos'[p] = process_qos[p]
<1>6. SameOwners
  <2>1. ASSUME NEW q \in SpawnClasses, SpawnPid(c, q) PROVE SameOwners
    <3>1. next_pid \in Pid /\ next_pid \notin processes
      BY <1>1, <2>1 DEF SpawnPid, TableType, SpawnsApart, Pid
    <3>2. /\ pid'[c] = next_pid /\ pid[c] = 0 /\ UNCHANGED <<processes, process_qos>>
          /\ \A d \in Callers \ {c} : pid'[d] = pid[d]
      BY <1>1, <2>1 DEF SpawnPid, CallerType, SpawnsApart
    <3>3. 0 \notin Pid
      BY DEF Pid
    <3>4. QED
      BY <3>1, <3>2, <3>3 DEF Spawned
  <2>2. CASE BuildFails(c)
    <3>1. pid[c] \notin processes
      BY <1>1, <2>2 DEF BuildFails, SpawnsApart
    <3>2. /\ pid'[c] = 0 /\ UNCHANGED <<processes, process_qos>>
          /\ \A d \in Callers \ {c} : pid'[d] = pid[d]
      BY <1>1, <2>2 DEF BuildFails, Return, CallerType
    <3>3. 0 \notin Pid
      BY DEF Pid
    <3>4. QED
      BY <3>1, <3>2, <3>3 DEF Spawned
  <2>3. CASE InsertProcess(c)
    BY <2>3 DEF InsertProcess, Spawned
  <2>4. CASE InsertClass(c)
    <3>1. /\ UNCHANGED <<processes, pid>> /\ pid[c] \in Pid
          /\ \A p \in Pid : p # pid[c] => process_qos'[p] = process_qos[p]
      BY <1>1, <1>5, <2>4 DEF InsertClass, TableType
    <3>2. \A p \in Pid : p \in Queued \cup Held => p # pid[c]
      BY <1>1, TicketParts DEF Spawned
    <3>3. QED
      BY <3>1, <3>2 DEF Spawned
  <2>5. QED
    BY <2>1, <2>2, <2>3, <2>4 DEF SpawnStep
<1>7. OneTicket'
  <2>1. NoPlaceShared'
    BY <1>1, <1>2, TicketParts DEF NoPlaceShared
  <2>2. \A t \in Schedulers : Holds(t)' => job'[t] \notin Queued'
    BY <1>1, <1>2, <1>3, <1>4, TicketParts
  <2>3. \A t, u \in Schedulers : Holds(t)' /\ Holds(u)' /\ job'[t] = job'[u] => t = u
    BY <1>1, <1>2, <1>3, TicketParts
  <2>4. \A p \in Pid : Spawned(p)' <=> p \in Queued' \cup Held'
    BY <1>1, <1>3, <1>4, <1>6, TicketParts
  <2>5. QED
    BY <2>1, <2>2, <2>3, <2>4, TicketPartsNext
<1>8. Queued \subseteq Pid
  <2>1. \A q \in Class : Range(queues[q]) \subseteq Pid
    BY TypeParts, RangeType DEF IInv, QueueType
  <2>2. QED
    BY <2>1 DEF Queued
<1>9. ClassKept'
  <2>1. \A q \in Class : \A p \in Range(queues[q]) : p \in Queued /\ p \in Pid
    BY <1>8 DEF Queued
  <2>2. \A s \in Schedulers : Holds(s) => job[s] \in Held /\ job[s] \in Pid
    BY DEF Held, IInv, JobsArePids
  <2>3. QED
    BY <1>2, <1>3, <1>6, <2>1, <2>2 DEF IInv, ClassKept
<1>10. JobsArePids'
  BY <1>2, <1>3 DEF IInv, JobsArePids
<1>11. \A s \in Schedulers : Holds(s) => process_qos'[job[s]] = process_qos[job[s]]
  BY <1>6 DEF Held, IInv, JobsArePids
<1>12. QED
  BY <1>4, <1>7, <1>9, <1>10, <1>11

-----------------------------------------------------------------------------
(* The quantum of a running process is set when it starts, and only then.  *)
LEMMA QuantumKept ==
  ASSUME FullQuantum, UNCHANGED <<max_reductions, reductions>>,
         \A t \in Schedulers : pc'[t] = "running" =>
           /\ pc[t] = "running" /\ job'[t] = job[t]
           /\ process_qos'[job[t]] = process_qos[job[t]]
  PROVE  FullQuantum'
BY DEF FullQuantum

LEMMA SchedulerStepQuantum ==
  ASSUME IInv, NEW s \in Schedulers, SchedulerStep(s) PROVE FullQuantum'
<1>1. ThreadType /\ ProcessType /\ GovernorType /\ process_qos' = process_qos
  BY TypeParts DEF IInv, SchedulerStep, table
<1>2. \A t \in Schedulers \ {s} : pc'[t] = pc[t] /\ job'[t] = job[t]
  BY <1>1 DEF SchedulerStep, ReadThermal, ReadBattery, PopEmpty, PopJob, NothingFound,
     FindEntry, RunStart, RunEnd, Unlock, Rest, Goto, ThreadType
<1>3. \A t, u \in Schedulers : Holds(t) /\ Holds(u) /\ job[t] = job[u] => t = u
  BY TicketParts DEF IInv
<1>4. \A t \in Schedulers : Holds(t) => job[t] \in Pid
  BY DEF IInv, JobsArePids
<1>5. CASE RunStart(s)
  <2> DEFINE j == job[s]
             b == ReductionBudget(qos[s], thermal)
  <2>1. /\ Holds(s) /\ process_qos[j] = qos[s] /\ j \in Pid /\ thermal \in Thermal
    BY <1>1, <1>4, <1>5 DEF RunStart, Holds, Holding, IInv, ClassKept, GovernorType
  <2>2. /\ max_reductions' = [max_reductions EXCEPT ![j] = b]
        /\ reductions' = [reductions EXCEPT ![j] = b]
        /\ job' = job
    BY <1>5 DEF RunStart, Quantum
  <2>3. b = ReductionBudget(process_qos'[j], thermal)
    BY <1>1, <2>1
  <2> HIDE DEF b
  <2>4. reductions'[j] = b /\ max_reductions'[j] = b
    BY <1>1, <2>1, <2>2 DEF ProcessType
  <2>5. ASSUME NEW t \in Schedulers, pc'[t] = "running"
        PROVE  /\ reductions'[job'[t]] = max_reductions'[job'[t]]
               /\ \E h \in Thermal :
                    reductions'[job'[t]] = ReductionBudget(process_qos'[job'[t]], h)
    <3>1. CASE t = s
      BY <2>1, <2>2, <2>3, <2>4, <3>1
    <3>2. CASE t # s
      <4>1. pc[t] = "running" /\ Holds(t) /\ job[t] # j /\ job[t] \in Pid
        BY <1>2, <1>3, <1>4, <2>1, <2>5, <3>2 DEF Holds, Holding
      <4>2. reductions'[job[t]] = reductions[job[t]] /\ max_reductions'[job[t]] = max_reductions[job[t]]
        BY <1>1, <2>1, <2>2, <4>1 DEF ProcessType
      <4>3. QED
        BY <1>1, <2>2, <4>1, <4>2 DEF IInv, FullQuantum
    <3>3. QED
      BY <3>1, <3>2
  <2>6. QED
    BY <2>5 DEF FullQuantum
<1>6. CASE RunEnd(s)
  <2> DEFINE j == job[s]
  <2>1. Holds(s) /\ j \in Pid
    BY <1>4, <1>6 DEF RunEnd, Holds, Holding
  <2>2. /\ reductions' = [reductions EXCEPT ![j] = IF @ > 1 THEN @ - 1 ELSE 0]
        /\ UNCHANGED <<max_reductions, job>>
        /\ pc' = [pc EXCEPT ![s] = "unlock"]
    BY <1>6 DEF RunEnd, Goto
  <2>3. ASSUME NEW t \in Schedulers, pc'[t] = "running"
        PROVE  /\ reductions'[job'[t]] = max_reductions'[job'[t]]
               /\ \E h \in Thermal :
                    reductions'[job'[t]] = ReductionBudget(process_qos'[job'[t]], h)
    <3>1. t # s /\ pc[t] = "running"
      BY <1>1, <2>2, <2>3 DEF ThreadType
    <3>2. Holds(t) /\ job[t] # j /\ job[t] \in Pid
      BY <1>3, <1>4, <2>1, <3>1 DEF Holds, Holding
    <3>3. reductions'[job[t]] = reductions[job[t]]
      BY <1>1, <2>1, <2>2, <3>2 DEF ProcessType
    <3>4. QED
      BY <1>1, <2>2, <3>1, <3>3 DEF IInv, FullQuantum
  <2>4. QED
    BY <2>3 DEF FullQuantum
<1>7. CASE ~RunStart(s) /\ ~RunEnd(s)
  <2>1. UNCHANGED <<max_reductions, reductions>>
    BY <1>7 DEF SchedulerStep, ReadThermal, ReadBattery, PopEmpty, PopJob, NothingFound,
       FindEntry, Unlock, process
  <2>2. pc'[s] # "running" \/ (pc'[s] = pc[s] /\ job'[s] = job[s])
    BY <1>1, <1>7 DEF SchedulerStep, ReadThermal, ReadBattery, PopEmpty, PopJob,
       NothingFound, FindEntry, Unlock, Rest, Goto, ThreadType
  <2>3. QED
    BY <1>1, <1>2, <2>1, <2>2, QuantumKept DEF IInv
<1>8. QED
  BY <1>5, <1>6, <1>7

-----------------------------------------------------------------------------
LEMMA StepIInv == IInv /\ [Next]_vars => IInv'
<1> SUFFICES ASSUME IInv, [Next]_vars PROVE IInv'
  OBVIOUS
<1>1. TypeOK /\ SpawnsApart /\ OneTicket /\ ClassKept /\ FullQuantum /\ JobsArePids
  BY DEF IInv
<1>2. ASSUME UNCHANGED <<queues, table, thread, caller>>,
             UNCHANGED <<max_reductions, reductions>>, TypeOK'
      PROVE  IInv'
  <2>1. UNCHANGED <<processes, process_qos, pid>> /\ UNCHANGED <<pc, job, qos>>
    BY <1>2 DEF table, thread, caller
  <2>2. SameTickets
    BY <1>2, <2>1 DEF SameTickets, Holds
  <2>3. OneTicket' /\ ClassKept'
    BY <1>1, <2>2, TicketsKept
  <2>4. FullQuantum'
    BY <1>1, <1>2, <2>1, QuantumKept
  <2>5. JobsArePids'
    BY <1>1, <2>1 DEF JobsArePids, Holds
  <2>6. SpawnsApart'
    BY <1>1, <1>2, SpawnsApartKept
  <2>7. QED
    BY <1>2, <2>3, <2>4, <2>5, <2>6 DEF IInv
<1>3. CASE GovernorStep
  <2>1. UNCHANGED <<max_reductions, reductions>>
    BY <1>3 DEF GovernorStep, process
  <2>2. QED
    BY <1>1, <1>2, <1>3, <2>1, GovernorStepType DEF GovernorStep
<1>4. ASSUME NEW s \in Schedulers, SchedulerStep(s) PROVE IInv'
  <2>1. UNCHANGED <<table, caller>>
    BY <1>4 DEF SchedulerStep
  <2>2. TypeOK' /\ SpawnsApart' /\ FullQuantum'
    BY <1>1, <1>4, <2>1, SchedulerStepType, SpawnsApartKept, SchedulerStepQuantum
  <2>3. OneTicket' /\ ClassKept' /\ JobsArePids'
    <3>1. CASE PopJob(s)
      BY <2>1, <3>1, PopJobTickets
    <3>2. CASE RunEnd(s)
      BY <2>1, <3>2, RunEndTickets
    <3>3. CASE ~PopJob(s) /\ ~RunEnd(s)
      BY <1>1, <1>4, <3>3, OtherStepTickets, TicketsKept
    <3>4. QED
      BY <3>1, <3>2, <3>3
  <2>4. QED
    BY <2>2, <2>3 DEF IInv
<1>5. ASSUME NEW c \in Callers, SpawnStep(c) PROVE IInv'
  <2>1. UNCHANGED <<process, thread>>
    BY <1>5 DEF SpawnStep
  <2>2. TypeOK' /\ SpawnsApart'
    BY <1>1, <1>5, SpawnStepType, SpawnStepApart
  <2>3. /\ OneTicket' /\ ClassKept' /\ JobsArePids'
        /\ \A s \in Schedulers : Holds(s) => process_qos'[job[s]] = process_qos[job[s]]
    <3>1. CASE Schedule(c)
      BY <2>1, <3>1, ScheduleTickets DEF Schedule
    <3>2. CASE ~Schedule(c)
      BY <1>5, <3>2, SpawningTickets
    <3>3. QED
      BY <3>1, <3>2
  <2>4. FullQuantum'
    <3>1. UNCHANGED <<max_reductions, reductions>> /\ UNCHANGED <<pc, job>>
      BY <2>1 DEF process, thread
    <3>2. QED
      BY <1>1, <2>3, <3>1, QuantumKept DEF Holds, Holding
  <2>5. QED
    BY <2>2, <2>3, <2>4 DEF IInv
<1>6. ASSUME NEW p \in Pid, Send(p) PROVE IInv'
  BY <1>1, <1>2, <1>6, SendDoes
<1>7. CASE UNCHANGED vars
  <2>1. UNCHANGED <<queues, table, process, governor, thread, caller>>
    BY <1>7 DEF vars
  <2>2. TypeOK' /\ UNCHANGED <<max_reductions, reductions>>
    BY <1>1, <2>1, TypeParts, TypeKept, TypePartsNext DEF process
  <2>3. QED
    BY <1>2, <2>1, <2>2
<1>8. QED
  BY <1>3, <1>4, <1>5, <1>6, <1>7 DEF Next

-----------------------------------------------------------------------------
THEOREM SchedulerInvariant == Spec => []IInv
<1>1. QED
  BY InitIInv, StepIInv, PTL DEF Spec

(* Every variable keeps its type, for any number of threads and processes. *)
(* In particular a mailbox nobody drains never holds more than it has room *)
(* for, whatever is sent (send_message, Mailbox::enqueue).                 *)
THEOREM SchedulerTypeOK == Spec => []TypeOK
<1>1. IInv => TypeOK
  BY DEF IInv
<1>2. QED
  BY <1>1, SchedulerInvariant, PTL

(* A process has exactly one ticket to run from the end of its spawn on:   *)
(* in one place of one run queue or in the hands of one thread (schedule,  *)
(* pick_process, run_process).                                             *)
THEOREM SchedulerOneTicket == Spec => []OneTicket
<1>1. IInv => OneTicket
  BY DEF IInv
<1>2. QED
  BY <1>1, SchedulerInvariant, PTL

(* A process is always queued, picked and requeued at the class it was     *)
(* spawned with (spawn, run_process).                                      *)
THEOREM SchedulerClassKept == Spec => []ClassKept
<1>1. IInv => ClassKept
  BY DEF IInv
<1>2. QED
  BY <1>1, SchedulerInvariant, PTL

(* A process runs with the whole quantum of its class at some thermal      *)
(* state, whoever changes that state meanwhile (run_process).              *)
THEOREM SchedulerFullQuantum == Spec => []FullQuantum
<1>1. IInv => FullQuantum
  BY DEF IInv
<1>2. QED
  BY <1>1, SchedulerInvariant, PTL

-----------------------------------------------------------------------------
(* The refinement of RunPool.                                              *)
HeldBy == [s \in Schedulers |-> IF Holds(s) THEN job[s] ELSE 0]

LEMMA HeldMap ==
  ASSUME IInv
  PROVE  /\ \A s \in Schedulers : HeldBy[s] = IF Holds(s) THEN job[s] ELSE 0
         /\ {HeldBy[s] : s \in Schedulers} \ {0} = Held
<1>1. \A s \in Schedulers : HeldBy[s] = IF Holds(s) THEN job[s] ELSE 0
  BY DEF HeldBy
<1>2. \A s \in Schedulers : Holds(s) => job[s] # 0
  BY DEF IInv, JobsArePids, Pid
<1>3. ASSUME NEW x PROVE x \in {HeldBy[s] : s \in Schedulers} \ {0} <=> x \in Held
  BY <1>1, <1>2 DEF Held
<1>4. QED
  BY <1>1, <1>3

PoolStep ==
  \/ \E p \in Pid : /\ p \notin Queued \cup Held
                    /\ Queued' = Queued \cup {p}
                    /\ HeldBy' = HeldBy
  \/ \E s \in Schedulers, p \in Queued :
       /\ HeldBy[s] = 0 /\ p \in Pid
       /\ Queued' = Queued \ {p}
       /\ HeldBy' = [HeldBy EXCEPT ![s] = p]
  \/ \E s \in Schedulers :
       /\ HeldBy[s] # 0
       /\ Queued' = Queued \cup {HeldBy[s]}
       /\ HeldBy' = [HeldBy EXCEPT ![s] = 0]
  \/ Queued' = Queued /\ HeldBy' = HeldBy

LEMMA StepIsPoolStep == IInv /\ [Next]_vars => PoolStep
<1> SUFFICES ASSUME IInv, [Next]_vars PROVE PoolStep
  OBVIOUS
<1>1. ThreadType
  BY TypeParts DEF IInv
<1>2. ASSUME UNCHANGED queues, UNCHANGED thread PROVE PoolStep
  BY <1>2 DEF PoolStep, Queued, HeldBy, Holds, thread
<1>3. ASSUME SameTickets PROVE PoolStep
  BY <1>3 DEF SameTickets, PoolStep, Queued, HeldBy
<1>4. CASE GovernorStep
  BY <1>2, <1>4 DEF GovernorStep
<1>5. ASSUME NEW s \in Schedulers, SchedulerStep(s) PROVE PoolStep
  <2>1. UNCHANGED <<table, caller>>
    BY <1>5 DEF SchedulerStep
  <2>2. CASE PopJob(s)
    <3>1. job'[s] \in Queued /\ Queued' = Queued \ {job'[s]}
      BY <2>1, <2>2, PopJobTickets
    <3>2. PICK p \in Pid : job' = [job EXCEPT ![s] = p] /\ job'[s] = p
      <4>1. Queued \subseteq Pid
        <5>1. \A q \in Class : Range(queues[q]) \subseteq Pid
          BY TypeParts, RangeType DEF IInv, QueueType
        <5>2. QED
          BY <5>1 DEF Queued
      <4>2. job'[s] \in Pid
        BY <3>1, <4>1
      <4>3. job' = [job EXCEPT ![s] = job'[s]]
        BY <1>1, <2>2 DEF PopJob, ThreadType
      <4>4. QED
        BY <4>2, <4>3
    <3>3. pc[s] = "scan" /\ pc' = [pc EXCEPT ![s] = "found"]
      BY <2>2 DEF PopJob, Goto
    <3>4. HeldBy[s] = 0 /\ HeldBy' = [HeldBy EXCEPT ![s] = p]
      BY <1>1, <3>2, <3>3 DEF HeldBy, Holds, Holding, ThreadType
    <3>5. QED
      BY <3>1, <3>2, <3>4 DEF PoolStep
  <2>3. CASE RunEnd(s)
    <3>1. Queued' = Queued \cup {job[s]} /\ job[s] \in Pid
      BY <2>1, <2>3, RunEndTickets
    <3>2. pc[s] = "running" /\ pc' = [pc EXCEPT ![s] = "unlock"] /\ job' = job
      BY <2>3 DEF RunEnd, Goto
    <3>3. HeldBy[s] = job[s] /\ job[s] # 0 /\ HeldBy' = [HeldBy EXCEPT ![s] = 0]
      <4>1. HeldBy[s] = job[s] /\ job[s] # 0
        BY <3>1, <3>2 DEF HeldBy, Holds, Holding, Pid
      <4>2. HeldBy' = [HeldBy EXCEPT ![s] = 0]
        BY <1>1, <3>2 DEF HeldBy, Holds, Holding, ThreadType
      <4>3. QED
        BY <4>1, <4>2
    <3>4. QED
      BY <3>1, <3>3 DEF PoolStep
  <2>4. CASE ~PopJob(s) /\ ~RunEnd(s)
    BY <1>3, <1>5, <2>4, OtherStepTickets
  <2>5. QED
    BY <2>2, <2>3, <2>4
<1>6. ASSUME NEW c \in Callers, SpawnStep(c) PROVE PoolStep
  <2>1. UNCHANGED thread
    BY <1>6 DEF SpawnStep
  <2>2. HeldBy' = HeldBy
    BY <2>1 DEF HeldBy, Holds, thread
  <2>3. CASE Schedule(c)
    BY <2>1, <2>2, <2>3, ScheduleTickets DEF PoolStep
  <2>4. CASE ~Schedule(c)
    BY <1>6, <2>2, <2>4, SpawningTickets DEF PoolStep
  <2>5. QED
    BY <2>3, <2>4
<1>7. ASSUME NEW p \in Pid, Send(p) PROVE PoolStep
  BY <1>2, <1>7, SendDoes DEF IInv
<1>8. CASE UNCHANGED vars
  BY <1>2, <1>8 DEF vars
<1>9. QED
  BY <1>4, <1>5, <1>6, <1>7, <1>8 DEF Next

(* The run queues and the scheduler threads are a pool that gives each     *)
(* process to one thread at a time and never loses one (GlobalState,       *)
(* SchedulerThread).                                                       *)
THEOREM SchedulerImplementsPool == Spec => ImplementsPool
<1>1. Init => Pool!Init
  <2> SUFFICES ASSUME Init PROVE Pool!Init
    OBVIOUS
  <2>1. \A q \in Class : Range(queues[q]) = {}
    BY RangeEmpty DEF Init
  <2>2. Queued = {}
    BY <2>1 DEF Queued
  <2>3. \A s \in Schedulers : ~Holds(s)
    BY DEF Init, Holds, Holding
  <2>4. QED
    BY <2>2, <2>3 DEF Pool!Init
<1>2. IInv /\ [Next]_vars => [Pool!Next]_(Pool!poolVars)
  <2> SUFFICES ASSUME IInv, [Next]_vars PROVE [Pool!Next]_(Pool!poolVars)
    OBVIOUS
  <2>1. PoolStep
    BY StepIsPoolStep
  <2>2. /\ \A s \in Schedulers : HeldBy[s] = IF Holds(s) THEN job[s] ELSE 0
        /\ {HeldBy[s] : s \in Schedulers} \ {0} = Held
    BY HeldMap
  <2>3. ASSUME NEW p \in Pid, p \notin Queued \cup Held,
               Queued' = Queued \cup {p}, HeldBy' = HeldBy
        PROVE  Pool!Next
    BY <2>2, <2>3 DEF HeldBy, Pool!Next, Pool!Submit, Pool!HeldBySome
  <2>4. ASSUME NEW s \in Schedulers, NEW p \in Queued, HeldBy[s] = 0, p \in Pid,
               Queued' = Queued \ {p}, HeldBy' = [HeldBy EXCEPT ![s] = p]
        PROVE  Pool!Next
    BY <2>4, Zenon DEF HeldBy, Pool!Next, Pool!Take
  <2>5. ASSUME NEW s \in Schedulers, HeldBy[s] # 0,
               Queued' = Queued \cup {HeldBy[s]}, HeldBy' = [HeldBy EXCEPT ![s] = 0]
        PROVE  Pool!Next
    BY <2>5 DEF HeldBy, Pool!Next, Pool!PutBack
  <2>6. CASE Queued' = Queued /\ HeldBy' = HeldBy
    BY <2>6 DEF HeldBy, Pool!poolVars
  <2>7. QED
    BY <2>1, <2>3, <2>4, <2>5, <2>6 DEF PoolStep
<1>3. QED
  BY <1>1, <1>2, SchedulerInvariant, PTL DEF Spec, ImplementsPool, Pool!Spec

-----------------------------------------------------------------------------
(* While no two updates overlap, at most one is under way, the state it    *)
(* has written is in place, and between updates the flag answers for it.   *)
LoneUpdate ==
  ~overlapped =>
    /\ ~Updating => (throttling <=> Hot(thermal))
    /\ \A g \in Setters : flagging[g] # None =>
         /\ flagging[g] = thermal
         /\ \A h \in Setters : flagging[h] # None => h = g

LEMMA SetThermalAlone ==
  ASSUME TypeOK, LoneUpdate, NEW g \in Setters, NEW t \in ThermalReports, SetThermal(g, t)
  PROVE  LoneUpdate'
<1>1. CASE Updating
  <2>1. overlapped'
    BY <1>1 DEF SetThermal
  <2>2. QED
    BY <2>1 DEF LoneUpdate
<1>2. CASE ~Updating
  <2>1. /\ flagging \in [Setters -> Thermal \cup {None}]
        /\ None \notin Thermal /\ t \in Thermal
    BY SchedulerAssumption, TypeParts DEF GovernorType, Class, Thermal
  <2>2. \A h \in Setters : flagging[h] = None
    BY <1>2 DEF Updating
  <2>3. thermal' = t /\ flagging' = [flagging EXCEPT ![g] = t]
    BY DEF SetThermal
  <2>4. flagging'[g] = t /\ \A h \in Setters : h # g => flagging'[h] = None
    BY <2>1, <2>2, <2>3
  <2>5. Updating'
    BY <2>1, <2>4 DEF Updating
  <2>6. QED
    BY <2>3, <2>4, <2>5 DEF LoneUpdate
<1>3. QED
  BY <1>1, <1>2

LEMMA SetThrottlingAlone ==
  ASSUME TypeOK, LoneUpdate, NEW g \in Setters, SetThrottling(g)
  PROVE  LoneUpdate'
<1>1. /\ flagging \in [Setters -> Thermal \cup {None}] /\ flagging[g] # None
      /\ flagging' = [flagging EXCEPT ![g] = None]
      /\ overlapped' = overlapped /\ thermal' = thermal
  BY TypeParts DEF SetThrottling, GovernorType
<1>2. throttling' = Hot(flagging[g])
  BY Zenon DEF SetThrottling
<1>3. CASE overlapped
  BY <1>1, <1>3 DEF LoneUpdate
<1>4. CASE ~overlapped
  <2>1. flagging[g] = thermal /\ \A h \in Setters : flagging[h] # None => h = g
    BY <1>1, <1>4 DEF LoneUpdate
  <2>2. \A h \in Setters : flagging'[h] = None
    BY <1>1, <2>1
  <2>3. throttling' <=> Hot(thermal')
    BY <1>1, <1>2, <2>1 DEF Hot
  <2>4. QED
    BY <2>2, <2>3 DEF LoneUpdate
<1>5. QED
  BY <1>3, <1>4

LEMMA LoneUpdateUnchanged == LoneUpdate /\ UNCHANGED governor => LoneUpdate'
BY DEF governor, LoneUpdate, Updating, Hot

LEMMA LoneUpdateStep == TypeOK /\ LoneUpdate /\ [Next]_vars => LoneUpdate'
<1> SUFFICES ASSUME TypeOK, LoneUpdate, [Next]_vars PROVE LoneUpdate'
  OBVIOUS
<1>1. CASE GovernorStep
  <2>1. ASSUME NEW b \in BatteryReports, SetBattery(b) PROVE LoneUpdate'
    BY <2>1 DEF SetBattery, LoneUpdate, Updating, Hot
  <2>2. QED
    BY <1>1, <2>1, SetThermalAlone, SetThrottlingAlone DEF GovernorStep
<1>2. CASE UNCHANGED governor
  BY <1>2, LoneUpdateUnchanged
<1>3. CASE \E s \in Schedulers : SchedulerStep(s)
  BY <1>2, <1>3 DEF SchedulerStep
<1>4. CASE \E c \in Callers : SpawnStep(c)
  BY <1>2, <1>4 DEF SpawnStep
<1>5. CASE \E p \in Pid : Send(p)
  BY <1>2, <1>5 DEF Send
<1>6. QED
  BY <1>1, <1>2, <1>3, <1>4, <1>5 DEF Next, vars

(* Whatever threads report thermal states, and however their reports have  *)
(* overlapped, the next report that no other overlaps leaves is_throttling *)
(* answering for the state the governor is in (set_thermal stores the      *)
(* state and the flag separately).                                         *)
THEOREM SchedulerThrottlingAgrees == Spec => []ThrottlingAgrees
<1>1. Init => LoneUpdate
  BY DEF Init, LoneUpdate, Updating, Hot, Nominal, Serious, Critical
<1>2. LoneUpdate => ThrottlingAgrees
  BY DEF LoneUpdate, ThrottlingAgrees
<1>3. QED
  BY <1>1, <1>2, LoneUpdateStep, SchedulerTypeOK, PTL DEF Spec
=============================================================================
