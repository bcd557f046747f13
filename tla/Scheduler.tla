----------------------------- MODULE Scheduler -----------------------------
(***************************************************************************)
(* The QoS scheduler of dala_runtime/src/scheduler.rs: scheduler threads,  *)
(* the four run queues, the process tables, the thermal and battery        *)
(* governor, and the callers of spawn, send_message and update_thermal.    *)
(*                                                                         *)
(* One action is one access to shared state: a lock of a queue, an access  *)
(* of a concurrent map, an atomic, a read of an RwLock, or the acquisition *)
(* of a process's mutex with everything done under it that only its holder *)
(* can see.                                                                *)
(***************************************************************************)
EXTENDS Integers, Sequences, Functions

CONSTANTS
  Schedulers,     (* scheduler threads, config.scheduler_count of them      *)
  Callers,        (* threads that call spawn                                *)
  Setters,        (* threads that call update_thermal                       *)
  Nobody,         (* holder of a free process mutex                         *)
  None,           (* an empty Option                                        *)
  MaxPid,         (* bound: processes spawned                               *)
  InboxRoom,      (* Normal messages a mailbox accepts undrained            *)
  SpawnClasses,   (* classes callers spawn at                               *)
  ThermalReports, (* thermal states the device reports                      *)
  BatteryReports  (* battery states the device reports                      *)

Background == 0
Utility == 1
UserFacing == 2
Realtime == 3
Class == 0 .. 3

Nominal == 0
Fair == 1
Serious == 2
Critical == 3
Thermal == 0 .. 3

Battery == [level : 0 .. 100, charging : BOOLEAN]      (* level in percent *)
Pid == 1 .. MaxPid

ASSUME SchedulerAssumption ==
  /\ Nobody \notin Schedulers
  /\ None \notin Class
  /\ MaxPid \in Nat
  /\ InboxRoom \in Nat
  /\ SpawnClasses \subseteq Class
  /\ ThermalReports \subseteq Thermal
  /\ BatteryReports \subseteq Battery

VARIABLES
  (* GlobalState *)
  queues,         (* qos_queues[q]: a stack, pushed and popped at its end   *)
  processes,      (* pids present in the processes map                      *)
  process_qos,    (* process_qos[p], None while the map has no entry        *)
  next_pid,
  (* each process, behind its mutex *)
  holder,         (* the scheduler holding the mutex, or Nobody             *)
  status,
  max_reductions, reductions,
  inbox,          (* messages in the mailbox, of which none is ever read    *)
  (* Governor *)
  thermal, battery, throttling,
  (* locals of each scheduler thread *)
  pc,
  attempt,        (* 1: pick_process from run, 2: from steal_work           *)
  seen,           (* thermal state read by max_qos                          *)
  left,           (* classes still to be scanned by pick_process            *)
  job, qos,       (* the process picked, 0 for none, and its class          *)
  (* locals of each caller and setter *)
  step, pid, want,
  flagging,       (* thermal state written whose flag is still to be stored *)
  overlapped      (* history: the latest update began during another one    *)

governor == <<thermal, battery, throttling, flagging, overlapped>>
table == <<processes, process_qos, next_pid>>
process == <<holder, status, max_reductions, reductions, inbox>>
thread == <<pc, attempt, seen, left, job, qos>>
caller == <<step, pid, want>>
vars == <<queues, table, process, governor, thread, caller>>

Init ==
  /\ queues = [q \in Class |-> <<>>]
  /\ processes = {}
  /\ process_qos = [p \in Pid |-> None]
  /\ next_pid = 1
  /\ holder = [p \in Pid |-> Nobody]
  /\ status = [p \in Pid |-> "Runnable"]
  /\ max_reductions = [p \in Pid |-> 2000]
  /\ reductions = [p \in Pid |-> 2000]
  /\ inbox = [p \in Pid |-> 0]
  /\ thermal = Nominal
  /\ battery = [level |-> 100, charging |-> FALSE]
  /\ throttling = FALSE
  /\ pc = [s \in Schedulers |-> "pick"]
  /\ attempt = [s \in Schedulers |-> 1]
  /\ seen = [s \in Schedulers |-> Nominal]
  /\ left = [s \in Schedulers |-> {}]
  /\ job = [s \in Schedulers |-> 0]
  /\ qos = [s \in Schedulers |-> Background]
  /\ step = [c \in Callers |-> "idle"]
  /\ pid = [c \in Callers |-> 0]
  /\ want = [c \in Callers |-> Background]
  /\ flagging = [g \in Setters |-> None]
  /\ overlapped = FALSE

Goto(s, l) == pc' = [pc EXCEPT ![s] = l]

-----------------------------------------------------------------------------
(* Governor                                                                *)

Drained(b, percent) == b.level < percent /\ ~b.charging

MaxQos(t, b) ==
  CASE t = Critical -> Realtime
    [] t = Serious -> IF Drained(b, 20) THEN UserFacing ELSE Utility
    [] t = Fair -> IF Drained(b, 10) THEN Utility ELSE Background
    [] t = Nominal -> Background

BaseBudget == [q \in Class |-> IF q = UserFacing THEN 2000
                               ELSE IF q = Utility THEN 1000 ELSE 500]
BudgetPercent == [t \in Thermal |-> IF t = Nominal THEN 100
                                    ELSE IF t = Fair THEN 80
                                    ELSE IF t = Serious THEN 50 ELSE 25]

ReductionBudget(q, t) == (BaseBudget[q] * BudgetPercent[t]) \div 100

Hot(t) == t \in {Serious, Critical}

Updating == \E g \in Setters : flagging[g] # None

(* update_thermal: the state, then the flag, two separate stores, by any   *)
(* thread that has the scheduler.                                          *)
SetThermal(g, t) ==
  /\ flagging[g] = None
  /\ thermal' = t
  /\ flagging' = [flagging EXCEPT ![g] = t]
  /\ overlapped' = Updating
  /\ UNCHANGED <<battery, throttling>>

(* Seeded fault: the flag is only ever raised.                             *)
SetThrottling_Sticks(g) ==
  /\ flagging[g] # None
  /\ throttling' = (throttling \/ Hot(flagging[g]))
  /\ flagging' = [flagging EXCEPT ![g] = None]
  /\ UNCHANGED <<thermal, battery, overlapped>>

SetThrottling(g) ==
  /\ flagging[g] # None
  /\ throttling' = Hot(flagging[g])
  /\ flagging' = [flagging EXCEPT ![g] = None]
  /\ UNCHANGED <<thermal, battery, overlapped>>

SetBattery(b) ==
  /\ battery' = b
  /\ UNCHANGED <<thermal, throttling, flagging, overlapped>>

GovernorStep ==
  /\ \/ \E g \in Setters, t \in ThermalReports : SetThermal(g, t)
     \/ \E g \in Setters : SetThrottling(g)
     \/ \E b \in BatteryReports : SetBattery(b)
  /\ UNCHANGED <<queues, table, process, thread, caller>>

-----------------------------------------------------------------------------
(* Run queues                                                              *)

Push(p, q) == queues' = [queues EXCEPT ![q] = Append(@, p)]
Top(q) == queues[q][Len(queues[q])]
Popped(q) == SubSeq(queues[q], 1, Len(queues[q]) - 1)

(* pick_process: max_qos reads the thermal state and then the battery; the *)
(* classes above its answer are skipped, the others tried from the highest *)
(* down, each under its own lock.  steal_work is pick_process again.       *)

ReadThermal(s) ==
  /\ pc[s] = "pick"
  /\ seen' = [seen EXCEPT ![s] = thermal]
  /\ Goto(s, "limit")
  /\ UNCHANGED <<queues, process, attempt, left, job, qos>>

(* Seeded faults: the limit is exclusive; the limit is not looked at.      *)
Allowed_Exclusive(limit) == {q \in Class : ~(q >= limit)}
Allowed_Everything(limit) == Class

Allowed(limit) == {q \in Class : ~(q > limit)}

ReadBattery(s) ==
  /\ pc[s] = "limit"
  /\ left' = [left EXCEPT ![s] = Allowed(MaxQos(seen[s], battery))]
  /\ seen' = [seen EXCEPT ![s] = Nominal]
  /\ Goto(s, "scan")
  /\ UNCHANGED <<queues, process, attempt, job, qos>>

Highest(s, q) == q \in left[s] /\ \A r \in left[s] : r <= q

PopEmpty(s) == \E q \in left[s] :
  /\ pc[s] = "scan"
  /\ Highest(s, q)
  /\ queues[q] = <<>>
  /\ left' = [left EXCEPT ![s] = @ \ {q}]
  /\ UNCHANGED <<queues, process, pc, attempt, seen, job, qos>>

PopJob(s) == \E q \in left[s] :
  /\ pc[s] = "scan"
  /\ Highest(s, q)
  /\ queues[q] # <<>>
  /\ queues' = [queues EXCEPT ![q] = Popped(q)]
  /\ job' = [job EXCEPT ![s] = Top(q)]
  /\ qos' = [qos EXCEPT ![s] = q]
  /\ left' = [left EXCEPT ![s] = {}]
  /\ attempt' = [attempt EXCEPT ![s] = 1]
  /\ Goto(s, "found")
  /\ UNCHANGED <<process, seen>>

(* Nothing found: steal, and after that sleep and start over.              *)
NothingFound(s) ==
  /\ pc[s] = "scan"
  /\ left[s] = {}
  /\ attempt' = [attempt EXCEPT ![s] = 3 - @]
  /\ Goto(s, "pick")
  /\ UNCHANGED <<queues, process, seen, left, job, qos>>

-----------------------------------------------------------------------------
(* run_process.  Locals that go out of scope return to their first value.  *)

Rest(s) ==
  /\ Goto(s, "pick")
  /\ job' = [job EXCEPT ![s] = 0]
  /\ qos' = [qos EXCEPT ![s] = Background]

FindEntry(s) ==
  /\ pc[s] = "found"
  /\ IF job[s] \in processes
     THEN Goto(s, "entry") /\ UNCHANGED <<job, qos>>
     ELSE Rest(s)
  /\ UNCHANGED <<queues, process, attempt, seen, left>>

(* Seeded fault: reset_reductions is forgotten.                            *)
Quantum_NoReset(s, budget) ==
  /\ max_reductions' = [max_reductions EXCEPT ![job[s]] = budget]
  /\ UNCHANGED reductions

Quantum(s, budget) ==
  /\ max_reductions' = [max_reductions EXCEPT ![job[s]] = budget]
  /\ reductions' = [reductions EXCEPT ![job[s]] = budget]

(* Seeded fault: a process whose mutex is taken is passed over (try_lock). *)
RunStart_TryLock(s) ==
  /\ pc[s] = "entry"
  /\ IF holder[job[s]] = Nobody
     THEN /\ holder' = [holder EXCEPT ![job[s]] = s]
          /\ status' = [status EXCEPT ![job[s]] = "Running"]
          /\ Quantum(s, ReductionBudget(qos[s], thermal))
          /\ Goto(s, "running")
          /\ UNCHANGED <<job, qos>>
     ELSE Rest(s) /\ UNCHANGED <<holder, status, max_reductions, reductions>>
  /\ UNCHANGED <<queues, inbox, attempt, seen, left>>

RunStart(s) ==
  /\ pc[s] = "entry"
  /\ holder[job[s]] = Nobody
  /\ holder' = [holder EXCEPT ![job[s]] = s]
  /\ status' = [status EXCEPT ![job[s]] = "Running"]
  /\ Quantum(s, ReductionBudget(qos[s], thermal))
  /\ Goto(s, "running")
  /\ UNCHANGED <<queues, inbox, attempt, seen, left, job, qos>>

(* Seeded fault: the process goes back at the default class.               *)
RunEnd_DefaultClass(s) ==
  /\ pc[s] = "running"
  /\ reductions' = [reductions EXCEPT ![job[s]] = IF @ > 1 THEN @ - 1 ELSE 0]
  /\ status' = [status EXCEPT ![job[s]] = "Runnable"]
  /\ Push(job[s], Utility)
  /\ Goto(s, "unlock")
  /\ UNCHANGED <<holder, max_reductions, inbox, attempt, seen, left, job, qos>>

(* One reduction is consumed, the process is pushed back, then unlocked.   *)
RunEnd(s) ==
  /\ pc[s] = "running"
  /\ reductions' = [reductions EXCEPT ![job[s]] = IF @ > 1 THEN @ - 1 ELSE 0]
  /\ status' = [status EXCEPT ![job[s]] = "Runnable"]
  /\ Push(job[s], qos[s])
  /\ Goto(s, "unlock")
  /\ UNCHANGED <<holder, max_reductions, inbox, attempt, seen, left, job, qos>>

Unlock(s) ==
  /\ pc[s] = "unlock"
  /\ holder' = [holder EXCEPT ![job[s]] = Nobody]
  /\ Rest(s)
  /\ UNCHANGED <<queues, status, max_reductions, reductions, inbox, attempt, seen,
                 left>>

SchedulerStep(s) ==
  /\ \/ ReadThermal(s) \/ ReadBattery(s)
     \/ PopEmpty(s) \/ PopJob(s) \/ NothingFound(s)
     \/ FindEntry(s) \/ RunStart(s) \/ RunEnd(s) \/ Unlock(s)
  /\ UNCHANGED <<table, governor, caller>>

-----------------------------------------------------------------------------
(* spawn: the pid, the process, its class, its place in a run queue.       *)

SpawnPid(c, q) ==
  /\ step[c] = "idle"
  /\ next_pid <= MaxPid
  /\ pid' = [pid EXCEPT ![c] = next_pid]
  /\ want' = [want EXCEPT ![c] = q]
  /\ next_pid' = next_pid + 1
  /\ step' = [step EXCEPT ![c] = "build"]
  /\ UNCHANGED <<queues, processes, process_qos>>

Return(c) ==
  /\ step' = [step EXCEPT ![c] = "idle"]
  /\ pid' = [pid EXCEPT ![c] = 0]
  /\ want' = [want EXCEPT ![c] = Background]

(* The heap or the stack cannot be allocated: spawn returns the pid anyway.*)
BuildFails(c) ==
  /\ step[c] = "build"
  /\ Return(c)
  /\ UNCHANGED <<queues, processes, process_qos, next_pid>>

InsertProcess(c) ==
  /\ step[c] = "build"
  /\ processes' = processes \cup {pid[c]}
  /\ step' = [step EXCEPT ![c] = "class"]
  /\ UNCHANGED <<queues, process_qos, next_pid, pid, want>>

InsertClass(c) ==
  /\ step[c] = "class"
  /\ process_qos' = [process_qos EXCEPT ![pid[c]] = want[c]]
  /\ step' = [step EXCEPT ![c] = "schedule"]
  /\ UNCHANGED <<queues, processes, next_pid, pid, want>>

Schedule(c) ==
  /\ step[c] = "schedule"
  /\ Push(pid[c], want[c])
  /\ Return(c)
  /\ UNCHANGED <<processes, process_qos, next_pid>>

SpawnStep(c) ==
  /\ \/ \E q \in SpawnClasses : SpawnPid(c, q)
     \/ BuildFails(c) \/ InsertProcess(c) \/ InsertClass(c) \/ Schedule(c)
  /\ UNCHANGED <<process, governor, thread>>

(* The class a woken process goes back at.                                 *)
Woken(p) == IF process_qos[p] = None THEN Utility ELSE process_qos[p]

(* Seeded faults: every message schedules; a full mailbox still grows.     *)
Send_AlwaysSchedules(p) ==
  /\ p \in processes
  /\ holder[p] = Nobody
  /\ inbox' = [inbox EXCEPT ![p] = IF @ < InboxRoom THEN @ + 1 ELSE @]
  /\ Push(p, Woken(p))
  /\ UNCHANGED <<status, holder, max_reductions, reductions, table, governor,
                 thread, caller>>

Send_Unbounded(p) ==
  /\ p \in processes
  /\ holder[p] = Nobody
  /\ inbox' = [inbox EXCEPT ![p] = @ + 1]
  /\ UNCHANGED <<status, queues, holder, max_reductions, reductions, table, governor,
                 thread, caller>>

(* send_message, under the process's mutex: a full mailbox drops the       *)
(* message, and only a Waiting process is scheduled.                       *)
Send(p) ==
  /\ p \in processes
  /\ holder[p] = Nobody
  /\ inbox' = [inbox EXCEPT ![p] = IF @ < InboxRoom THEN @ + 1 ELSE @]
  /\ IF status[p] = "Waiting"
     THEN /\ status' = [status EXCEPT ![p] = "Runnable"]
          /\ Push(p, Woken(p))
     ELSE UNCHANGED <<status, queues>>
  /\ UNCHANGED <<holder, max_reductions, reductions, table, governor, thread, caller>>

Next ==
  \/ GovernorStep
  \/ \E s \in Schedulers : SchedulerStep(s)
  \/ \E c \in Callers : SpawnStep(c)
  \/ \E p \in Pid : Send(p)

(* Each scheduler is an operating-system thread in an endless loop.        *)
Fairness == \A s \in Schedulers : WF_vars(SchedulerStep(s))

Spec == Init /\ [][Next]_vars
FairSpec == Spec /\ Fairness

-----------------------------------------------------------------------------
Holding == {"found", "entry", "running"}
Holds(s) == pc[s] \in Holding
Queued == UNION {Range(queues[q]) : q \in Class}

(* Every variable, local and shared, keeps its type; a mailbox never holds *)
(* more than it has room for.                                              *)
TypeOK ==
  /\ queues \in [Class -> Seq(Pid)]
  /\ processes \in SUBSET Pid
  /\ process_qos \in [Pid -> Class \cup {None}]
  /\ next_pid \in 1 .. MaxPid + 1
  /\ holder \in [Pid -> Schedulers \cup {Nobody}]
  /\ status \in [Pid -> {"Runnable", "Running"}]
  /\ max_reductions \in [Pid -> 1 .. 2000]
  /\ reductions \in [Pid -> 0 .. 2000]
  /\ inbox \in [Pid -> 0 .. InboxRoom]
  /\ thermal \in Thermal
  /\ battery \in Battery
  /\ throttling \in BOOLEAN
  /\ flagging \in [Setters -> Thermal \cup {None}]
  /\ overlapped \in BOOLEAN
  /\ pc \in [Schedulers -> {"pick", "limit", "scan", "unlock"} \cup Holding]
  /\ attempt \in [Schedulers -> 1 .. 2]
  /\ seen \in [Schedulers -> Thermal]
  /\ left \in [Schedulers -> SUBSET Class]
  /\ job \in [Schedulers -> 0 .. MaxPid]
  /\ qos \in [Schedulers -> Class]
  /\ step \in [Callers -> {"idle", "build", "class", "schedule"}]
  /\ pid \in [Callers -> 0 .. MaxPid]
  /\ want \in [Callers -> Class]

(* A process whose spawn has finished, and not only its insertion.         *)
Spawned(p) ==
  /\ p \in processes
  /\ \A c \in Callers : pid[c] # p

(* No process is in two places of the run queues, in a queue and in the    *)
(* hands of a scheduler thread, or in the hands of two.                    *)
NoSecondTicket ==
  /\ \A q, r \in Class : \A i \in DOMAIN queues[q], j \in DOMAIN queues[r] :
       queues[q][i] = queues[r][j] => q = r /\ i = j
  /\ \A s \in Schedulers : Holds(s) => job[s] \notin Queued
  /\ \A s, t \in Schedulers : Holds(s) /\ Holds(t) /\ job[s] = job[t] => s = t

(* A process has exactly one ticket to run from the end of its spawn on:   *)
(* no interleaving of spawns, sends, picks and requeues loses a process or *)
(* has it run by two threads at once.                                      *)
OneTicket ==
  /\ NoSecondTicket
  /\ \A p \in Pid :
       Spawned(p) <=> p \in Queued \cup {job[s] : s \in {t \in Schedulers : Holds(t)}}

(* A process is always queued, picked and requeued at the class it was     *)
(* spawned with.                                                           *)
ClassKept ==
  /\ \A q \in Class : \A p \in Range(queues[q]) : process_qos[p] = q
  /\ \A s \in Schedulers : Holds(s) => process_qos[job[s]] = qos[s]

(* A process starts to run with a full quantum of its own class, at some   *)
(* thermal state, and none is ever shorter than one reduction.             *)
FullQuantum ==
  \A s \in Schedulers : pc[s] = "running" =>
    /\ reductions[job[s]] = max_reductions[job[s]]
    /\ \E t \in Thermal :
         reductions[job[s]] = ReductionBudget(process_qos[job[s]], t)

(* An update_thermal that overlaps no other one leaves is_throttling       *)
(* answering for the thermal state the governor is in, in whatever         *)
(* disagreement the updates before it had left the two.                    *)
ThrottlingAgrees ==
  ~Updating /\ ~overlapped => (throttling <=> Hot(thermal))

(* "Check if thermal throttling is active" (scheduler.rs, is_throttling):  *)
(* with no update under way the flag answers for the thermal state.        *)
FlagFollowsState ==
  ~Updating => (throttling <=> Hot(thermal))

(* A class the governor rules out for good is, after a while, run no more: *)
(* no thread keeps acting on readings it took before.                      *)
LimitTakesEffect ==
  \A q \in Class :
    <>[](q > MaxQos(thermal, battery))
      => <>[](\A s \in Schedulers : pc[s] = "found" => qos[s] # q)

(* Work waiting in the lowest class never leaves the whole scheduler idle: *)
(* max_qos bounds the classes from above, so that no report, a hot device  *)
(* or an empty battery included, stops Background work.                    *)
WorkConserving ==
  queues[Background] # <<>> ~> \E s \in Schedulers : pc[s] = "running"

(* The least class the documents let run: "Hot - only real-time work"      *)
(* (scheduler.rs, ThermalState) and, of the battery, "<10% only UserFacing *)
(* and above" (docs/architecture.md).                                      *)
DocumentedFloor(t, b) ==
  IF t = Critical THEN Realtime ELSE IF Drained(b, 10) THEN UserFacing ELSE Background

(* A class that the documents rule out for good is, after a while, run no  *)
(* more.                                                                   *)
FloorKept ==
  \A q \in Class :
    <>[](q < DocumentedFloor(thermal, battery))
      => <>[](\A s \in Schedulers : pc[s] = "found" => qos[s] # q)

(* The run queues and the threads implement the pool of RunPool.           *)
Pool == INSTANCE RunPool WITH
  Jobs <- Pid, Workers <- Schedulers, NoJob <- 0,
  ready <- Queued,
  held <- [s \in Schedulers |-> IF Holds(s) THEN job[s] ELSE 0]

ImplementsPool == Pool!Spec

(* The documented order, "The scheduler always picks from the highest-     *)
(* priority non-empty queue first" (docs/dala_runtime.md): a Realtime      *)
(* process that is ready gets to run.                                      *)
RealtimeRuns ==
  \A p \in Pid :
    p \in Range(queues[Realtime]) ~> (\E s \in Schedulers : pc[s] = "running" /\ job[s] = p)
=============================================================================
