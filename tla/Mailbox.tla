------------------------------ MODULE Mailbox ------------------------------
(***************************************************************************)
(* The typed, priority-aware mailbox of dala_runtime/src/mailbox.rs.       *)
(* Every operation takes &mut self, behind the Mutex of Process::mailbox,  *)
(* so a call is one step; what is hard is the order of the calls.          *)
(*                                                                         *)
(* A message is its send number, its priority and its type tag; payload    *)
(* and sender are carried and never looked at.  `accepted' and `taken'     *)
(* are history: the messages enqueue answered true for, and those handed   *)
(* out by dequeue, dequeue_typed or drain.                                 *)
(***************************************************************************)
EXTENDS Integers, Sequences, Functions

CONSTANTS
  MaxCapacity,    (* max_capacity of with_capacity                          *)
  Tags,           (* type tags in use                                       *)
  NoTag,          (* type_tag = None                                        *)
  MaxSends,       (* bound: calls of enqueue                                *)
  Traffic         (* Traffic[n]: the <<priority, tag>> the n-th send may be *)

Priority == 0 .. 3          (* Low, Normal, High, Critical *)
TagOrNone == Tags \cup {NoTag}

ASSUME MailboxAssumption ==
  /\ MaxCapacity \in Nat
  /\ MaxSends \in Nat
  /\ NoTag \notin Tags
  /\ Traffic \in [0 .. MaxSends - 1 -> SUBSET (Priority \X TagOrNone)]

Envelope == [id : 0 .. MaxSends - 1, priority : Priority, tag : TagOrNone]

QueueCapacity == MaxCapacity \div 4
OverflowCapacity == MaxCapacity \div 8

VARIABLES
  queues,         (* queues[p]: the FIFO of priority p                      *)
  overflow,       (* the overflow buffer                                    *)
  len,            (* the atomic total                                       *)
  type_index,     (* type_index[t]: queue indices noted for tag t           *)
  sent,           (* enqueue calls made                                     *)
  accepted, taken

contents == <<queues, overflow, len, type_index>>
vars == <<queues, overflow, len, type_index, sent, accepted, taken>>

InQueues == UNION {Range(queues[p]) : p \in Priority}
Pending == InQueues \cup Range(overflow)

Init ==
  /\ queues = [p \in Priority |-> <<>>]
  /\ overflow = <<>>
  /\ len = 0
  /\ type_index = [t \in Tags |-> <<>>]
  /\ sent = 0
  /\ accepted = {}
  /\ taken = {}

-----------------------------------------------------------------------------
(* enqueue: a full mailbox refuses; else the queue of the priority takes   *)
(* the message and the type index notes the queue; else the overflow       *)
(* buffer, which the index does not cover; else it is refused too.         *)

QueueHasRoom(p) == Len(queues[p]) < QueueCapacity

(* Seeded fault: only the first queue seen for a tag is noted.             *)
NoteTag_FirstOnly(m) ==
  IF m.tag = NoTag \/ type_index[m.tag] # <<>> THEN type_index
  ELSE [type_index EXCEPT ![m.tag] = <<m.priority>>]

NoteTag(m) ==
  IF m.tag = NoTag THEN type_index
  ELSE [type_index EXCEPT ![m.tag] = Append(@, m.priority)]

(* Seeded fault: the total is not looked at while the queue has room.      *)
EnqueueToQueue_IgnoresTotal(m) ==
  /\ QueueHasRoom(m.priority)
  /\ queues' = [queues EXCEPT ![m.priority] = Append(@, m)]
  /\ len' = len + 1
  /\ type_index' = NoteTag(m)
  /\ accepted' = accepted \cup {m}
  /\ UNCHANGED <<overflow, taken>>

EnqueueToQueue(m) ==
  /\ len < MaxCapacity
  /\ QueueHasRoom(m.priority)
  /\ queues' = [queues EXCEPT ![m.priority] = Append(@, m)]
  /\ len' = len + 1
  /\ type_index' = NoteTag(m)
  /\ accepted' = accepted \cup {m}
  /\ UNCHANGED <<overflow, taken>>

(* Seeded fault: an overflowed message is not counted.                     *)
EnqueueToOverflow_Uncounted(m) ==
  /\ len < MaxCapacity
  /\ ~QueueHasRoom(m.priority)
  /\ Len(overflow) < OverflowCapacity
  /\ overflow' = Append(overflow, m)
  /\ accepted' = accepted \cup {m}
  /\ UNCHANGED <<queues, len, type_index, taken>>

EnqueueToOverflow(m) ==
  /\ len < MaxCapacity
  /\ ~QueueHasRoom(m.priority)
  /\ Len(overflow) < OverflowCapacity
  /\ overflow' = Append(overflow, m)
  /\ len' = len + 1
  /\ accepted' = accepted \cup {m}
  /\ UNCHANGED <<queues, type_index, taken>>

EnqueueRefused(m) ==
  /\ \/ len >= MaxCapacity
     \/ ~QueueHasRoom(m.priority) /\ Len(overflow) >= OverflowCapacity
  /\ UNCHANGED <<contents, accepted, taken>>

Enqueue(m) ==
  /\ sent' = sent + 1
  /\ EnqueueToQueue(m) \/ EnqueueToOverflow(m) \/ EnqueueRefused(m)

Offered ==
  {[id |-> sent, priority |-> o[1], tag |-> o[2]] : o \in Traffic[sent]}

-----------------------------------------------------------------------------
(* dequeue: the front of the highest non-empty queue, else of overflow.    *)

Highest(p) ==
  /\ queues[p] # <<>>
  /\ \A q \in Priority : q > p => queues[q] = <<>>

PopQueue(p) ==
  /\ queues' = [queues EXCEPT ![p] = Tail(@)]
  /\ len' = len - 1
  /\ taken' = taken \cup {Head(queues[p])}
  /\ UNCHANGED <<overflow, type_index, sent, accepted>>

DequeueQueue(p) == Highest(p) /\ PopQueue(p)

(* Seeded fault: overflow is served while queues still hold messages.      *)
DequeueOverflow_Early ==
  /\ overflow # <<>>
  /\ overflow' = Tail(overflow)
  /\ len' = len - 1
  /\ taken' = taken \cup {Head(overflow)}
  /\ UNCHANGED <<queues, type_index, sent, accepted>>

DequeueOverflow ==
  /\ \A p \in Priority : queues[p] = <<>>
  /\ overflow # <<>>
  /\ overflow' = Tail(overflow)
  /\ len' = len - 1
  /\ taken' = taken \cup {Head(overflow)}
  /\ UNCHANGED <<queues, type_index, sent, accepted>>

Dequeue == (\E p \in Priority : DequeueQueue(p)) \/ DequeueOverflow

-----------------------------------------------------------------------------
(* dequeue_typed: the indices noted for the tag, in the order they were    *)
(* noted; the first whose queue has a message of that tag at its front     *)
(* gives it up.  No entry of the index is ever removed here.               *)

FrontHasTag(p, t) == queues[p] # <<>> /\ Head(queues[p]).tag = t

Hit(t, i) ==
  /\ i \in DOMAIN type_index[t]
  /\ FrontHasTag(type_index[t][i], t)
  /\ \A j \in 1 .. i - 1 : ~FrontHasTag(type_index[t][j], t)

DequeueTyped(t) ==
  \E i \in DOMAIN type_index[t] : Hit(t, i) /\ PopQueue(type_index[t][i])

(* Seeded faults: overflow is cleared but not returned; the total is kept. *)
Drain_DropsOverflow ==
  /\ queues' = [p \in Priority |-> <<>>]
  /\ overflow' = <<>>
  /\ len' = 0
  /\ type_index' = [t \in Tags |-> <<>>]
  /\ taken' = taken \cup InQueues
  /\ UNCHANGED <<sent, accepted>>

Drain_KeepsTotal ==
  /\ queues' = [p \in Priority |-> <<>>]
  /\ overflow' = <<>>
  /\ type_index' = [t \in Tags |-> <<>>]
  /\ taken' = taken \cup Pending
  /\ UNCHANGED <<len, sent, accepted>>

(* drain: everything out, counters and index reset.                        *)
Drain ==
  /\ queues' = [p \in Priority |-> <<>>]
  /\ overflow' = <<>>
  /\ len' = 0
  /\ type_index' = [t \in Tags |-> <<>>]
  /\ taken' = taken \cup Pending
  /\ UNCHANGED <<sent, accepted>>

Next ==
  \/ sent < MaxSends /\ \E m \in Offered : Enqueue(m)
  \/ Dequeue
  \/ \E t \in Tags : DequeueTyped(t)
  \/ Drain

Spec == Init /\ [][Next]_vars

-----------------------------------------------------------------------------
(* Every field keeps the type mailbox.rs gives it; usize never goes below  *)
(* zero.                                                                   *)
TypeOK ==
  /\ queues \in [Priority -> Seq(Envelope)]
  /\ overflow \in Seq(Envelope)
  /\ len \in Nat
  /\ type_index \in [Tags -> Seq(Priority)]
  /\ sent \in 0 .. MaxSends
  /\ accepted \in SUBSET Envelope
  /\ taken \in SUBSET Envelope

(* The separately kept total agrees with what the five buffers hold, so    *)
(* len() and is_empty() can be trusted and enqueue's bound is the real one.*)
TotalIn(qs) == Len(qs[0]) + Len(qs[1]) + Len(qs[2]) + Len(qs[3])

LenAgrees == len = TotalIn(queues) + Len(overflow)

(* Position order of a buffer is send order, with no message twice.        *)
InSendOrder(s) == \A i, j \in DOMAIN s : i < j => s[i].id < s[j].id

(* Every buffer is in send order, each queue holds only its own priority,  *)
(* and no message is in two buffers: overflow really is beside the queues. *)
BuffersDisjoint ==
  /\ \A p \in Priority : InSendOrder(queues[p])
  /\ \A p \in Priority : \A m \in Range(queues[p]) : m.priority = p
  /\ InSendOrder(overflow)
  /\ InQueues \cap Range(overflow) = {}

(* No message enqueue said yes to is lost, and none is handed out twice or *)
(* out of nothing: what the buffers hold is what was accepted and not yet  *)
(* taken.                                                                  *)
Conservation ==
  /\ BuffersDisjoint
  /\ taken \subseteq accepted
  /\ Pending = accepted \ taken

(* The index loses nothing it should know: a typed message waiting in a    *)
(* queue has that queue among the indices of its tag.                      *)
IndexCoversQueues ==
  \A p \in Priority : \A m \in Range(queues[p]) :
    m.tag # NoTag => p \in Range(type_index[m.tag])

(* dequeue_typed through the index, stale entries and all, finds a message *)
(* exactly when looking at the front of all four queues would.             *)
TypedLookupMatchesScan ==
  \A t \in Tags :
    (\E i \in DOMAIN type_index[t] : Hit(t, i))
      <=> (\E p \in Priority : FrontHasTag(p, t))

(* Between messages of one priority, the only overtaking is by a message   *)
(* that found room in the queue after an older one went to overflow: no    *)
(* call of dequeue, dequeue_typed or drain reorders a queue.               *)
Overtakes(m, older) == older.priority = m.priority /\ older.id < m.id

FifoExceptOverflow ==
  [][\A m \in taken' \ taken, older \in Pending' :
       Overtakes(m, older) => /\ older \in Range(overflow)
                              /\ m \notin Range(overflow)]_vars

(* The claim of dequeue's comment, "Try to dequeue the highest-priority    *)
(* message": nothing of a higher priority is left waiting by a dequeue.    *)
HighestPriorityFirst ==
  [][Dequeue => \A m \in taken' \ taken, other \in Pending :
                  other.priority <= m.priority]_vars

(* The mailbox implements the bounded bag it promises to be.               *)
Promise == INSTANCE Inbox WITH
  Envelopes <- Envelope, Capacity <- MaxCapacity, size <- len

ImplementsInbox == Promise!Spec
=============================================================================
