# A verification project for dala_runtime

`dala_runtime` is a Rust workspace that compiles BEAM modules through a typed
IR and runs them as actors on a QoS scheduler. This directory holds TLA+
specifications of its core, the TLC runs that check them on small instances and
the TLAPS proofs that hold for every value of their constants.

Every definition is translated from the source. `PROJECT.json` names the lines
each one stands for (`map`), the hazards of the code, and the divergences
between the code and its documents found on the way (`findings`).

## 1. Inventory

| Part | State it keeps | Operations | Talks to |
|---|---|---|---|
| Mailbox (`dala_runtime/src/mailbox.rs`) | four priority queues, overflow buffer, atomic total, type index | enqueue, dequeue, dequeue_typed, peek, drain | owned by a process, behind its `Mutex` |
| Scheduler and governor (`scheduler.rs`) | four run queues, process and class maps, next pid, thermal and battery state, throttling flag | thread loop (pick, steal, run), spawn, send_message, update_thermal, update_battery | processes, governor |
| Process (`process.rs`) | heap, stack, registers, reductions, catch stack, status | alloc, push/pop, consume_reductions, send, grow_heap, drop | mailbox, arena, GC |
| Garbage collector (`gc/`) | object headers, semi-spaces, root set | maybe_collect, copy_collection, header updates | process heap |
| Memory regions, arena (`memory/`) | cursors, block lists with reference counts, resource table | allocate, incref/decref, register/transfer/release, reset | GC, AI tensors |
| Atoms, ports, BIFs, exceptions | atom table (two maps), port registry | lookup_or_insert, register/get/remove, arithmetic | everything |
| AI layer (`ai/`) | pipeline buffers, worker admission, model registry | push_input, submit, load/unload | tensors |
| Dispatch (`dala_dispatch`) | export table, module map, lazy references | register_module, lookup_function, hot_replace | code generator |
| IR and optimiser (`dala_ir`) | functions, blocks, instructions | twelve passes iterated to a fixed point | code generator |
| Interpreter, code generator (`dala_codegen`) | registers, block cursor, stack maps | compile_function, execute | IR, process |
| BEAM loader (`dala_beam_loader`) | reader position | chunk framing, table parsing | AOT |
| AOT pipeline (`dala_aot`) | stage results, statistics | load, translate, optimise, compile, emit | all of the compiler |

What is hard about it:

- **Concurrency.** Scheduler threads, spawning callers, senders and device
  callbacks share queues, maps and atomics without a common lock; loaders of
  code share concurrent maps; allocators and object headers use atomics with
  separate loads and stores.
- **Limits.** A mailbox has three limits that interact; mailboxes, buffers and
  arenas are bounded and drop or refuse silently.
- **Derived state that goes stale.** The mailbox's total and type index, the
  class a process is requeued at, the export table beside the module map.
- **Liveness.** A governor that rules classes out, run queues that are stacks.
- **Transformations.** Optimiser passes and the copying collector must preserve
  meaning.

What makes each part correct is stated as the properties of its module below.
Section 6 says what is not modelled and why.

## 2. Modules

| Module | Role | Source |
|---|---|---|
| `Inbox` | abstract: a bounded bag of messages | what a mailbox promises |
| `Mailbox` | the mailbox, one action per branch of each operation | `mailbox.rs` |
| `RunPool` | abstract: a pool of processes and the workers that hold them | what scheduling promises |
| `Scheduler` | threads, run queues, governor, spawn, send | `scheduler.rs`, `process.rs` |
| `Dispatch` | loaders, export table, module map | `dala_dispatch/src/lib.rs`, `export_table.rs` |
| `SharedBlocks` | abstract: memory that lives as long as something refers to it | what the reference-counted regions promise |
| `Regions` | binary and tensor region | `memory/regions.rs` |
| `Resources` | native resources and their capabilities | `memory/regions.rs` |
| `Bump` | stable region and arena | `memory/regions.rs`, `memory/arena.rs` |
| `Heap` | the heap of a process and its growth | `process.rs` |
| `Tables` | atom table, port registry, model registry | `atom.rs`, `port.rs`, `ai/model.rs` |
| `TypeForms` | the forms a type has | `type_system.rs` |
| `Types` | the type lattice: join, meet, contains, normalize, subtract, exhaustiveness | `type_system.rs`, `type_system_profiling.rs` |
| `TypeFlow` | the type of a variable along a path beside the values it can have | the meaning of types |
| `Terms` | tagged words and the functions on them | `term.rs`, `bif.rs` |
| `Operations` | what the interpreter's instructions compute from words | `interpreter.rs` |
| `Words` | a value beside its word, through chains of calls | the meaning of words |
| `IR` | functions, blocks, builder, validator | `instruction.rs`, `function.rs`, `builder.rs`, `opt/validation.rs` |
| `Interp` | the interpreter | `interpreter.rs` |
| `Passes` | the optimiser's passes and their round | `opt/*.rs` |
| `Pipeline` | from BEAM code to IR; optimisation of a function and of a module | `pipeline.rs`, `opt/mod.rs` |
| `Optimizer` | a function is built, drawn as a graph or translated, then passed through passes | `opt/mod.rs`, `builder.rs`, `pipeline.rs` |
| `Inference` | the types inferred for a function beside the values of its runs | `type_inference.rs` |
| `SeqLemmas` | lemmas on sequences and on the least number | |
| `MailboxProofs`, `SchedulerProofs`, `DispatchProofs`, `MemoryProofs`, `WordsProofs`, `OptimizerProofs`, `OutcomeProofs` | inductive invariants, proofs | |
| `MCMailbox`, `MCScheduler`, `MCDispatch` | constants for TLC | |
| `MCMemory` | composes memory, heap and tables; constants for TLC | |
| `MCCompiler` | composes the compiler's modules; constants for TLC | |

Definitions called `Drain_KeepsTotal` or `X_merge` above a definition `Drain` or `merge`
are seeded faults: the form it would have after a plausible slip. No specification uses them; each
breaks the property `PROJECT.json` pairs it with, which shows that the property
can fail.

### Mailbox

`queues[p]`, `overflow`, `len` and `type_index` are the fields. A message is its
send number, priority and tag; payload and sender are never looked at by the
code. `accepted` and `taken` are history. Every operation takes `&mut self`
behind the process's mutex, so each call is one step: the difficulty is the
order of the calls. `Enqueue` has the three outcomes of the code (queue,
overflow, refused), `Dequeue` its two, `DequeueTyped` follows the index in the
order its entries were noted and takes a message only from the front of a
queue, `Drain` resets everything. `peek` and the counters change nothing.

### Scheduler

One action is one access to shared state. A scheduler thread goes round
`pick` (read the thermal state), `limit` (read the battery: the class limit is
known), `scan` (pop the run queues, highest first), `found` (look the process
up), `entry` (wait for its mutex), `running`, `unlock`. `attempt` tells the
first call of `pick_process` from `steal_work`, which is the same function;
after the second the thread sleeps and starts over. A caller of `spawn` goes
through `build`, `class`, `schedule`: pid, process map, class map, run queue.
`Send` is one step: from taking the process's mutex to releasing it nothing it
touches, but the run queue, can be seen by others. `holder` is the mutex.
Locals that go out of scope return to their first value, so that states differ
only in what the program can still look at.

Run queues are stacks (`Vec::push`, `Vec::pop`). Nothing in the repository sets
a process Waiting, removes one or dequeues its mailbox, so the model does not
either, and a mailbox is reduced to the number of messages in it. `spawn` and
the others are methods of `Scheduler`, of which only the threads own one: the
model's callers are whoever would be given one.

`update_thermal` takes `&self`, so any number of `Setters` may be in it. Its two stores
are two steps (`SetThermal`, `SetThrottling`), and of two overlapping calls one may store
the state last and the other the flag, which then stays wrong (a finding). `overlapped`
remembers whether the latest call began during another: `ThrottlingAgrees` says that a call
which did not puts the flag right, whatever was there before.

### Dispatch

`export_table`, `modules` and each copy's lazy references. `register_module` is
a step per export and a last one for the module; `hot_replace` is a comparison
and an insertion. `Settled(n)` says that a module is not being loaded and never
was by two threads at once: the overlap is explored, and of what it leaves only
`NoGap` promises anything.

### Memory

`Regions` is `BinaryRegion` and `TensorRegion` side by side, over one allocator:
`blocks[r]` and `used[r]` are the fields, `allocated` is the system allocator,
which may answer an address again once it was freed, to either region. An
allocation is three steps (`Allocate`, `Push`, `Count`), since only the middle one
holds the mutex; `Incref`, `Decref` and `DropTensors` are one each. The byte count
that `Decref` lowers is an atomic beside the list, lowered before the mutex is
released. `refs` are the references callers hold; a caller between calls may copy
one, hand it to another thread or give it up, each once, which is the use the
region is made for (it identifies a block by address and could not tell a second
`decref` from the first of the block's successor). Nothing consults `capacity`.
`UsedExact` counts the bytes a region lists, one element of a set for each byte of a
block: the sum of the sizes, without a definition by recursion.

`Resources` is `NativeResourceRegion`: `register` is two steps, the id from the
counter and the entry under the mutex, and any caller may name any id at any
time. `Bump` is the stable region, whose cursor is loaded and stored in two
steps, and the arena, whose chunks start at addresses of any remainder by the
alignments and grow as in the code. What both have handed out is history.
`BumpAssumption` keeps requests below the largest chunk: `alloc_aligned` does not
check it and would run past the chunk's end (a finding).

`Heap` has addresses of two parts, a block the allocator gave and an offset in it, in
words. `Realloc` may leave the heap where it is, move it to a fresh block with its
contents at the same offsets, or answer null. The code then makes `heap_start`,
`heap_ptr` and `heap_top` follow the answer, whatever it is; `heap_high_water` keeps the
address it had, in memory that is no longer the heap's. Both are findings.
`HeapApart` therefore speaks of offsets: that objects are apart and inside what the
heap counts as its own. The code subtracts addresses, so the old size `grow_heap` starts
from is in bytes and the new one in words; `Grown` says so, and the heap is larger than the
code means it to be. `HeapAssumption` keeps one request below what one growth can hold,
which `alloc_words` does not look at again (a finding).

`Tables` has three tables that give a number for a thing. A critical section is a
step: an atom is looked up under the read lock and, if absent, looked up again and
entered under the write locks (`FindAtom`, `InsertAtom`); a port gets id and entry under two
locks held together; a model's id is drawn from an atomic before the lock.

None of these share state or call each other. `MCMemory` composes them with a
choice of the one that moves (`tier`), so that TLC explores the sum of their
state spaces and not the product.

### Compiler

Three kinds of behaviour, again chosen by a `tier`.

*Types* (`Types`, `TypeFlow`). A variable's static type is merged with the type another
branch leaves, met with a match arm's, reduced by arms that failed, normalised.
Beside it goes `vals`, the values the variable can really have. `Has` is
the reference: what a type stands for, as the documentation of the types gives it. The
arms of `join` and `meet` are kept apart by the pair of kinds they are about.
Nesting is bounded by `MaxDepth`.

Some arms of the code lose values. Paths, and the question `contains`, keep away from the
pairs of types in `Avoided`, a set of the names below, each a finding. `MisjudgedForCause` and `OpaqueForCause`, assumptions
of `MCCompiler` that TLC evaluates on each of its runs, show among the types of the run a pair of
each kind that loses a value:

| Name | What the code misjudges |
|---|---|
| `tuples` | the join of tuples, plain or stable, of two lengths is that of the longer |
| `tensors` | the join of tensors takes the larger dimension and the shorter shape |
| `differences` | the join of a difference keeps out what the other branch brings back |
| `constants` | the meet of a constant with a list, a wrapped type or a union with constants is Bottom |
| `stable` | `contains` says that a stable tuple holds every tuple of its length |

The families of types hold all these kinds, so that what `compiler` shows is that on every
other pair of their types, and on the types that merges, matches and failed arms make of
them, no value is lost.

*Functions* (`IR`, `Interp`, `Passes`, `Pipeline`, `Optimizer`). An instruction keeps its
operand list `ops` apart from the values its kind names, `ids`: the builder fills
the one, the other or both, the passes look at one, the interpreter at both.
`execute` gives a function's outcome: how it ends, with which word, and the
effects on the way (pushes, reductions, calls). A function comes from the
builder (`Menus`), as a graph of blocks (`Graphs`), or from BEAM code (`Programs`,
through `translate_beam_function`); then `run_pass` takes any pass at any time, as often
as TLC likes, or `OptimizeModule` takes the whole loop. Of types the passes need only
their forms (`TypeForms`). What inference makes of its constraints needs `meet`, which is
recursive, so `Inference` stands apart from `Passes`, where the pass is reduced to what it
reports; `InferredTypesHold` checks that the two agree.

Several passes are wrong about functions they should handle; each is a finding.
So that the rest of what the passes do can still be checked, the outcome is
promised for functions that are `Trusted`. Each condition excludes one fault:

| Condition | Fault it excludes |
|---|---|
| `OperandsListed` | `dce` looks for uses in operand lists only |
| `NoRepeats` | `cse` leaves the uses of a result it removed |
| `NoChains`, `NoFastAccess` | `pattern_match` invents switch targets; makes a small tuple access a register move |
| `OverlookedRead` | `dce` takes moves, pushes and pops for pure and removes those whose result nobody who stays reads |
| `NoFallThrough` | `simplify_cfg` removes a jump to the next block, which the interpreter needs |
| `JumpsForward` | `simplify_cfg` merges a chain of jumps that turns backwards in the wrong order |
| `EdgesRecorded` | every pass follows recorded edges, which the builder does not write |

The conditions are asked of the function before any pass; that they are enough
for every later pass is what `OutcomeKept` checks and `OutcomeProofs` proves. A run that ends in a memory
fault promises nothing. `InferredTypesHold` speaks of runs in which arithmetic sees
integers (`IntegersOnly`), since inference takes an addition as proof that its operands
are integers while the interpreter answers nil for others; `EscapeSound` speaks of functions
that give an object no second name (`Aliasing`), since the analysis follows none.
A translated function returns nil whatever its body (a finding), so `ThrowsAsWritten`
looks at what it throws. It speaks of code that moves X registers and throws
(`Plainly`), since only X registers keep a meaning in the translation, and of runs the fuel
is enough for.

*Words* (`Terms`, `Operations`, `Words`). A word is five fields, wide enough for each tag
and mask. A value goes through calls of built-in functions twice: by
their meaning in the language and by their code. `WordsAssumption` says which heap
goes with the values: each value that is not a scalar has its object, a header or
the two words of a cell, and no two values share an address. A value has one
address too: `eq_2` compares words, so equal tuples at two addresses are unequal
(a finding). `Clear` keeps out what the overlap of tags makes ambiguous: atoms whose
index reads as another tag; nil and the booleans in functions that follow a pointer
before looking at the tag; and, in `is_atom`, `is_pid` and `send`, integers and addresses
whose bits 28 to 31 are those of an atom or a pid. `KindsOf` is what the type tests mean in
the language, where nil is a list and the booleans are atoms. The code answers otherwise for
both (a finding), and `Misnamed` keeps just these calls out: that each really is answered otherwise
is the assumption `MisnamedForCause`.

## 3. Runs

| Run | Instance | What it shows |
|---|---|---|
| `mailbox` | capacity 8 (queues of 2, overflow of 1), 9 sends, 2 tags | the invariants and the refinement of `Inbox` |
| `mailbox_priority` | the same | `dequeue` is not always highest first |
| `scheduler` | 2 threads, 2 callers, 2 processes, classes Background and UserFacing, battery full or low | tickets, classes, quanta, refinement of `RunPool` |
| `scheduler_live` | 2 threads, 1 caller, 1 process, 2 setters, a device Nominal or Critical, with a full battery or 5 percent | the flag after overlapping reports; limits take effect; Background work under the worst reports |
| `scheduler_realtime` | 1 thread, 1 Realtime process, a cool device | that process never runs |
| `dispatch` | 2 loaders, 4 versions of a module, 1 of another, 2 functions | lookups during and after loads |
| `dispatch_replace` | the same | old code is still found after `hot_replace` |
| `memory` | 2 threads, 4 references, 3 addresses; 3 registrations; a stable region of 6 words with one user; an arena of up to 3 chunks, of 2 to 8 words; a heap that starts with 2 words and grows, 4 objects; 2 standard atoms and 2 others, 2 ports, 2 models | counts, lists, allocator and capabilities agree; allocations are apart; atoms, ports and models keep their numbers |
| `memory_stable_shared` | the same with two users of the stable region | both can be given the same words |
| `compiler` | 5 families of types, 5 menus, 8 graphs, 377 BEAM functions, 3 argument lists, 13 values | types cover values, passes keep outcomes, words follow values |
| `compiler_validity` | the functions of `compiler` | passes break functions the validator accepts |
| `compiler_arms` | the types of `compiler` | arms that leave values uncovered pass for exhaustive |

Four more configurations can be run by hand. Each ends in the counterexample of a finding that
the runs above leave open:

| Configuration | Property TLC refutes | What it shows |
|---|---|---|
| `MCSchedulerThrottling.cfg` | `FlagFollowsState` | overlapping reports leave the flag wrong, with none under way |
| `MCSchedulerFloor.cfg` | `FloorKept` | a Background process is run on a Critical device with 5 percent of battery |
| `MCMemoryHighWater.cfg` | `HighWaterInside` | a heap that moves leaves its high-water mark behind |
| `MCMemoryHeapNull.cfg` | `ObjectsHaveMemory` | a growth answered with null gives out an object in no memory |

Bounds and why they suffice. Capacity 8 is the smallest at which the queue
limit, the overflow limit and the total all differ, and nine sends fill the
mailbox past each of them. Two threads and two processes are what it takes for
a process to be popped by one thread while another still holds its mutex, which
is the hard case of the scheduler; the proofs cover any number. In `scheduler`
the hot device with a low battery allows UserFacing work and with a full one
does not, so limits change under scans in progress. The versions of `dispatch`
differ in nothing, in the order and in the set of their exports, the three
cases of the comparison. In `memory` three addresses are one for each region and
one that changes hands; four references let a block have three while another has
one; `RefToSpare` only keeps a reference free for every block about to be listed,
so that the bound on references refuses no block halfway. Three chunks and a
factor of four reach the largest chunk size (64 times the first in the code), and
chunk addresses of remainder 0 and 1 the padding of a fresh chunk.

In `memory` a word of the heap is two bytes and the heap starts at 2 words, at least
4 after growing, where the code has 8, 233 and 233: four objects of 0, 1, 3 or 6
words are enough to grow it from every fill, with and without the
minimum. Two threads that ask for the same two new names are the race of the atom table.

In `compiler` a function reads two arguments and then has up to two or three
instructions from one of five menus (arithmetic with constants, commutative
operators, type tests and tuple accesses, pushes, pops and calls, chains of unused results). Three
is what a chain of dead values takes, where removing one makes the next dead. One graph is such a
chain of ten, the longest that the ten rounds of `optimize` use up. The others are a
diamond, branches that meet again, jumps across dead blocks (forwards and, for the fault
`JumpsForward` excludes, backwards) and calls. BEAM functions are every sequence of two instructions out of eight and a throw, and
every opcode from 0 to 184 on its own. `Fuel` (40 steps) is more than any of
these executes: none has a loop. Families of types meet in pairs whose arms the
code tells apart (integers and constants, lists and recursive types, records with
payloads, maps and functions, tensors and capabilities); values are chosen so that
each type of a family has one the others lack. `MaxDepth` is 2, which lets a type of two
wrappings meet another. `MaxInt` is 30, so that a chain of products ends; the 60
bits of a small integer are in `Terms` but no run comes near them.

Symmetry is used for threads, callers, loaders, references and addresses in runs
that check no liveness.

Fairness. `Fairness` is weak fairness of each scheduler thread's own step: a
thread is an operating-system thread in an endless loop, and the only place it
waits is a process mutex, which its holder releases in a bounded number of its
own steps. Callers, senders and the device are not assumed to do anything.

Deadlock is checked in every run but those of the compiler, whose behaviours
are computations and paths that end, or stop at a bound of nesting.

## 4. Proofs

`MailboxProofs` proves, for every capacity, set of tags, number of sends and
traffic, that `Spec` implies the invariants the run checks, that the mailbox
implements `Inbox`, and that `len` counts the messages owed. The inductive
invariant `IInv` adds to them:

- every message in a buffer has an id below `sent`, so a new message differs
  from all (needed for conservation, since `Pending` is a set);
- buffers are in send order, hence without repetition, and a queue holds only
  its own priority, hence queues are disjoint (`BuffersDisjoint`);
- `IndexCoversQueues`: a tagged message in a queue has its queue in the index of
  its tag. This is what makes lookups through an index with stale entries
  equivalent to a scan: an entry too many is skipped, one too few would be lost.
- the queue lengths are bounded by the total and the total by the capacity.

Each action has its own lemma; `HistoryStep` says what a step does to
`accepted`, `taken` and `len`, and carries the refinement and `LenCountsOwed`.
`dequeue_typed`'s choice of the first fitting entry needs the least-number
principle, proved in `SeqLemmas` from the well-foundedness of the naturals.
`FifoExceptOverflow` is an action property: a message that a step takes stood at the front
of its queue, and the queue is in send order, so an older message of its priority can only
be in the overflow buffer; one taken from there leaves only younger ones behind in it.

`SchedulerProofs` proves, for any number of threads, callers, setters and
processes, the four invariants the `scheduler` run checks and the refinement of
`RunPool`. `OneTicket` is not inductive: a spawn could push a process that is
already queued. The strengthening `SpawnsApart` says that pids under way are
distinct, below `next_pid` and, until inserted, in no table, so `Schedule` pushes
a process nobody has yet; `JobsArePids` says that a thread that holds a process
holds a real one. `PushTicket` and `PopTicket` are the two facts about queues
everything else rests on; `SameTickets` gathers the steps that touch none.
`SchedulerThrottlingAgrees` is about any number of threads that report thermal states at
once. Its invariant, `LoneUpdate`, says that an update which began while no other was under way,
and which none has joined since, is the only one, and holds the state in force: so when it
stores the flag, that is the flag of this state.

`MemoryProofs` proves of `Regions`, for any number of threads, references, addresses and
sizes, that the counts are exact, that the lists and the allocator agree and that
the regions implement `SharedBlocks`. `RefcountExact` needs `ListsMatchAllocator`
beside it (a block listed under an address in use would start with a wrong count)
and that in turn `ArrivalsApart`: two allocations between the allocator and the
list have different addresses. Each action has one lemma, which proves both that
the invariant is kept and which step of `SharedBlocks` it is; `RecountedList`,
`ShortenedList`, `ReferenceTaken` and `ReferenceGivenUp` say what happens to a list
and to the references of an address. `RegionsUsedExact` follows the four places where the
count or the list changes. It needs that lists are finite (`BytesFinite`), that a block's
bytes are apart from all others', which is `ListsMatchAllocator`, and that only a thread
that has listed a block counts it.

`DispatchProofs` proves the four properties of `Dispatch`, for any set of modules, copies
and loaders. `LookupFindsRegistered` and `VerifyFindsExports` look at a module at rest, so
the invariant says what is true on the way: a loader working on a module nobody
else works on has entered a prefix of its exports (`EntersInOrder`), and the table has
that copy's code for them (`ExportsEntered`); a copy that is compared with the one in place
is still compared with it when it is inserted (`StillTheSame`); and for a settled
module the table is that of the copy in place, or of one with the same exports
(`TableCurrent`). `NoGap` needs none of this and holds for overlapping loads too:
nothing removes an entry.

The rest of `MemoryProofs` is about `Resources`, `Tables`, `Bump` and `Heap`. `NoRevival` and `CapabilityKept` rest on `DrawnApart`, that ids
drawn and not yet entered are distinct, below the counter and in no table, in
whatever order the threads reach the mutex. Models have the same argument
(`IdsFresh`), and atoms have `AtomInv`: the two maps are inverse, which the second lookup
under the write locks preserves.

In `Bump` and `Heap`, what was handed out ends at or before the cursor and starts at
or after everything handed out earlier, so the next allocation is apart. For the arena the
invariant is per chunk; that a new chunk holds the request and its padding is
arithmetic on `BumpAssumption`. For the heap, in whatever block it is, `GrownHasRoom` shows that growing leaves room because the
confusion of bytes and words errs upwards. For the stable region the theorem assumes that at
most one thread uses it, and `memory_stable_shared` shows that it must.

`WordsProofs` proves, for every heap, set of values and bound that satisfy
`WordsAssumption`, that words follow values through any chain of calls
(`WordsMeanValues`) and that the interpreter's instructions agree with the
functions on what such chains produce (`InstructionsMatchBifs`). The invariant only
adds that the value is one that has a word. Its weight is in the lemmas: `ValueTests`, that
on a clear value each test answers by the value's kind; `EncodeInjective`, that two
clear values with one word are one value; `DividesQuotient` and `DividesOnce`, that
quotient and remainder by signs and magnitudes are the one division that rounds towards
zero; and `LengthCounts`. The walk of `length_1` is a recursive function over the naturals,
which has to be shown to exist (`WalkStep`) from walks of n steps, by the
least-number principle; that a list has at most as many items as the heap has
objects (`ListFits`) is the pigeonhole principle on the cells' addresses. `Call1Agrees` and
`Call2Agrees` then take the functions one by one. The values a heap holds are given: no
function modelled here allocates.

`OptimizerProofs` is about the optimiser, for every menu, graph and program. `ChangesReported`: a
pass that answers that nothing changed has left every block as it was, its code and its
edges, except that the Nops of a block may be gone. `Reports` says it of one pass without
the exception, `CombineReports` that it survives composition, and each pass has its lemma;
`CommonSubexprs` needs the exception. The invariant, `BlocksInv`, is only that what is
passed through passes has blocks.

`EdgesFollowCode` needs much more, since each pass reads edges that another one wrote. The
inductive invariant `TidyInv` says that a function under construction is one straight
block and that a trusted function on its way is `Tidy`, reached block by reached block:

- the recorded edges are the labels of the last instruction and nothing else in the block jumps,
  so removing an instruction that is not the last leaves the edges true;
- the last instruction of a block that has successors is never removed, so a block cannot lose its
  jump and keep its edges (`Thinned`, for `dce`, `cse` and the marking of tail calls);
- no jump leads to the entry or to the block after a reached one, so the removal of
  fall-through jumps finds nothing, and no block with one successor jumps backwards, so
  merging from the last block to the first never meets a block already emptied (`MergeTidy`);
- no tuple access has a small index and no two tests share a value, so pattern matching finds
  nothing.

What is reached (`mark_reachable`, the smallest set closed under edges) may shrink with a
merge and never grows. The conditions of `Trusted` are all used.
`RoundTidy`, `OptimizeTidy` and `ModuleTidy` carry `Tidy` through a round of passes, the loop
of `optimize` and the rounds on a module.

`OutcomeProofs` proves `OutcomeKept`: whatever passes have run, a run of the function that
ended still ends the same way with the same word and has the same effects, for every
menu, graph, program, input and amount of fuel. The inductive invariant, `KeptInv`, is that a
trusted function on its way is `Sane` and that its outcome honours the promise; and `Refines`
says of one function and what is made of it that the second is sane and honours the
first. The argument is a simulation.

- `Runs` are sequences of states of the interpreter, which the recursive `execute` is shown to
  make (`ExecuteRuns`). Two states are `Like` each other if they differ at most in the
  values of a set `D` nobody reads. `StepAlike` takes the instructions one by one: on
  states that are alike, an instruction that reads nothing of `D` leaves states that are
  alike, with the same effects.
- `Follows(old, new, R, D, at)` says where each position of the old code is in the new one:
  there stands the same instruction (or the tail call it became), or the position is
  silent and its result is in `D`, or it jumps to what now stands in its place.
  `StepFollows` then matches each step of the old run by one step of the new run or by none, and
  `FollowsHonours` concludes: a run that takes no more steps than the old one ends in
  time if the old one did.
- Each pass has its `at`. What `dce` and `cse` take out of a block is silent
  (`UnusedRefines`, `SubexprsRefines`) because the results are `Unread` in every block that is
  reached, and a merged jump is a step less (`FusedFollows`).
- The passes keep `Sound`, which is what they rely on: what is read is in an operand list,
  a repeated expression leaves a result nobody reads, the reader of a move, push or pop
  is an instruction that stays, and jumps end their block. `SoundAgain` proves it once for any code
  whose instructions are drawn, each from a place of its own, from sound code.

The attempt changed what the property asks in three places. That every result of a pop is read was not enough:
the reader can itself be removed, and moves and pushes can have results too
(`OverlookedRead`). A run cut short by `Fuel` promises nothing, since a merged jump makes the
new run a step shorter and it may get further (`Honours`). And `IsInst` now says that an
instruction that names a value has one.

`ThrowsAsWritten` then follows the code of a program from BEAM to the optimised function. The
translation of plain code is one instruction for each (`PlainCode`), which defines no
value and has no jump, so the passes can be trusted with it (`PlainTrusted`). After n steps the
interpreter `Mirrors` the BEAM code after n instructions: each register has the same word, also
when it is read as a value of the register's number. `ProgramInv` says that the
promise of such a function is what its translation does, and `KeptInv` that it was kept.

Assumptions on constants are named (`MailboxAssumption`, `SchedulerAssumption`,
`DispatchAssumption`, `RegionsAssumption`, `ResourcesAssumption`, `BumpAssumption`,
`HeapAssumption`, `TablesAssumption`, `WordsAssumption`, `AvoidedAssumption`, `FuelAssumption`, `OptimizerAssumption`) and are evaluated by TLC in the runs.

## 5. What is only model-checked, and why

Liveness (`LimitTakesEffect`, `WorkConserving`, `RealtimeRuns`) is out of the
prover's reach and is checked by TLC. So are the properties of types (`TypeCoversValues`,
`ContainsIsSound`): they are about recursive operators and would be proved by induction over types.
`InferredTypesHold` needs `meet`, which is one of those. `EscapeSound` is true of functions that define each value once and ask for a word at least,
on a heap in which nothing points to what is about to be allocated, as the ones of the runs do:
two allocations of nothing have the same address. A proof would have to assume these of
every function, and would say less than the run about a pass that only reports.
`OptimizeSettles` says that rounds find nothing more, which follows from what each pass leaves
nothing of rather than from what it keeps. It speaks of functions without a chain of more than ten
values each computed from the one before (`ShortChains`), since a round removes one link of a
dead chain; `compiler` checks it at that limit, and the assumption `LongChainsForCause` shows that one
link more is too many.

What documents say of a hot device and of an empty battery is not what the code does:
`WorkConserving` says, as the code has it, that Background work is never stopped, and
`FloorKept` states what the documents have, which `MCSchedulerFloor.cfg` refutes (a finding).

The divergences (`findings`) that name a run are counterexamples found by TLC.
The others follow from reading a line, and most were met because a property had to
exclude them: the conditions of `Trusted`, `Clear`, `IntegersOnly`, and the
bounds in `BumpAssumption` and `HeapAssumption` each stand beside one. The exclusions in
`Avoided`, `Misnamed` and `ShortChains` are shown to have a cause by the assumptions of `MCCompiler`.

## 6. Not modelled

- **Garbage collector.** Nothing calls `copy_collection`, and no property of it would hold: it
  looks for forwarding words in the wrong space, stores untagged addresses, never
  scans what it has copied and mixes bytes and words. `gc/header.rs` is not part of the
  build.
- **Process stack.** It starts at the low end of its memory and grows below it, so
  the first push is already outside (a finding).
- **Pointers across a heap growth**, which dangle when the memory moves (a finding).
- **BEAM loader.** Sequential parsing of byte strings; what it decides, the operands
  of an instruction, is an input of `Pipeline`.
- **Code generation, stack maps, traps, intrinsics.** They emit machine code.
- **`HotCodeManager`, `CodeRegistry`.** `DispatchManager` calls one empty function of the first;
  the second is an append-only list nobody loads code from. Neither changes what a
  lookup finds.
- **AI placeholders.** `submit` raises and lowers a counter in one call and answers with no outputs,
  `process_one` answers nothing; the buffers before it are filled and never read.
- **Native layouts and loops, profiling counters, command line, files.** They
  compute sizes and reports, or move bytes in and out.
- **`SimpleMailbox`, a port's messages, `float_1`, `spawn` as a built-in.** The first is
  used by nothing; a port's queue is a plain vector under one lock; `float_1` writes
  before the words it was given (a finding).
- **Scheduler shutdown.** The flag is set by dropping a structure that every running
  thread keeps alive.

What could still be added: functions with loops and longer ones in the runs, which cost
time rather than ideas.
