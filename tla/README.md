# A TLA+ model of the R10000 simulator

The repository simulates, cycle by cycle, an out-of-order processor in the style
of the MIPS R10000: register renaming over a merged register file, an integer
queue, four pipelined ALUs, in-order commit and precise exceptions
(`README.md`, `src/*.c`, `include/*.h`). Its program and its dumps are JSON, read and
written by yyjson, which the repository carries with it. This directory holds a
specification of the whole pipeline, of the circular queue under it, of the program
around it (parser, life cycle of the machine, dump) and of most of yyjson, the
configurations that model-check them, and theorems proved for every value of the
constants.

## 1. Inventory

| component | state | operations | talks to |
|---|---|---|---|
| commit stage (`commit.c`) | `exception_mode` | commit the finished oldest instructions; take an exception; recover the map youngest first; leave the exception | active list, free list, map, busy bits, PC, exception status, DIR, IQ, ALUs, fetch's backpressure flag |
| ALUs (`alu.c`) | `ALU_STAGES` slots each; the last one is the forwarding path | execute, push, flush | issue pushes, write-back reads, commit flushes |
| write-back (`rename_dispatch_update_structures`) | none | write the register, clear the busy bit, mark done or exceptional | register file, busy bits, active list |
| issue stage and integer queue (`issue.c`, `iq.c`) | the IQ, a local array of entries | refresh readiness, take the first ready entries, push to the ALUs | busy bits, active list, register file, ALUs |
| rename and dispatch (`rename_dispatch.c`) | none | test resources, rename, dispatch | DIR, map, free list, busy bits, active list, IQ, backpressure |
| fetch and decode (`fetch_decode.c`, `dir.c`, `pc.c`) | PC, DIR, `backpressure` | fetch a bundle | rename (backpressure), commit (PC, flush) |
| processor (`processor.c`) | `finished`, `ready_to_finish` | one cycle: all stages, back to front; the simulation loop; the dump of every cycle | everything |
| register structures (`register_table.c`, `free_list.c`, `active_list.c`) | register file, map, busy bits, free list, active list | push, pop, mark | all stages |
| circular queue (`data_structures.c`) | array, head, tail, count | push, pop, peek, pop and update at an index, flush | DIR, free list, active list, IQ |
| instructions (`instruction.c`) | none | the six operations, `is_operand_ready` | ALUs, rename, issue |
| parser (`parser.c`) | the program in memory | one line to an instruction; all lines to a program | yyjson's values in, fetch out |
| `main` (`main.c`) | what is allocated | read, parse, build the machine, run, write, release | everything |
| dump (`*_get_json`, `*_to_json`) | the JSON log | one object per cycle | all structures, yyjson's mutable values |
| yyjson: mutable values | rings of nodes in the chunks of a pool | array and object calls, iterators, copies, comparison | dump, pointer, patch, writer |
| yyjson: immutable values | an array of cells with offsets | access, iteration, copies, comparison | reader, parser |
| yyjson: reader | position in the text, block of cells | one label at a time over the text; strings, numbers; files and streams | allocators |
| yyjson: writer | one buffer: text from the left, contexts from the right | one value at a time; strings; files | allocators |
| yyjson: allocators | free list of chunks in a buffer; two lists of libc's chunks | malloc, realloc, free | everything in yyjson |
| yyjson: pointer, patch, merge-patch | a mutable document and a context | get, add, put, replace, remove at a path; lists of such operations | mutable values |
| scripts | none that the program reads | build, run, compare, visualise | -- |

The program has one thread. What makes it hard is not interleaving of threads
but of *instructions*: some thirty of them are between fetch and commit, in five
structures that all stages share by pointer, and every stage reads what the
stages run before it in the same cycle have just changed. A wrong order, a
register freed too early or a flag read too late shows many cycles later, if at
all. Where it is hard, and which property watches it:

- **Ownership of physical registers.** Each is free, mapped, or held for an active
  list entry; commit and recovery free different registers of an entry
  (`RegisterPartition`, `Accounting`, `NoFreeSource`).
- **Recovery.** Youngest first, several cycles, the map is read and restored at once
  (`RenameChain`, and the precise state that `ImplementsInOrder` demands).
- **Wake-up.** Busy bits and exception flags together decide when an operand is read
  (`BusyBits`, `OldestReadyIssue`).
- **Identity of instructions.** Active list entries are looked up by address;
  instructions are copied from queue to array to ALU (`ProgramOrder`, `InFlightOnce`).
- **Resource limits and partial failure.** A bundle must fit in three structures; a
  stage that fails cuts the cycle short (`NoStageError`, and the run `handler`).
- **The end.** It is inferred; the state is dumped one cycle later
  (`CompleteAtEnd`, `LastDumpFinal`, `Termination`).
- **Wrap-around of the queue** with removal from the middle (`QueueInv`,
  `ShiftIsLoop`, `ImplementsFifo`).

Outside the pipeline the hard part is memory and limits rather than order:

- **Failure of any call.** Each allocation and each call of yyjson may fail, and what
  was built so far must be released once (`NoInvalidFree`, `ResourcesReturned`,
  `EndsEarlyOnlyOnFailure`, `NoBlockLost`).
- **Links that must be closed.** Arrays and objects are rings of which only the last
  node is known; iterators and contexts keep a node while others change the ring
  (`StructuresInv`, `RingsClosed`, `PlacesKept`).
- **Notes trusted later.** The size in a chunk's header, the mark that a string needs no
  escape, an object that has the key already (`CopiesStay`, `ReportsInvalid`,
  `FollowsRfc6902`, all three violated).
- **Two users of one block.** Text and contexts in the writer's buffer, cells and open
  containers in the reader's block, header and block in a pool, unescaped and
  still escaped bytes of a string (`NoOverlap`, `CellsInBlock`, `Tiled`, `UnreadIntact`).
- **Control without a stack.** Reader, writer, copies and comparison walk trees by
  offsets and parents (`ReadsTheText`, `WritesText`, `SameValue`, `EqualIfSame`).
- **Limits of numbers.** Words that wrap, integers that just fit, digits that are cut
  (`NumbersKept`, `IntegersExact`, `DecimalsClose`, `ComparesNumbers`, `SizesGrow`).

`PROJECT.json` lists the hazards line by line.

## 2. Modules

```
Instruction      words, instruction types, what an ALU computes
ProcessorState   constants, all variables, records, helpers shared by stages
  Commit  Execute  Issue  RenameDispatch  FetchDecode     one module per stage
    Processor            Init, Next, Spec: the whole simulator; what is checked of it
      ProcessorProofs      theorems: types, registers, order, places, values, the
                           end, the refinement
      MCProcessor          instances for TLC
InOrderMachine   abstract: a sequential machine

Fifo             abstract: a bounded sequence
  CircularQueue    queue_t
JsonList         abstract: a sequence with an iterator
  MutArray         the ring of a mutable array
JsonMap          abstract: a sequence of members
  MutObject        the ring of a mutable object
ValuePool        the chunks in which values and strings of a document lie
PoolAllocator    yyjson_alc_pool_init and its malloc, realloc and free
    MCContainers       containers and allocators, for TLC
      ContainerProofs    theorems: queue, array, object
      MemoryProofs       theorems: both allocators

LifeCycle        main and init_processor over the heap
Parser           parse_instructions over lines
Dump             the log of cycles, call by call
JsonFile         yyjson_read_file: sizes, chunks, calls that fail; yyjson_mut_write_file
  MCProgram          main calling the other three          ProgramProofs

JsonTree         values, and the cells that stand for them
  JsonCopy         the three copies between cells and nodes
  JsonRead         access to and iteration over cells
  JsonEquals       the two comparisons
  JsonWriter       cells or nodes to text                 JsonWriterProofs
JsonDoc          abstract: a value changed at places (pointers, patches)
  JsonPointer      pointers and their contexts on rings
  JsonPatch        yyjson_patch, yyjson_merge_patch
    MCPointer          changes of a document, for TLC
      MCDocuments        documents in memory, changes included, for TLC

JsonString       escapes and UTF-8, both ways             JsonStringProofs
  MCStrings          strings and quoted texts, for TLC

JsonReader       text to cells                            JsonReaderProofs
JsonNumber       digits to a number, and its big integers
  MCText             texts and numerals, for TLC
```

**State.** One variable per field the stages share (`ProcessorState`). The four
queues are sequences, oldest element first; that view of `queue_t` is what
`CircularQueue` is checked to justify. The DIR holds addresses instead of copies
of the instructions: program memory never changes. An instruction keeps what the
stages read of `instruction_t`: type, address, operand tags and values, destination
register, value and exception flag. Strings, pointers and NULL tests are left out.

**Actions.** `stage` says which part of `processor_cycle` runs and `step` counts the
iterations of its loop, so that one action is one loop iteration and an error
return in the middle of a loop leaves exactly what the code leaves. The order is
that of `processor_cycle`: commit, ALUs, write-back, issue (refresh, select, push),
rename (test, drain the DIR), fetch. `Abort` is the error path: the code is
printed, the rest of the cycle is skipped and the simulation goes on.

| action | code |
|---|---|
| `CommitInstr`, `CommitDone`, `RaiseException` | `commit_cycle`, `commit_set_exception` |
| `RecoverInstr`, `RecoverDone`, `LeaveException` | `commit_exception_mode` |
| `AluCycles` | the ALU loop of `processor_cycle`, `alu_cycle` |
| `WriteBack` | one iteration of `rename_dispatch_update_structures` |
| `RefreshReady`, `TakeReady`, `PassWaiting`, `IssueToAlus` | `iq_refresh_ready`, `iq_get_first_n_ready`, the push loop of `issue_cycle` |
| `CheckResources`, `RenameInstr`, `DispatchDone` | `rename_dispatch_cycle` |
| `FetchDecodeCycle` | `fetch_decode_cycle` and the end of `processor_cycle` |
| `Terminated` | `run_simulation` has left its loop |

`RenameInstr` chooses the content of the uninitialised `phy_reg_dest_idx`
(`rename_dispatch.c:190`) from the constant `UninitRegIdx`. `free_list_pop` reads it
before writing it, and a value of `REG_PHY_FILE_SIZE` or more is an error. In the
shipped unoptimised build the stack slot holds 0 or a register popped earlier, so
most runs use `{0}`; the run `handler` adds an invalid number.

The dumps do not show `exception_mode` and `backpressure`; the model keeps both,
because they are where the code and its comments part (section 5).

**The parts of yyjson** are specified one by one: the pipeline does not depend on them
and they only call each other, so that a part's callers are modelled by what they may ask
of it. Each module says at its top what its data stand for. Three conventions are shared.
A *value* (`JsonTree`) is what a document means; cells (immutable) and nodes (mutable)
are its two representations. A call that may fail has its failure as a disjunct, with
what is left behind. Sizes and limits are constants, scaled so that small instances reach
them: a word of `SIZE_LIMIT` values for `size_t`, a number of `SAFE_DIG` digits for the 19
of a `uint64_t`, chunks of `BITS` bits for the 64 of a big integer. Where a property
depends on how the limits relate (that `SAFE_DIG` digits fit a word, that `MAX_DEC_DIG`
digits decide the rounding), the scaled ones relate alike.

Two parts that look like data are modelled in full because their control is what can go wrong:
`JsonString` unescapes a string in the text that it reads, so that what is
written must never pass what is still to be read; and `JsonNumber` follows every label of
`read_number` and `bigint_set_buf`, since the positions of the point, of the first digit that is
cut and of the last digit decide the value together.

**Side by side.** `MCContainers`, `MCDocuments`, `MCText` and `MCPointer` each hold
several parts that do not call each other. A variable `part`, chosen at the start, says
which one a behaviour is about; the others rest at an initial state of theirs, so that the
states are those of the parts one after the other and no part loses a behaviour. All of
`MCPointer` is one part of `MCDocuments`.
`MCProgram` is a composition in earnest: `main` of `LifeCycle` calls `JsonFile`, hands what
was read to `Parser`, its program to the machine, its cycles to `Dump` and the document to
`JsonFile` again; a call runs until it returns and `main` takes its result. There the two file
functions are also called on their own, because `main` uses only the forms that take a path.

Definitions named `X_Something` next to a definition `X` are deliberately wrong variants,
what a plausible mistake in that code would be. No specification uses them; each property,
and each part of those that are conjunctions, is known to be violated when `X` is replaced by
one of them.

**Agreement with the program.** Besides the reading of the source, the model was
compared with the built simulator: with the real sizes (32 and 64 registers, four
wide, four ALUs of two stages, 32 queue entries) and one program it is
deterministic, and its states at the start of each cycle were equal to the JSON
dump of the simulator in every field and every cycle, for some 70 random programs of
1 to 72 instructions, with and without exceptions.

## 3. Runs

Base instance of the processor: words of 4 values, 3 architectural and 6 physical
registers, width 2, 2 ALUs of 2 stages, an integer queue of 3, and *every* program of
up to 4 instructions over a pool of six (one per type, with chains of dependencies,
a register both read and written, register reuse, and divisors that are zero or not
depending on what was computed before). As in the real machine the free list, the active
list and the integer queue have the same capacity, here 3, less than two bundles, so that
all of them run out within four instructions. `PC_EXCEPTION` is 16: outside the program, as for the
real programs of up to 65536 instructions, unless a run says otherwise.

| run | question | result |
|---|---|---|
| `core` | are the structures consistent in every state, does no stage fail, does the pipeline implement the sequential machine, does every simulation end, completely, with a final dump? | holds, 166 thousand states |
| `handler` | `PC_EXCEPTION` is 2, inside the program: instructions enter the pipeline during recovery; and the uninitialised index may be invalid: renaming fails half-way | the machine is the sequential one, with a precise state, until a renaming fails (`InOrderUntilError`); the simulation always ends; 1.8 million states |
| `exception_mode`, `fetch_in_exception` | comments of the source that the code contradicts | violated, section 5 |

*Why the bounds are enough.* The hazards need: two writers of one register in flight,
a consumer between them, a full structure, an exception behind and in front of other
instructions, a recovery longer than one cycle. Four instructions and width 2 give all
of them. The mutants show the other direction: each property is violated in its
run when the code is changed in a plausible way.

`handler` does not repeat what section 4 proves for all constants, whatever the number of registers,
ALUs and places in the queue. It cannot ask for the sequential result once a renaming has failed, since an
instruction is lost then. `BusyBits` and `LastDumpFinal` do not hold in it and are not
claimed: entries that were in the integer queue when their instructions were undone still
issue and write back, into registers that are free by then. Termination does hold: the
active list still drains.

### The program around the pipeline, and yyjson

A property of these runs is a conjunction of named parts, each with a comment and a mutant of
its own in the MC module; the table lists them.

| run | properties and their parts |
|---|---|
| `containers` | `StructuresInv`: indices and count of the queue agree (`QueueInv`), a removal shifts what the loop of the code shifts (`ShiftIsLoop`), the rings are closed and reach every member (`ArrayRingInv`, `ObjectRingInv`), an iterator is where its index says (`ArrayIteratorInv`, `ObjectIteratorInv`). `ImplementsFifo`, `ImplementsList`, `ImplementsMap`: the calls do, with their results, what they do on sequences. `MemoryIsApart`: blocks of a document's pool lie in its chunks (`BlocksInside`), apart (`BlocksDisjoint`); the pool allocator's chunks tile its buffer (`Tiled`), merged (`FreeMerged`), aligned (`Aligned`) and at most two headers too long (`LittleSlack`), and a copy that leaves its chunk overwrites one header (`SpillsOneHeader`). These are about the sizes that the allocator keeps; what is copied into the blocks is the run `pool_overrun`. `AllocatorsPromise`: a block gets room that nobody has and keeps it, in every step before a copy leaves its chunk (`KeepsPromise`), the next chunk can hold something (`SizesGrow`) |
| `program` | `NoInvalidFree`: nothing is released that is not held. `ResourcesReturned`: no pointer to something released (`NoDangling`), no simulation of a half-built machine (`RunsComplete`), at exit only what `LeftAtExit` lists is held, files and buffers are closed and released (`ReadHoldsNothing`, `WriteHoldsNothing`). `ParsesPrograms`: the whole program or nothing (`AllOrNothing`), with its numbers (`NumbersKept`), and every well-formed one (`WellFormedAccepted`). `DumpIsLog`: an array of the cycles in order (`ShowsTheCycles`) that stops early only after a failure (`EndsEarlyOnlyOnFailure`), whose objects have the members of a cycle (`CyclesAreComparable`) but one per failure (`LossesAreCounted`). `FilesAreWhole`: what is parsed is the file (`ParsesTheFile`, `ChunksAdjoin`), success means that the text is in it (`TrueMeansWritten`) |
| `documents` | `NoOverlap`: text and contexts share the writer's buffer. `WritesText`: the text is the document's. `FormsAgree`: copies mean the same (`SameValue`), lookups and iterators find what the offsets describe (`GetsMember`, `CurIsIndex`), comparison is that of values (`EqualIfSame`, `EqualsItself`), copies use what was counted (`CountedIsWritten`) and lose no block (`NoBlockLost`). `FindsCyclically`: an iterator's search goes round once. `DocumentWhole`: after changes the rings are closed (`RingsClosed`), both forms of a document are found alike (`GetsAlike`), a patch shares no node (`NoNodeShared`), a merge is settled (`Settled`). `PlacesKept`: pointer calls and contexts implement `JsonDoc`. `AppliesInOrder`: a patch does what its operations do one after the other, those of RFC 6902 but for the two exceptions of the run `patch_rfc6902`. `MergesLikeRfc7386`: a merged document has the members the RFC has it have |
| `text` | `CellsInBlock`. `ReadsExactly`: the label fits the open container (`LabelFits`), what is accepted is the document of the text (`ReadsTheText`) and what is refused is no text of the flags (`RefusesOnlyInvalid`). `NumbersExact`: `AcceptsNumbers`, `IntegersExact`, `DecimalsClose`, and for the big integers `ChunksAreNumber`, `ComparesNumbers` |
| `strings` | `ReadsBack`: what is read back is the string. `StringsSound`: nothing but UTF-8 is read or written, as far as the flags ask for it, except for strings that were read as invalid and are copied unseen (`OnlyWellFormed`, with `Unseen`; the exception is the run `noesc`), and it stays in the room made for it (`TextFits`). `UnreadIntact`: stores in place do not reach bytes still to be read |
| `pool_overrun` | `CopiesStay`, that `pool_realloc` copies a block into its new chunk and not beyond: violated, section 5 |
| `noesc` | `ReportsInvalid`, that no invalid string is written without the flag that allows it: violated, section 5 |
| `patch_rfc6902` | `FollowsRfc6902`, that the operations of a patch are those of RFC 6902: violated, section 5 |

Three of these properties are each next to one that is violated, and say what holds beside it. `KeepsPromise`
ends with the step in which a copy leaves its chunk (`Spill`), since nothing is known of the memory behind it then;
`OnlyWellFormed` leaves out the strings `Unseen`, and no others; `AppliesInOrder` is about `LenientPatchSpec` of
`JsonDoc`, which is its `PatchSpec`, RFC 6902, but for a member added under a key that the object has and a value
moved below itself.

Some parts see less than their names may suggest. `NumbersExact` compares a number that was shortened without its
last digit, and without a point that falls on it (`PointKept`). `PlacesKept` tells no place after a
replace among repeated keys (`Lost` in `JsonDoc`). The iterators are followed until a search goes round
(`exact`): what the wrong index of section 5 does to the calls behind it is not checked.

*Bounds.* Each is the smallest at which the case that the code distinguishes occurs twice.

- `containers`: a queue of 4 and 3 elements; arrays of up to 5 nodes, objects of up to 3
  pairs with 2 names, so that names repeat: a ring with a first, a last and nodes between; a pool of
  two chunks and three blocks in words of 9 values; pool allocators with 7, 8 and 21 units, too small
  for a chunk, room for exactly one, and for several with a free chunk between two others.
- `program`: files of up to two lines, every operand at every limit of its width (bytes of 8
  bits, registers of 4, immediates of 32 bits); the four ALUs of the build; three cycles,
  two failures anywhere; files of up to 20 bytes against chunks of 2 to 4 and a
  `size_t` of 32 values.
- `documents`: copied and written values nested three and four deep, one chain deeper, with up
  to two members; all pairs of the compared values; changed documents of up to 4 cells before a call that
  adds to them, with every call of a pool on pointers of two tokens; patches of two operations out of about
  120; every sequence of merges.
- `text`: every text the reader can tell apart token by token, up to 13 tokens, complete and cut off, with three
  sets of flags and blocks that fit or must grow; every numeral of up to 4 characters and longer ones that have the shape of a
  number; with `SAFE_DIG` 2 and words up to 111 the digits behind the limit are reached
  with three or four, as they are with 19 or 20 in the code; four chunks of two bits.
- `strings`: strings and quoted texts of three pieces, characters of every length at the limits of
  their ranges, invalid bytes and escapes among them; of one more where neighbours matter.
- `pool_overrun`, `noesc` and `patch_rfc6902` are instances of the same modules, the second with texts of one
  piece: what they show needs no more.

*Views and symmetry.* `containers` has a VIEW without the description of an array's or an object's last
call, which no action reads, and symmetry in names and data, which no property distinguishes. The view of
`documents` leaves everything as it is but for changed documents, whose rings it maps to the tree
they stand for, with the place of the context and whether the rings are closed: names of nodes, nodes no
longer attached and the last call do not decide what happens next. A broken ring stays a state of its own, so that the view hides no
violation of `RingsClosed`.

*Fairness* is used for the simulator alone. The loops in yyjson end because they walk a
finite tree or text, which their invariants imply (`RingsClosed`, `CellsInBlock`).

**The sequential machine.** `ImplementsInOrder` instantiates `InOrderMachine` with the
architectural registers read through the *committed* map: for each architectural
register, the physical register its oldest in-flight writer replaced, or the mapped one.
Each `CommitInstr` is then a `Retire` (the architectural result must be that of
sequential execution), `RaiseException` is a `Trap`, and every other step, write-back
and recovery included, must leave the architectural state alone. This is the one
property that sees wrong values, early wake-ups, registers reused too early and
imprecise exceptions alike.

**Fairness.** `Spec` has `WF_vars(Next)`: one thread runs the simulator, no action waits
for anything outside it, so it takes the next step. Nothing stronger is assumed.
Deadlock is checked in all runs, those of yyjson included: where the code has nothing more
to do, a disjunct says so and says when.

## 4. Proofs

Every property of the run `core` but termination is a theorem of `ProcessorProofs`, for all constants that satisfy the assumptions of
`Instruction` and `ProcessorState` (any word size, number of registers, width, ALUs, stages and
queue capacity, any address of the handler, any set of programs, any content of the
uninitialised index). Some theorems assume more, by name:

- *Uninit*: `UninitRegIdx \subseteq PhyReg`, that the uninitialised `phy_reg_dest_idx`
  (`rename_dispatch.c:190`) holds the number of a register. The shipped build has it;
  `handler` shows what happens without it.
- *Handler*: `Len(p) <= PC_EXCEPTION` for every program, that no instruction stands at the handler's
  address, which is 0x10000 (`pc.c:4`). The parser does not enforce it, and `handler` shows what
  fails for a longer program.
- `EnoughRoom`: each of the three structures, when it is empty, takes a bundle. They have 32 places and a
  bundle 4 instructions. In a machine without it nothing would ever be renamed.

| theorem | statement | assumes |
|---|---|---|
| `TypeCorrect` | `[](TypeOK /\ Accounting)`: no queue outgrows its array | |
| `NoStageErrorHolds` | `[]NoStageError` | *Uninit* |
| `RegistersPartitioned`, `RenameChainHolds` | `[]RegisterPartition`, `[]RenameChain` | |
| `FetchOrderHolds` | `[]FetchOrder`: DIR, integer queue and the array of the issue stage in program order, one behind the other | |
| `OldestReadyIssued` | `OldestReadyIssue`, an action property | |
| `RegistersGivenHolds` | `[]RegistersGiven`: the destinations in flight are different, not free, and mapped for their own architectural register only | |
| `LocatedHolds` | `[]Located`: every unfinished instruction in one place, with its operands | *Uninit* |
| `InFlightHolds` | `[]InFlightInv` | *Uninit* |
| `NoFreeSourceHolds` | `[]NoFreeSource` | *Uninit* |
| `FlushedHolds` | `[]Flushed`: behind an exception the pipeline stays empty if the handler is outside the program | |
| `BusyBitsExact` | `[]BusyExact`: `BusyBits` outside exception mode, and in it if the handler is outside the program | *Uninit* |
| `BusyBitsHold` | `[]BusyBits` | *Uninit*, *Handler* |
| `RestHolds`, `CompleteAtEndHolds` | the end is announced at rest; `[]CompleteAtEnd` | *Uninit*, *Handler*, `EnoughRoom` |
| `LastDumpIsFinal` | `LastDumpFinal`, an action property | *Uninit*, *Handler*, `EnoughRoom` |
| `ValuesHold` | `[]Values`: finished instructions have the values of sequential execution | *Uninit* |
| `UntouchedHolds` | `[]Untouched`: after an exception, no instruction still on its way writes a register of the committed map | |
| `Refinement` | `ImplementsInOrder` | *Uninit* |

`ContainerProofs` and `MemoryProofs` prove every property of the run `containers`. `Spec` is that of
`CircularQueue`, `MCSpec` the composition of `MCContainers`, in which a behaviour calls one of the
containers or allocators:

| theorem | statement | for every |
|---|---|---|
| `QueueInvHolds` | `Spec => []QueueInv` | capacity, set of elements |
| `QueueImplementsFifo` | `Spec => ImplementsFifo` | the same |
| `StructuresInvHolds` | `MCSpec => []StructuresInv`: queue, ring of an array, ring of an object, both iterators | number of nodes or pairs too |
| `ArrayImplementsList` | `MCSpec => ImplementsList` | number of nodes |
| `ObjectImplementsMap` | `MCSpec => ImplementsMap` | number of pairs, set of names and of data |
| `MemoryIsApartHolds` | `MCSpec => []MemoryIsApart`: the sizes that both allocators keep, and how far a copy can go too far | size of the header, the buffer and its address, the words and the chunks; request |
| `AllocatorsPromiseHolds` | `MCSpec => AllocatorsPromise`, an action property: every call keeps the promise but a `pool_realloc` that copies beyond its new chunk, and those after it | the same |

Those of `ContainerProofs` assume that there is a place, a node and a pair (`CapacityAssumption`, `ArrayAssumption`,
`ObjectAssumption`), which is what the allocations of the code are for, and nothing of an iterator: one that is used
after its container has changed otherwise is off in the model as in `JsonList` and `JsonMap`. Those of `MemoryProofs`
assume of the sizes what the definitions of yyjson say (`PoolAssumption`, `ValuesAssumption`): a header takes
something, a request is not empty, the first chunk of a document is larger than its header, and the largest is
no smaller and still a word.

`ProgramProofs` proves every property of the run `program`, whichever allocation, file or yyjson
call fails. `Spec` is that of `LifeCycle`, `main` alone with every call one step; `MCSpec` is the
composition of `MCProgram`:

| theorem | statement | for every |
|---|---|---|
| `NoInvalidFreeHolds`, `RunsCompleteHolds` | `Spec => []NoInvalidFree`, `Spec => []RunsComplete` | number of ALUs |
| `ProgramImplementsMain` | `MCSpec => Spec`, so that these two hold of the composition | |
| `ProgramInvHolds` | `MCSpec => []ProgramInv`, the inductive invariant | |
| `ResourcesReturnedHolds` | `MCSpec => []ResourcesReturned` | number of ALUs |
| `ParsesProgramsHolds` | `MCSpec => []ParsesPrograms` | input files; widths of words, ints and bytes; number of registers |
| `FilesAreWholeHolds` | `MCSpec => []FilesAreWhole` | lengths of files and texts, chunks, padding, limits of sizes and positions |
| `DumpIsLogHolds` | `MCSpec => []DumpIsLog` | queue contents and capacities, cycles, failing calls |

They assume what `MCProgram` names and TLC evaluates: of the widths (`Widths`), that a byte numbers the
registers, an int is wider than a byte, a word wider than an int, and the one's number of values
divides the other's; of the files (`FileSizes`), that a block of one chunk with its padding can be allocated and that no file
position reaches `SIZE_LIMIT`; of the queues (`Cycles`), that head and count are those of a `queue_t`, which `QueueInv`
says of every queue that `CircularQueue` reaches.

`JsonWriterProofs` proves, for every document, every estimate of its size and all options:

- `NoOverlapHolds`: `Spec => []NoOverlap`.

`JsonReaderProofs` proves, for every text, flags and estimate:

- `CellsInBlockHolds`: `Spec => []CellsInBlock`.
- `LabelFitsHolds`: `Spec => []LabelFits`.

`JsonStringProofs` proves, for every text, every string and all flags:

- `UnreadIntactHolds`: `Spec => UnreadIntact`, an action property.
- `StringsSoundHolds`: `Spec => []StringsSound`, from `OnlyWellFormedHolds` and `TextFitsHolds`. Of what is written it
  leaves out the strings that are `Unseen`: read as invalid, and copied without a look at them.

They assume that texts and strings are bytes and that a text is not empty (`BytesAssumption`): `read_string` is
called on a quote.

**The argument.** `TypeOK` alone is not inductive: commit pushes to the free list,
and that it does not overflow needs `Accounting`: the free list and the active list
together always have as many elements as there are free registers at reset, and
while the DIR is drained all of it fits in the free list, the active list and the
integer queue. So `TypeOK /\ Accounting` is the inductive invariant. `TypeNext` and
`AccountingNext` have one step per action. Four lemmas say what the three actions that
move registers do and that no other one moves any (`CommitEffect`, `RecoverEffect`,
`RenameEffect`, `OtherSteps`); the later proofs rest on them rather than on the actions.
That the error branch of these actions is unreachable is part of those lemmas.
`RegisterPartition` is inductive relative to them: each of the three actions takes
one register out of one of the three places and puts it in another, which four lemmas
about sequences and functions without repetition (`Extended`, `WithoutFirst`,
`WithoutLast`, `Updated`) turn into equations between the three sets. `RenameChain` is too: commit shifts the positions,
renaming adds a last writer and recovery removes it, and the entry before it in the chain
becomes the one the map has to name.

The rest of the pipeline is a chain of invariants, each inductive relative to those before it; TLC
checked each on the instances of `core` and `handler` before it was proved.

1. *Order* (`FetchOrder`). `ProgramOrder` says nothing of the array `entries` and of the scan that
   fills it, through which an entry on its way out of the queue passes. `FetchOrder` does: taken
   entries are older than those not yet scanned, those passed over were not ready, and all are older than the DIR.
   That the oldest ready ones are issued follows at the push.
2. *Registers in flight* (`RegistersGiven`). `RegisterPartition` has the destination of an
   entry in the map or as the old destination of a younger one, but not which. `RegistersGiven`
   says that it is only ever under the entry's own architectural register, and only younger
   entries replace it.
3. *Places* (`Located`). The places that hold an instruction (a slot of the queue, the
   array, or an ALU, less the last stages already written back) are a set `Live`, and each holds an
   active list entry of its own with the sources that `MapAt`, the map at the entry's position,
   names. `MapAt` is read off the active list: the old destination of the
   first writer from that position on, or the map; no history variable is added. What each action that moves
   instructions does to `Live` is a lemma of its own (`RefreshCarries`, `TakeCarries`, `IssueCarries`,
   `ExecuteCarries`, `RenamePlaces`, `WriteBackPlaces`). `InFlightOnce` counts the places with `Cardinality`; that it is one is
   `OnePlace`.
4. *Exceptions* (`Flushed`, `BusyExact`). A flush empties everything; that it stays empty until the end is
   what the handler's address is needed for. Then a busy bit is set exactly for the destinations
   without a value.
5. *The end* (`RestInv`). Fetch sees backpressure only while something holds a resource, which is
   where `EnoughRoom` is needed, and an empty DIR otherwise; so when it finds nothing to fetch, nothing is
   anywhere.
6. *Values* (`Values`). `ValueA` and `ValueB` are the operands an instruction has in sequential execution, read
   through `MapAt` from settled registers, those whose writer is finished. An operand that a queue entry,
   the array or an ALU has read is that value, an operand not yet ready is not settled, and a
   finished entry has computed its result from them.
7. *Recovery* (`Untouched`). In exception mode instructions may still be written back, wherever
   the handler stands, but only into registers that the committed map does not name, so that the
   architectural values stay what they were.
8. *The refinement*. `InOrderView` gives the state of the sequential machine at the oldest entry.
   A `CommitInstr` is a `Retire` (`RefinesCommit`), `RaiseException` is a `Trap`
   (`RefinesException`), and any other step leaves that state as it is (`RefinesOther`).

The installed provers do no induction over the natural numbers. Where the argument is about a first
position (the oldest writer of a register in `CommittedMap` and `MapAt`), that a least one exists is
taken from the library's well-founded order (`MinExists`). For the loops of the containers that
is enough to go from one turn to the next: of the turns at which a statement fails there is a
least one, and it does not fail at the one before it (`LeastExists`, `AgreeOn`, `IntervalInduction`).
The walks and loops of `MutArray` and `MutObject` are recursive functions on an interval, which that
reaches; what recurs over trees and texts is out of reach.

For the queue, `QueueInv` is inductive by itself. Remainders are only ever taken of numbers
below twice the capacity, where they are linear (`Wrap`); distinct logical indices have
distinct slots (`SlotAtInjective`), which is why a write or a shift touches one element only;
and each call then does to `Contents` what `Fifo` says (`PushCall` ... `FlushCall`).

For the arrays, `Ring` says of nodes *s* that each is linked to the next, the last one to the first and `ptr`
names the last one. A walk of *k* links from `ptr` then arrives at *s[k]*, or after one round at
its beginning (`Place`, `NodeAtPlace`), so that the list read off a ring is *s* (`ListedRing`). Four changes of the links make all
that the calls do: a node linked behind another, a part cut, a node replaced, `ptr` moved on
(`InsertedRing`, `CutRing`, `ReplacedRing`, `TurnedRing`); `InsertedIs`, `RemovedIs` and `TurnedIs` say the same of the sequences of
`JsonList`. `ArrayInv` is the ring with the iterator: `cur` is the node at `idx` and, until something is
removed, `pre` the one before it. Each call has a lemma of its own, that it keeps `ArrayInv` and is a step of `JsonList`.

For the objects, `ObjRing` is a ring of the keys, each linked to the key behind its value, with the
values between. Three things are harder than for arrays.

- *Put and remove by name* cut every member with the name while they walk the ring, and put gives the first
  one its new value. After *k* turns the ring is that of the members kept so far, `c`, followed by all
  those not yet visited (`Merged`), and the loop stands between the two (`PutAfter`, `RemoveAfter`). One turn
  keeps that (`PutTurn`, `RemoveTurn`), whatever the order of the cuts does to `ptr` and to `i`. At the end, what is kept are
  the places with another name, in order (`InOrder`), as `JsonMap` says it of the sequence (`WithoutName`).
- *Iterators* may be inexact: after the search of Section 5, item 9, `idx` is no longer the index of `cur`. `Stands` is the
  invariant that survives: `cur` is some key of the ring, `pre` the one before it while nothing has been cut, and
  only an exact one is at `idx`. That a step or a cut from there leads to such a place again is
  `PairIterNextCall` and `PairIterRemoveCall`.
- *The search of an iterator* begins where it stands and goes round once; that it finds the first member
  with the name from there, and none only if there is none, is `RoundSearch`.

`ObjInv`, the ring with the types of names and data and `Stands`, is inductive.

For the memory, `MemoryInv` is `PoolInv /\ ValuesInv`.

- *The pool allocator.* `Tiled`, `FreeMerged` and `Aligned` are statements about the set of chunks, to which a step
  that splits, merges and moves says little. `Parts` says the same address by address: every one between the
  ends of the pool is in a used chunk or in a free one, in no two chunks, and the list of the free ones goes up with a gap
  after each. A call then changes one used chunk and a stretch of the list that cover together the
  same addresses as before, which is all that `PartsAfter` asks; what the list covers after `RemoveAt`, after a chunk
  is cut, after one is linked in and merged both ways is `RemovedIs`, `ListResized` and `ReleasedIs`. A used chunk must be
  large enough for what its owner asked for and at most two headers larger (`Owned`): without the one, the memory
  behind a header would reach into the next chunk, and neither `Vacant` nor the extension of a chunk in place could be
  shown; the other bounds what a copy can overwrite. That sizes stay multiples of a
  header, and that a multiple larger than another is larger by a header, is `UnitsAre`, the one place
  where \div and % are expanded; a request for more has a larger chunk (`ChunkSizeGrows`). `MallocStep`, `FreeStep`,
  `SameChunkStep`, `ExtendStep`, `MoveStep` and `SpillStep` are the calls. A move that fits is an allocation and
  then a release. One that does not is only the allocation: the old chunk is one header longer than the new
  one, since their sizes are multiples that differ by less than two, and what begins behind the new chunk is
  another or the end of the pool (`NextStarts`), so that the copy overwrites that header and nothing else.
- *The pool of a document.* `ValuesInv` adds to the two properties that `cur` is behind the header of the newest chunk
  and that the next chunk is larger than a header. The second is what a doubling that wraps around could break;
  `NextIs` says that it does not, because what is smaller than before is replaced by the maximum.
  A block goes behind everything in its chunk, which is `cur` of the newest one or the header of a new one (`BlocksAfter`).

For the program, `ProgramInv` has one part for `main` and one for each call; a step of the composition is
a step of one of them, or begins or ends a call, and leaves the rest alone (`StepsOfMain`,
`StepsOfRead` and so on).

- *`main`.* What is not NULL is allocated (`Owned`): each release takes what a field names
  and clears the field, which is inductive by itself. That a machine is complete when it runs
  needs the order of the allocations: while `init_processor` is at work, those in front of
  its step have been made (`Progress`). What is left at exit needs, on the way out, that the parts of
  `free_processor` in front of its step are gone and, after no error, all others are still there
  (`FreedSoFar`); `AllocationsAre` and `MachineIs` compare the two lists, what is ever allocated and what is ever
  released. That comparison is also why `free_processor` can only fail after an error.
- *Reading.* `StreamFills`: the block is full but for the padding, and the size counts on from its first value. That
  the sum of two sizes has not wrapped around when the test finds none smaller is `GrownIs`.
  `ReadIsWhole` then holds at both ways out, also for the size of -1 of Section 5, item 10, with which one byte
  less is parsed than was read and which `ParsesTheFile` leaves out.
- *Writing.* Nothing has failed and nothing has been said before the text is in the file
  (`BeforeTheEnd`); `fclose` can still lose what is buffered, and then it says so (`AtTheEnd`).
- *Parsing.* The program so far is what the first lines say (`ParsedLines`). `FitsWord` follows a number
  through the saturation of `strtol`, the cut to an int and the cast to a word, `OperandKeeps` through the range
  check and the byte of the union, and `FirstError` says that the chain of checks passes exactly
  the lines with none of the errors.
- *The dump.* A count of failed calls says nothing about which members they cost. `DumpCounted` says that there is a
  set as small as the count that has every member lacking so far, also in the object, the array and
  the element that are not yet part of the document (`DumpCovered`); each failed call adds one
  to it, and nothing else may.

For the writer, `NoOverlap` is not inductive. Every value is followed by a comma or a closing
bracket for which nobody reserves room: it comes out of the slack of the value's own
reservation. `RoomLeft` says how much of it is left at each label, `LevelIsDepth` that the
indentation is that of the open containers, and `IncrLenFits`, `IndentFits` and `ContextFits` are
the arithmetic of the reservations. For the reader, `RoomLeft` says that the last two cells of the
block are kept for a key and its value, and `Chained` that there is a set of cells, the open
containers, which the offsets run through from the one at hand to the root. Opening adds to
the set, closing takes its last member away.

For the strings, `StringInv` has a part for the reader, one for a value and one for the writer.

- *Reading in place.* `UnreadIntact` by itself does not say why the wide stores are harmless. `InText` does: `dst` is not
  ahead of `src`, both are in the text, and zeros follow it, which are no
  hexadecimal digits and no tails of characters, so that neither an escape nor a character that was accepted reaches
  beyond the text (`SeqAt`, `HexIs`, `RunIs`). `Width` rounds up by at most one byte: while nothing has been unescaped it is stored where it was loaded, and after that
  `dst` is far enough behind (`Moved`). An escape makes fewer bytes than it has (`Decoded`). `Kept` is what all turns have in common (`TurnKeeps`).
- *Characters.* What lies in front of `dst` is made of whole characters (`Covered`). The masks of
  `is_valid_seq_2` to `_4` are the ranges of the Unicode standard (`SeqIs`, with `MasksAre`), and what a code point that is
  no surrogate is encoded as, or a pair, is in those ranges too (`Utf8Is`, with `UnitIsCode` and
  `PairIsCode`).
- *Writing.* `WriterInv` is `TextFits` with the same `Covered`, of `out`. A character of
  two or three bytes has one escape of six, one of four bytes two (`SixEach`, `EscapeIs`); what is escaped is
  ASCII (`UEscapeIs`), so that it covers itself. A string with the mark NOESC goes out as it came in, and is UTF-8 if the
  reader had to see to it (`ValueInv`), which is where `Unseen` is left out.

Only model-checked:

- `Termination`: liveness and `ENABLED` are out of the prover's reach.
- `InOrderUntilError`: a machine in which a renaming has failed has lost an instruction, and the invariants
  of the refinement say nothing of it; without a failure it is `ImplementsInOrder`, which is proved.
- `ReadsBack`: it relates a whole string to the whole of what was written for it, with every invalid byte
  replaced, which is defined by recursion over the string.
- `FindsCyclically`: a search reads its cells through `JsonRead`, which walks them by recursive operators.
- `WritesText`, `FormsAgree`, `ReadsExactly`, `NumbersExact`, `DocumentWhole`, `PlacesKept`, `AppliesInOrder` and
  `MergesLikeRfc7386`: what copies, comparisons, readers, paths and merges compute is defined by
  recursion over values and texts, about which the installed provers cannot argue by induction.

## 5. What the code does otherwise than it says

With a run each:

1. *Exception mode is never left.* `commit.c:150` announces "Clear exception mode if all
   instructions are recovered"; the status and the backpressure are cleared, but not
   `commit->exception_mode`, which is what `commit_cycle` tests. From then on the
   commit stage only ever undoes instructions (run `exception_mode`). With programs of
   up to 65536 instructions nothing is fetched after the exception and nobody notices.
2. *Instructions are fetched during an exception.* `commit.c:212` and `commit.h:62` apply
   backpressure to fetch; in the same cycle `rename_dispatch.c:147` or `:153` overwrites
   it with the result of its resource test, before fetch reads it (run
   `fetch_in_exception`). It needs an instruction at the address of the handler, and
   was reproduced with the simulator and a program of 65546 instructions.
3. *A block that moves may overwrite a header.* When it cannot grow a block in place, `pool_realloc` copies all that the
   old chunk has room for (`yyjson.c:1154`). A chunk keeps a rest that is too small to be cut off, up
   to two headers (`yyjson.c:1071`, `:1139`), so that it may be a header longer than the chunk that the larger
   request gets. The header of the next chunk, or what is behind the pool, is overwritten, and `pool_free` walks
   the list then. `yyjson.h:621` has the function do what libc's `realloc` does (run `pool_overrun`). The
   program does not use this allocator.
4. *An invalid string is written without an error.* A string read with `ALLOW_INVALID_UNICODE` that has nothing to
   unescape is marked NOESC (`yyjson.c:5448`) and later copied without a look at it (`yyjson.c:9065`), under
   default flags too, of which `yyjson.h:1100` says "Report error on invalid UTF-8 string" (run `noesc`).
5. *A patch adds a member twice.* `add`, and `move` and `copy` with it, appends a second member when the object
   has the key (`yyjson.c:2537`), where RFC 6902, 4.1, replaces it; `yyjson.h:4600` and `yyjson.c:2404` name that
   RFC (run `patch_rfc6902`). Nor is a value kept from being moved to a place below itself, which 4.4 forbids: it
   is taken out of the document first, and the path is then found missing or leads into what came into its place.

Met while modelling the rest. The models do what the code does here; the properties of their runs
are stated so that they hold with it, and say so where they exclude a case:

6. Entries of the active list are marked by address, not by logical register as `include/active_list.h:40`
   says. The code is right: marking by logical register would leave an instruction unfinished for ever (a
   mutant of `Termination`).
7. `free_processor` releases the ALUs without their stages and the lists without their
   queues, although `main.c:79` says "Free the processor & all resources". `LeftAtExit`
   lists exactly what stays.
8. The parser decides the kind of an operand by its first character and never compares it with
   the operation, so that `addi x1, x2, x3` is accepted and stops at an assertion in the ALU
   (`instruction.c:6`, `:17`). The pipeline is modelled for the operand kinds of the README.
9. After a search that passes the last key, `yyjson_mut_obj_iter_getn` sets `idx` to the index of the key
   that it returned, where `yyjson.h:3446` says "next key's index": iteration then gives one key too many
   (`yyjson.h:6762`).
10. A failed `ftell` leaves -1 in `file_size`, and the stream that is meant for "failed to get file
    size" (`yyjson.c:6951`) counts on from there.
11. With repeated keys, `ctx->pre` of a replace is taken before `yyjson_mut_obj_put` cuts later members
    with the key and may be one of them (`yyjson.h:4040`). The context is then not `usable`.
12. `bigint_set_buf` takes the decimal point for a digit when digits are cut off behind it
    (`yyjson.c:4322`), and rounds up when all that was cut are zeros, although `yyjson.c:4335` says "The last
    digit must be non-zero". Both change the double that is read for some texts of more than 769
    digits.

## 6. Not modelled

- *Pipeline:* NULL arguments, the wording of messages, the `print_*` functions, `free_queue`, and
  functions without a caller: `signal_exception`, `pc_inc`, `pc_is_exception`, `iq_set_fw`,
  `free_list_search`, `active_list_update_logical`, `active_list_is_dependent`.
- *Parser:* fields longer than the buffers of its `sscanf`; `main`'s argument texts.
- *yyjson, numbers:* how a number is written (tables of powers, shortest digits), and how digits become a
  double, from the tables to the comparison with the big integers. They are arithmetic on 64 and 128 bits
  without state, out of TLC's reach at their width and without meaning at another.
- *yyjson, text:* the character tables other than by class, copies of eight and sixteen bytes at a time when
  they do not pass what is read, `yyjson_locate_pos`, the texts of errors.
- *yyjson, the rest:* the dynamic allocator, which the program does not use; the characters of a
  pointer (`~0`, `~1`, digits of an index), which are taken as tokens; getters and builders that
  only wrap what is modelled.
- *Scripts* that run and compare the simulator.

## 7. What is left

1. The dynamic allocator, the characters of pointers, and a number writer at a small width.
2. The real widths of the pipeline in one run, with programs longer than the active list.
