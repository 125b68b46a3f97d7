---------------------------- MODULE MCContainers ----------------------------
(***************************************************************************)
(* The three linked or circular containers of the program, and the two     *)
(* allocators whose chunks their nodes lie in, for TLC, side by side: a    *)
(* behaviour picks one of them and makes every sequence of calls to it,    *)
(* while the others stay as they were made.                                *)
(***************************************************************************)
EXTENDS CircularQueue, Functions, TLC

CONSTANTS
    NODES, PAIRS, Names, Data, NoData,
    SIZE_LIMIT, CHUNK_HEADER, INIT_SIZE, MAX_SIZE, MAX_CHUNKS, MAX_BLOCKS,   \* of ValuePool
    HEADER, Offsets, Sizes, Asks                                    \* of PoolAllocator

VARIABLES
    part,                                       \* what is called
    aLen, aPtr, aNext, aIter, aCall, aOut,      \* the variables of MutArray
    oRing, oName, oData, oIter, oCall, oOut,    \* the variables of MutObject
    vChunkSize, vChunks, vCur, vEnd, vBlocks, vReleased, vPhase,    \* of ValuePool
    pBuf, pPool, pFreeList, pUsed, pAsked, pSpilt                 \* of PoolAllocator

Arr == INSTANCE MutArray WITH
    len <- aLen, ptr <- aPtr, next <- aNext, iter <- aIter, call <- aCall, out <- aOut
Obj == INSTANCE MutObject WITH
    ring <- oRing, name <- oName, data <- oData, iter <- oIter, call <- oCall, out <- oOut
Vals == INSTANCE ValuePool WITH
    HEADER <- CHUNK_HEADER, chunk_size <- vChunkSize, chunks <- vChunks, cur <- vCur, end <- vEnd,
    blocks <- vBlocks, released <- vReleased, phase <- vPhase
Pool == INSTANCE PoolAllocator WITH
    buf <- pBuf, pool <- pPool, free_list <- pFreeList, used <- pUsed, asked <- pAsked,
    spilt <- pSpilt

arrayVars == <<aLen, aPtr, aNext, aIter, aCall, aOut>>
objectVars == <<oRing, oName, oData, oIter, oCall, oOut>>
containerVars == <<vars, arrayVars, objectVars>>
valuesVars == <<vChunkSize, vChunks, vCur, vEnd, vBlocks, vReleased, vPhase>>
poolVars == <<pBuf, pPool, pFreeList, pUsed, pAsked, pSpilt>>

ASSUME ArrayAssumption == Arr!NodesAssumption
ASSUME ObjectAssumption == Obj!PairsAssumption
ASSUME ValuesAssumption == Vals!SizesAssumption
ASSUME PoolAssumption == Pool!PoolAssumption

-----------------------------------------------------------------------------
MCInit ==
    /\ part \in {"queue", "array", "object", "values", "pool"}
    /\ Init /\ Arr!Init /\ Obj!Init
    /\ part # "object" => /\ oName = CHOOSE f \in [Obj!Keys -> Names] : TRUE
                          /\ oData = CHOOSE f \in [Obj!Vals -> Data] : TRUE
    /\ Vals!Init /\ Pool!Init
    /\ part # "pool" => pBuf = CHOOSE b \in [at : Offsets, size : Sizes] : TRUE

CallQueue == part = "queue" /\ Next /\ UNCHANGED <<part, arrayVars, objectVars, valuesVars, poolVars>>
CallArray == part = "array" /\ Arr!Next /\ UNCHANGED <<part, vars, objectVars, valuesVars, poolVars>>
CallObject == part = "object" /\ Obj!Next /\ UNCHANGED <<part, vars, arrayVars, valuesVars, poolVars>>
MakeValues == part = "values" /\ Vals!Next /\ UNCHANGED <<part, containerVars, poolVars>>
UsePool == part = "pool" /\ Pool!Next /\ UNCHANGED <<part, containerVars, valuesVars>>

mcVars == <<part, containerVars, valuesVars, poolVars>>
MCNext == CallQueue \/ CallArray \/ CallObject \/ MakeValues \/ UsePool
MCSpec == MCInit /\ [][MCNext]_mcVars

\* States that differ only in what nodes outside the array or the object still hold,
\* or in its last call, are one: a node is written before it is read again, and every
\* step is checked before its states are merged.
InArray == Range(Arr!Listed)
InObject == Range(Obj!ListedKeys) \cup Range(Obj!ListedVals)
View ==
    << part, vars,
       aLen, IF aLen > 0 THEN aPtr ELSE 0, [n \in InArray |-> aNext[n]], aIter,
       oRing.len, IF oRing.len > 0 THEN oRing.ptr ELSE 0, [n \in InObject |-> oRing.next[n]],
       [k \in InObject \cap Obj!Keys |-> oName[k]],
       [v \in InObject \cap Obj!Vals |-> oData[v]], oIter, valuesVars, poolVars >>

\* Neither the names nor the data of an object are compared with anything but each other.
Symmetry == Permutations(Names) \cup Permutations(Data)

-----------------------------------------------------------------------------
\* The array after the iterations of the loop of queue_pop_logical before index i,
\* which starts at `index`: every iteration copies the next element one slot back.
ShiftLoop(index) ==
    LET after[i \in index .. count - 1] ==
            IF i = index THEN data
            ELSE [after[i - 1] EXCEPT ![SlotAt(i - 1)] = after[i - 1][SlotAt(i)]]
    IN  after[count - 1]

\* The sequential loop of queue_pop_logical, which overwrites the array it reads,
\* leaves the array that ShiftedFrom describes.
ShiftIsLoop == \A index \in 0 .. count - 1 : ShiftLoop(index) = ShiftedFrom(index)

\* The ring of a mutable array closes after len different nodes, whatever was inserted,
\* removed and rotated (yyjson_mut_arr_insert and the others).
ArrayRingInv == Arr!RingInv

\* An iterator of an array stands where its index says, also after it removed values
\* (yyjson_mut_arr_iter_remove).
ArrayIteratorInv == Arr!IteratorInv

\* A mutable array behaves as the sequence of its values, for every call and what it
\* returns.
ImplementsList == Arr!ImplementsList

\* Keys and values alternate in the ring of a mutable object, which closes at its last
\* key, whatever was put, inserted, cut and rotated (yyjson_mut_obj_put and the others).
ObjectRingInv == Obj!RingInv

\* An iterator of an object stands where its index says until a search goes round, and
\* knows the key before it while it may remove (yyjson_mut_obj_iter_remove).
ObjectIteratorInv == Obj!IteratorInv

\* A mutable object behaves as the sequence of its members, for every call and what it
\* returns.
ImplementsMap == Obj!ImplementsMap

\* Every block of a document's pool lies in its chunk behind the header, and stays there
\* when the pool grows (unsafe_yyjson_val_pool_grow, _str_pool_grow).
BlocksInside == Vals!BlocksInside

\* No unit of a chunk belongs to two blocks (unsafe_yyjson_mut_val, _str_alc).
BlocksDisjoint == Vals!BlocksDisjoint

\* The next chunk of a pool can always hold something, also after the doubling of a size
\* that the caller set, and grows to the maximum only.
SizesGrow == Vals!SizesGrow

\* The chunks of the pool allocator tile its buffer (pool_malloc, pool_free, pool_realloc).
Tiled == Pool!Tiled

\* Two free chunks are never neighbours, and their list goes up (pool_free).
FreeMerged == Pool!FreeMerged

\* Every chunk starts at a multiple of a header and is one long (yyjson_alc_pool_init).
Aligned == Pool!Aligned

\* A chunk of the pool allocator has at most two headers more than its owner needs.
LittleSlack == Pool!LittleSlack

\* A copy of pool_realloc that leaves its chunk overwrites the next header, or as much
\* behind the pool, and nothing else.
SpillsOneHeader == Pool!SpillsOneHeader

\* The pool allocator does what an allocator promises, until a copy leaves its chunk.
KeepsPromise == Pool!KeepsPromise

\* "Same as libc's realloc(ptr, size)" (yyjson.h:621), which writes nothing but the block
\* that it returns: pool_realloc never copies beyond its new chunk.
CopiesStay == Pool!CopiesStay

-----------------------------------------------------------------------------

\* The structures stay closed, in all of their links and indices, and the iterators stand
\* where they say: about the index arithmetic of queue_t, its shift loop, and the ptr of
\* arrays and objects, which insertion, removal and rotation move.
StructuresInv ==
    /\ QueueInv /\ ShiftIsLoop
    /\ ArrayRingInv /\ ArrayIteratorInv
    /\ ObjectRingInv /\ ObjectIteratorInv

\* The bookkeeping gives no unit of memory to two users and loses none: the blocks of a
\* document's pool lie apart, and the chunks of the pool allocator tile its buffer, free
\* neighbours merged and with little slack (pool_malloc, pool_free, pool_realloc).  Whether
\* what a user writes stays in its chunk is another matter: the memcpy of pool_realloc does
\* not (CopiesStay), but what it then destroys is no more than one header.
MemoryIsApart ==
    /\ BlocksInside /\ BlocksDisjoint
    /\ Tiled /\ FreeMerged /\ Aligned /\ LittleSlack
    /\ SpillsOneHeader

\* Both allocators keep what they promise for every request: room that nobody else has,
\* and a next chunk that can hold something.  The pool allocator does so until the memcpy
\* of pool_realloc (yyjson.c:1154) leaves the new chunk, which CopiesStay is about.
AllocatorsPromise == KeepsPromise /\ SizesGrow
=============================================================================
