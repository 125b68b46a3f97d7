------------------------------ MODULE ValuePool ------------------------------
(***************************************************************************)
(* The memory of a mutable document (src/yyjson.c, include/yyjson.h): a    *)
(* pool hands out parts of its newest chunk and makes a larger chunk when  *)
(* a request does not fit.  Both pools of a document are this one: that of *)
(* the values counts in values, its header being one, and that of the      *)
(* strings in bytes.  The sizes are words of SIZE_LIMIT values.            *)
(***************************************************************************)
EXTENDS Integers, Sequences

CONSTANTS
    SIZE_LIMIT,        \* USIZE_MAX + 1, in units
    HEADER,            \* units of the chunk header
    INIT_SIZE,         \* first chunk_size
    MAX_SIZE,          \* chunk_size_max
    MAX_CHUNKS,        \* bound: chunks of a document
    MAX_BLOCKS         \* bound: requests served

SizesAssumption ==
    /\ HEADER \in Nat \ {0} /\ INIT_SIZE \in Nat /\ MAX_SIZE \in Nat
    /\ HEADER < INIT_SIZE /\ INIT_SIZE <= MAX_SIZE /\ MAX_SIZE < SIZE_LIMIT
    /\ SIZE_LIMIT \in Nat

Size == 0 .. SIZE_LIMIT - 1

VARIABLES
    chunk_size,   \* the size of the next chunk
    chunks,       \* sizes of the chunks, oldest first; the pool's list has the newest first
    cur, end,     \* offsets in the newest chunk
    blocks,       \* the blocks served: [chunk, from, to], to excluded
    released,     \* the chunks given back, in order
    phase         \* "live", then "releasing", then "freed"

vars == <<chunk_size, chunks, cur, end, blocks, released, phase>>

-----------------------------------------------------------------------------
\* yyjson_mut_doc_new
Init ==
    /\ chunk_size = INIT_SIZE /\ chunks = << >>
    /\ cur = 0 /\ end = 0
    /\ blocks = << >> /\ released = << >> /\ phase = "live"

\* yyjson_mut_doc_set_str_pool_size, _val_pool_size
SetPoolSize(n) ==
    /\ phase = "live"
    /\ n <= SIZE_LIMIT - 1 - HEADER
    /\ chunk_size' = n + HEADER
    /\ UNCHANGED <<chunks, cur, end, blocks, released, phase>>

\* The size of the chunk after one of chunk_size: doubled, up to the maximum.  The
\* doubling may wrap.
Doubled == (2 * chunk_size) % SIZE_LIMIT
LesserOf(a, b) == IF a <= b THEN a ELSE b
NextChunkSize_Unchecked == LesserOf(Doubled, MAX_SIZE)
NextChunkSize ==
    LET size == LesserOf(Doubled, MAX_SIZE)
    IN  IF size < chunk_size THEN MAX_SIZE ELSE size

Serve_KeepsCur(chunk, from, n) ==
    /\ blocks' = Append(blocks, [chunk |-> chunk, from |-> from, to |-> from + n])
    /\ cur' = from
Serve(chunk, from, n) ==
    /\ blocks' = Append(blocks, [chunk |-> chunk, from |-> from, to |-> from + n])
    /\ cur' = from + n

\* The size of the chunk made for n units
ChunkFor_NoHeader(n) == IF n > chunk_size THEN n ELSE chunk_size
ChunkFor(n) == IF n + HEADER > chunk_size THEN n + HEADER ELSE chunk_size

\* unsafe_yyjson_mut_val and unsafe_yyjson_mut_str_alc: n units (a string's zero
\* included) from the newest chunk, or from a new one.
Allocate(n) ==
    /\ phase = "live" /\ Len(blocks) < MAX_BLOCKS
    /\ end - cur >= n
    /\ Serve(Len(chunks), cur, n)
    /\ UNCHANGED <<chunk_size, chunks, end, released, phase>>

\* unsafe_yyjson_val_pool_grow, unsafe_yyjson_str_pool_grow
Grow(n) ==
    /\ phase = "live" /\ Len(blocks) < MAX_BLOCKS /\ Len(chunks) < MAX_CHUNKS
    /\ end - cur < n
    /\ n <= SIZE_LIMIT - 1 - HEADER
    /\ LET size == ChunkFor(n)
       IN  /\ chunks' = Append(chunks, size)
           /\ end' = size
           /\ Serve(Len(chunks) + 1, HEADER, n)
    /\ chunk_size' = NextChunkSize
    /\ UNCHANGED <<released, phase>>

\* The request cannot be a chunk, or the allocator has no memory for it.
GrowFails(n) ==
    /\ phase = "live" /\ end - cur < n
    /\ UNCHANGED vars

\* yyjson_mut_doc_free: the chunks from the head of the list, then the document
Release ==
    /\ phase \in {"live", "releasing"} /\ Len(released) < Len(chunks)
    /\ phase' = "releasing"
    /\ released' = Append(released, Len(chunks) - Len(released))
    /\ UNCHANGED <<chunk_size, chunks, cur, end, blocks>>
Freed ==
    /\ phase # "freed" /\ Len(released) = Len(chunks)
    /\ phase' = "freed"
    /\ UNCHANGED <<chunk_size, chunks, cur, end, blocks, released>>

Next ==
    \/ \E n \in Size \ {0} : SetPoolSize(n) \/ Allocate(n) \/ Grow(n) \/ GrowFails(n)
    \/ Release \/ Freed
    \/ phase = "freed" /\ UNCHANGED vars

Spec == Init /\ [][Next]_vars

-----------------------------------------------------------------------------
\* Every block lies in its chunk, behind the header, and the newest chunk is described
\* by cur and end: what was served stays where it is when the pool grows.
BlocksInside ==
    /\ cur <= end
    /\ chunks # << >> => end = chunks[Len(chunks)]
    /\ \A i \in DOMAIN blocks :
          LET b == blocks[i]
          IN  /\ b.chunk \in DOMAIN chunks
              /\ HEADER <= b.from /\ b.from < b.to /\ b.to <= chunks[b.chunk]
              /\ b.chunk = Len(chunks) => b.to <= cur

\* No unit of a chunk belongs to two blocks.
BlocksDisjoint ==
    \A i, j \in DOMAIN blocks :
        i < j /\ blocks[i].chunk = blocks[j].chunk => blocks[i].to <= blocks[j].from

\* A chunk can always hold something behind its header, also after the doubling of a
\* size that the caller set, and grows to the maximum only.
SizesGrow ==
    [][chunks' # chunks => /\ chunk_size' > HEADER
                           /\ chunk_size' <= MAX_SIZE
                           /\ chunk_size' < chunk_size => chunk_size > MAX_SIZE]_vars
=============================================================================
