---------------------------- MODULE PoolAllocator ----------------------------
(***************************************************************************)
(* The pool allocator (pool_malloc, pool_realloc, pool_free and            *)
(* yyjson_alc_pool_init in src/yyjson.c): a buffer of the caller's cut     *)
(* into chunks, the free ones linked by increasing address.  Addresses and *)
(* sizes are in units of which a chunk header and the header of the pool   *)
(* take HEADER.                                                            *)
(***************************************************************************)
EXTENDS Integers, SequencesExt

CONSTANTS
    HEADER,            \* sizeof(pool_chunk) = sizeof(pool_ctx)
    Offsets,           \* where the caller's buffer may start
    Sizes,             \* and how long it may be
    Asks               \* the sizes that are asked for

PoolAssumption ==
    /\ HEADER \in Nat \ {0} /\ Offsets \subseteq Nat /\ Sizes \subseteq Nat
    /\ Asks \subseteq Nat \ {0}

VARIABLES
    buf,          \* [at, size]: the caller's buffer
    pool,         \* [at, size]: the pool in it, with its header; size 0: there is none
    free_list,    \* the free chunks [at, size], in the order of the links
    used,         \* address of each used chunk -> its size, which is in its header
    asked,        \* address of each used chunk -> what its owner asked for
    spilt         \* what a copy has overwritten behind its chunk: then all that follows is
                  \* undefined

vars == <<buf, pool, free_list, used, asked, spilt>>

AlignDown(n) == HEADER * (n \div HEADER)
AlignUp(n) == AlignDown(n + HEADER - 1)
\* pool_size_align: the size of the chunk for a request
ChunkSize(n) == AlignUp(n) + HEADER

End(chunk) == chunk.at + chunk.size
Bytes(p, n) == p .. p + n - 1
Without(f, x) == Restrict(f, DOMAIN f \ {x})
With(f, x, v) == [y \in DOMAIN f \cup {x} |-> IF y = x THEN v ELSE f[y]]

-----------------------------------------------------------------------------
\* yyjson_alc_pool_init; an allocator that was not initialized serves nothing
PoolIn_WholeSize(at, size) ==
    IF size < 4 * HEADER THEN [at |-> at, size |-> 0] ELSE [at |-> AlignUp(at), size |-> AlignDown(size)]
PoolIn(at, size) ==
    LET ctx == AlignUp(at)
    IN  IF size < 4 * HEADER THEN [at |-> at, size |-> 0]
        ELSE [at |-> ctx, size |-> AlignDown(size - (ctx - at))]

Init ==
    /\ buf \in [at : Offsets, size : Sizes]
    /\ pool = PoolIn(buf.at, buf.size)
    /\ free_list = IF pool.size = 0 THEN << >>
                   ELSE <<[at |-> pool.at + HEADER, size |-> pool.size - HEADER]>>
    /\ used = << >> /\ asked = << >> /\ spilt = {}

-----------------------------------------------------------------------------
\* pool_malloc: the first chunk that is large enough, the rest of which stays free
\* unless it is too small to be a chunk
Fitting(list, size) ==
    {i \in DOMAIN list : list[i].size >= size /\ \A j \in 1 .. i - 1 : list[j].size < size}
Splits_One(total, size) == total > size
Splits(total, size) == total >= size + 2 * HEADER
Granted(chunk, size) == IF Splits(chunk.size, size) THEN size ELSE chunk.size
LeftAfter(list, i, size) ==
    IF Splits(list[i].size, size)
    THEN [list EXCEPT ![i] = [at |-> @.at + size, size |-> @.size - size]]
    ELSE RemoveAt(list, i)

\* The i-th free chunk is handed out for n
Take(i, n) ==
    LET at == free_list[i].at
    IN  /\ used' = With(used, at, Granted(free_list[i], ChunkSize(n)))
        /\ asked' = With(asked, at, n)
        /\ free_list' = LeftAfter(free_list, i, ChunkSize(n))

Malloc(n) ==
    /\ spilt = {} /\ n < pool.size
    /\ \E i \in Fitting(free_list, ChunkSize(n)) : Take(i, n)
    /\ UNCHANGED <<buf, pool, spilt>>

\* malloc or realloc returns NULL
Refused(n) ==
    /\ spilt = {}
    /\ n >= pool.size \/ Fitting(free_list, ChunkSize(n)) = {}
    /\ UNCHANGED vars

-----------------------------------------------------------------------------
\* The number of free chunks in front of an address: how far the walk along the list goes
Before(list, at) ==
    CHOOSE k \in 0 .. Len(list) :
        /\ \A i \in 1 .. k : list[i].at < at
        /\ k < Len(list) => list[k + 1].at >= at

\* pool_free: link the chunk where its address belongs, merge it with the next free
\* chunk, then with the one before
MergedUp(list, i) ==
    IF i < Len(list) /\ End(list[i]) = list[i + 1].at
    THEN RemoveAt([list EXCEPT ![i].size = @ + list[i + 1].size], i + 1)
    ELSE list
MergedDown_Never(list, i) == list
MergedDown(list, i) == IF i > 1 THEN MergedUp(list, i - 1) ELSE list
Released(list, chunk) ==
    LET i == Before(list, chunk.at) + 1
    IN  MergedDown(MergedUp(InsertAt(list, i, chunk), i), i)

Free(p) ==
    /\ spilt = {} /\ p \in DOMAIN used
    /\ free_list' = Released(free_list, [at |-> p, size |-> used[p]])
    /\ used' = Without(used, p) /\ asked' = Without(asked, p)
    /\ UNCHANGED <<buf, pool, spilt>>

-----------------------------------------------------------------------------
\* pool_realloc, which goes by what its caller says was asked for before
Regrows(p, n) == spilt = {} /\ p \in DOMAIN used /\ n > asked[p] /\ n < pool.size

SameChunk(p, n) ==
    /\ Regrows(p, n) /\ ChunkSize(n) = ChunkSize(asked[p])
    /\ asked' = [asked EXCEPT ![p] = n]
    /\ UNCHANGED <<buf, pool, free_list, used, spilt>>

\* The next chunk is free, and together they are large enough
Above(p) == {i \in DOMAIN free_list : i = Before(free_list, p) + 1 /\ p + used[p] = free_list[i].at}
Extends_BesideHeader(p, n) == {i \in Above(p) : used[p] + free_list[i].size + HEADER >= ChunkSize(n)}
Extends(p, n) == {i \in Above(p) : used[p] + free_list[i].size >= ChunkSize(n)}

\* A remainder of two headers is not cut off here, though pool_malloc would
CutsOff_Never(rest) == FALSE
CutsOff(rest) == rest > 2 * HEADER
Extend(p, n) ==
    /\ Regrows(p, n) /\ ChunkSize(n) # ChunkSize(asked[p])
    /\ \E i \in Extends(p, n) :
          LET rest == used[p] + free_list[i].size - ChunkSize(n)
          IN  /\ used' = [used EXCEPT ![p] =
                             IF CutsOff(rest) THEN ChunkSize(n) ELSE used[p] + free_list[i].size]
              /\ free_list' = IF CutsOff(rest)
                              THEN [free_list EXCEPT ![i] = [at |-> p + ChunkSize(n), size |-> rest]]
                              ELSE RemoveAt(free_list, i)
    /\ asked' = [asked EXCEPT ![p] = n]
    /\ UNCHANGED <<buf, pool, spilt>>

\* Otherwise a new chunk, to which all is copied that the old one has room for
MovesTo(p, n) ==
    {i \in Fitting(free_list, ChunkSize(n)) :
        Regrows(p, n) /\ ChunkSize(n) # ChunkSize(asked[p]) /\ Extends(p, n) = {}}

Move(p, n) ==
    /\ \E i \in MovesTo(p, n) :
          LET to == free_list[i].at
              granted == Granted(free_list[i], ChunkSize(n))
          IN  /\ used[p] <= granted
              /\ free_list' = Released(LeftAfter(free_list, i, ChunkSize(n)),
                                       [at |-> p, size |-> used[p]])
              /\ used' = With(Without(used, p), to, granted)
              /\ asked' = With(Without(asked, p), to, n)
    /\ UNCHANGED <<buf, pool, spilt>>

\* The old chunk has more room than the new one, and the copy goes on behind it.  The chunk
\* is handed out, but what pool_free then makes of the old one, walking headers one of which
\* holds what was copied, and all that follows, is undefined.
Spill(p, n) ==
    /\ \E i \in MovesTo(p, n) :
          LET granted == Granted(free_list[i], ChunkSize(n))
          IN  /\ used[p] > granted
              /\ spilt' = Bytes(free_list[i].at + granted, used[p] - granted)
              /\ Take(i, n)
    /\ UNCHANGED <<buf, pool>>

Undefined == spilt # {} /\ UNCHANGED vars

Next ==
    \/ \E n \in Asks : Malloc(n) \/ Refused(n)
    \/ \E p \in DOMAIN used : Free(p)
    \/ \E p \in DOMAIN used, n \in Asks :
          SameChunk(p, n) \/ Extend(p, n) \/ Move(p, n) \/ Spill(p, n)
    \/ Undefined

Spec == Init /\ [][Next]_vars

-----------------------------------------------------------------------------
Chunks == {[at |-> p, size |-> used[p]] : p \in DOMAIN used} \cup Range(free_list)

\* The chunks tile the pool: every byte behind its header belongs to one chunk, used or
\* free, so that nothing is lost however the chunks are split and merged, and the pool is
\* inside the buffer.  About the sizes that pool_malloc, pool_free and pool_realloc leave.
Tiled ==
    pool.size > 0 =>
        /\ \A a \in pool.at + HEADER .. pool.at + pool.size - 1 :
              \E c \in Chunks : \A d \in Chunks : d.at <= a /\ a < End(d) <=> d = c
        /\ \A c \in Chunks : c.at >= pool.at + HEADER /\ End(c) <= pool.at + pool.size
        /\ pool.at >= buf.at /\ pool.at + pool.size <= buf.at + buf.size

\* Two free chunks are never neighbours and the list goes up, so that memory given back
\* is again one chunk: a request that fits between two used chunks is served.  About the
\* merges of pool_free, and pool_realloc taking from the chunk above.
FreeMerged ==
    \A i \in 1 .. Len(free_list) - 1 : End(free_list[i]) < free_list[i + 1].at

\* Every chunk starts with a header and is a multiple of it long: about the alignment of
\* the buffer and of every split.
Aligned == \A c \in Chunks : c.at % HEADER = 0 /\ c.size % HEADER = 0 /\ c.size >= 2 * HEADER

\* A chunk is never more than two headers longer than the request needs, what was too little
\* to be cut off: about pool_malloc and pool_realloc, which keep remainders of different sizes.
LittleSlack == \A p \in DOMAIN used : used[p] <= ChunkSize(asked[p]) + 2 * HEADER

\* Nothing is written outside the block that is handed out: a move copies what fits.  The
\* memcpy of pool_realloc goes by the size of the old chunk and not of the new one.
CopiesStay == spilt = {}

\* What such a copy overwrites is one header: that of the next chunk, or as much behind the
\* pool.  No byte of another block is hit before that header is used.
SpillsOneHeader ==
    spilt # {} => \E at \in {c.at : c \in Chunks} \cup {pool.at + pool.size} :
                     spilt = Bytes(at, HEADER)
\* What the owners have: the memory behind the headers
Live == [a \in {p + HEADER : p \in DOMAIN asked} |-> asked[a - HEADER]]
Vacant(blocks, p, n) ==
    /\ Bytes(p, n) \subseteq Bytes(buf.at, buf.size)
    /\ \A q \in DOMAIN blocks : Bytes(p, n) \cap Bytes(q, blocks[q]) = {}

\* What an allocator promises its callers (yyjson_alc, whose three functions are to behave
\* as libc's): a block gets room that nobody has and keeps it until it is freed; it grows
\* where it is, or moves to room that was free before.
Grants(p, n) == Vacant(Live, p, n) /\ Live' = With(Live, p, n)
Regrants(p, q, n) ==
    /\ n > Live[p] /\ Vacant(IF q = p THEN Without(Live, p) ELSE Live, q, n)
    /\ Live' = With(Without(Live, p), q, n)
Frees(p) == Live' = Without(Live, p)
Promised ==
    \/ Live' = Live
    \/ \E p \in DOMAIN Live' \ DOMAIN Live : Grants(p, Live'[p])
    \/ \E p \in DOMAIN Live, q \in DOMAIN Live' : Regrants(p, q, Live'[q])
    \/ \E p \in DOMAIN Live : Frees(p)
\* It is kept by every step but the copy that leaves its chunk and what comes after it.
KeepsPromise == [][spilt' = {} => Promised]_vars
=============================================================================
