------------------------------ MODULE JsonFile -------------------------------
(***************************************************************************)
(* The file functions of src/yyjson.c.  yyjson_read_file, yyjson_read_fp:  *)
(* the file is read into one block, in one call when its size can be told  *)
(* and otherwise as a stream, and parsed there; sizes are words of         *)
(* SIZE_LIMIT values.  yyjson_val_write_file, _val_write_fp and their      *)
(* mutable twins with what they call (write_dat_to_file, write_dat_to_fp): *)
(* a value is written to a block of text, and the text to a file opened    *)
(* for it or to the caller's own.  Each call on a file and each allocation *)
(* may fail.                                                               *)
(***************************************************************************)
EXTENDS Integers

CONSTANTS
    Lengths,           \* of the file
    Starts,            \* where a caller's file may stand
    SIZE_LIMIT,        \* USIZE_MAX + 1
    LONG_MAX,          \* of a file position; libc allocates no more than this either
    PADDING,           \* YYJSON_PADDING_SIZE
    CHUNK_MIN, CHUNK_MAX

ReadFileAssumption ==
    /\ Lengths \subseteq Nat /\ Starts \subseteq Nat
    /\ PADDING \in Nat \ {0} /\ CHUNK_MIN \in Nat \ {0} /\ CHUNK_MAX \in Nat /\ CHUNK_MIN <= CHUNK_MAX
    /\ LONG_MAX \in Nat /\ PADDING + CHUNK_MAX <= LONG_MAX
    /\ SIZE_LIMIT \in Nat /\ LONG_MAX < SIZE_LIMIT

VARIABLES
    pc,           \* "start", "sized", "stream", "read", "parsed", "done"
    via,          \* "path": yyjson_read_file, or "fp": the caller's own file
    length,       \* of the file
    start, pos,   \* where the file stood, and stands
    open,
    file_size,    \* what the code takes for the size; counted on by the stream
    base,         \* its value when reading begins
    buf_size,     \* of the block, when there is one
    buf,          \* "none", "block" or "doc": the document's now
    chunk_now,
    got,          \* bytes of the file in the block
    broken,       \* a read has failed
    err

readVars == <<pc, via, length, start, pos, open, file_size, base, buf_size, buf, chunk_now, got,
              broken, err>>
given == <<via, length, start>>

ReadInit ==
    /\ pc = "start" /\ via \in {"path", "fp"} /\ length \in Lengths
    /\ start \in IF via = "path" THEN {0} ELSE Starts
    /\ pos = start /\ open = (via = "fp")
    /\ file_size = 0 /\ base = 0 /\ buf_size = 0 /\ buf = "none" /\ chunk_now = CHUNK_MIN
    /\ got = 0 /\ broken = FALSE /\ err = "none"

-----------------------------------------------------------------------------
\* fopen_readonly
Open ==
    /\ pc = "start" /\ ~open
    /\ \/ open' = TRUE /\ UNCHANGED <<pc, err>>
       \/ open' = FALSE /\ pc' = "done" /\ err' = "FILE_OPEN"
    /\ UNCHANGED <<given, pos, file_size, base, buf_size, buf, chunk_now, got, broken>>

\* The size, from two positions: each of the calls may fail, and then nothing is known,
\* except that the second ftell has left its -1
SizeTold(toldEnd, wentBack) ==
    LET told == IF wentBack THEN toldEnd ELSE 0
    IN  IF told > 0 THEN told - start ELSE told
FindSize ==
    /\ pc = "start" /\ open /\ pc' = "sized"
    /\ \/ file_size' = 0 /\ pos' = pos                       \* ftell or the first fseek fails
       \/ \E toldEnd \in ({length} \cap 0 .. LONG_MAX) \cup {-1}, wentBack \in BOOLEAN :
             /\ file_size' = SizeTold(toldEnd, wentBack)
             /\ pos' = IF wentBack THEN start ELSE length
    /\ base' = file_size'
    /\ UNCHANGED <<given, open, buf_size, buf, chunk_now, got, broken, err>>

\* return_err
Failed_KeepsBlock(code) == err' = code /\ pc' = "read" /\ buf' = buf
Failed(code) == err' = code /\ pc' = "read" /\ buf' = "none"

\* What fread_safe may put into n bytes: all there is, or less when it fails
LesserOf(a, b) == IF a <= b THEN a ELSE b
There(n) == LesserOf(n, IF pos < length THEN length - pos ELSE 0)
Fread(n) ==
    \E k \in 0 .. There(n) :
        /\ got' = got + k /\ pos' = pos + k
        /\ broken' = (broken \/ k < There(n))

ReadInFull_Unchecked == got' >= 0
ReadInFull == got' = file_size

\* the entire file in one call
ReadWhole ==
    /\ pc = "sized" /\ file_size > 0 /\ buf = "none"
    /\ \/ /\ Failed("MEMORY_ALLOCATION")
          /\ UNCHANGED <<pos, got, broken, buf_size>>
       \/ /\ file_size + PADDING <= LONG_MAX
          /\ buf_size' = file_size + PADDING
          /\ Fread(file_size)
          /\ IF ReadInFull THEN pc' = "read" /\ buf' = "block" /\ err' = err
             ELSE Failed("FILE_READ")
    /\ UNCHANGED <<given, open, file_size, base, chunk_now>>

\* or a stream, into a block that grows by chunks of doubled size
Grown_ByNext == buf_size + LesserOf(2 * chunk_now, CHUNK_MAX)
Grown == (buf_size + chunk_now) % SIZE_LIMIT
NextChunk == LesserOf(2 * chunk_now, CHUNK_MAX)
BeginStream ==
    /\ pc = "sized" /\ file_size <= 0
    /\ buf_size' = PADDING /\ pc' = "stream"
    /\ UNCHANGED <<given, pos, open, file_size, base, buf, chunk_now, got, broken, err>>

ReadChunk ==
    /\ pc = "stream"
    /\ IF Grown < buf_size
       THEN /\ Failed("MEMORY_ALLOCATION")
            /\ UNCHANGED <<pos, got, broken, buf_size, file_size, chunk_now>>
       ELSE \/ /\ Failed("MEMORY_ALLOCATION")
               /\ buf_size' = Grown
               /\ UNCHANGED <<pos, got, broken, file_size, chunk_now>>
            \/ /\ Grown <= LONG_MAX
               /\ buf_size' = Grown /\ buf' = "block" /\ err' = err
               /\ Fread(chunk_now)
               /\ file_size' = file_size + (got' - got)
               /\ IF got' - got # chunk_now THEN pc' = "read" /\ UNCHANGED chunk_now
                  ELSE pc' = "stream" /\ chunk_now' = NextChunk
    /\ UNCHANGED <<given, open, base>>

\* yyjson_read_opts, in the block; JsonReader is what it does
Parse ==
    /\ pc = "read" /\ err = "none" /\ pc' = "parsed"
    /\ \/ buf' = "doc" /\ UNCHANGED err
       \/ buf' = "none" /\ err' = "parse"
    /\ UNCHANGED <<given, pos, open, file_size, base, buf_size, chunk_now, got, broken>>

\* yyjson_read_file closes what it opened
Return ==
    /\ pc = "parsed" \/ (pc = "read" /\ err # "none")
    /\ pc' = "done"
    /\ open' = (open /\ via = "fp")
    /\ UNCHANGED <<given, pos, file_size, base, buf_size, buf, chunk_now, got, broken, err>>

Finished == pc = "done" /\ UNCHANGED readVars

ReadNext == Open \/ FindSize \/ ReadWhole \/ BeginStream \/ ReadChunk \/ Parse \/ Return \/ Finished

ReadSpec == ReadInit /\ [][ReadNext]_readVars

-----------------------------------------------------------------------------
Parsing == pc = "read" /\ err = "none"

\* What is parsed is what was read, all the file from where it stood when no call on it
\* has failed, and behind it the block has the padding, however the size was found out.
\* About the two ways to read, the one by chunks with an offset computed from the sizes.
ParsesTheFile ==
    Parsing /\ base >= 0 =>
        /\ file_size = got /\ got + PADDING <= buf_size
        /\ ~broken /\ base > 0 => start + got = length

\* A chunk is read into the block, behind the chunks before it: about the block's size,
\* which counts the chunks in full.
ChunksAdjoin ==
    pc = "stream" /\ buf = "block" => buf_size - PADDING = got

\* The block is the document's or it is given back, and the file is closed by who opened
\* it, whatever fails.
ReadHoldsNothing ==
    pc = "done" => /\ buf = IF err = "none" THEN "doc" ELSE "none"
                   /\ open = (via = "fp")

-----------------------------------------------------------------------------
\* Writing a file

CONSTANTS
    Texts,             \* lengths of the text the value has
    Olds               \* lengths of what the file held before

WriteFileAssumption == Texts \subseteq Nat \ {0} /\ Olds \subseteq Nat

VARIABLES
    at,           \* "check", "write", "open", "fwrite", "close", "free", "returned"
    way,          \* "path", or "fp": the caller's own file
    text,         \* the length of the value's text
    valid,        \* the path is neither NULL nor empty; the file is not NULL
    dat,          \* the block with the text exists
    old,          \* how much of what the file held before it still holds
    written,      \* bytes of the text in the file
    buffered,     \* of them, those that libc has not handed to the system
    out,          \* "none", "open", or "caller"
    suc, why

writeVars == <<at, way, text, valid, dat, old, written, buffered, out, suc, why>>

WriteInit ==
    /\ at = "check" /\ way \in {"path", "fp"} /\ valid \in BOOLEAN
    /\ text \in Texts /\ old \in Olds
    /\ out = IF way = "fp" /\ valid THEN "caller" ELSE "none"
    /\ dat = FALSE /\ written = 0 /\ buffered = 0 /\ suc = FALSE /\ why = "none"

Goto(place) == at' = place

\* input path is invalid, input fp is invalid
Check ==
    /\ at = "check"
    /\ IF valid THEN Goto("write") /\ UNCHANGED why
       ELSE Goto("returned") /\ why' = "INVALID_PARAMETER"
    /\ UNCHANGED <<way, text, valid, dat, old, written, buffered, out, suc>>

\* yyjson_val_write_opts, which JsonWriter models
WriteText ==
    /\ at = "write"
    /\ \/ dat' = TRUE /\ Goto(IF way = "path" THEN "open" ELSE "fwrite") /\ UNCHANGED why
       \/ Goto("returned") /\ why' = "write" /\ UNCHANGED dat
    /\ UNCHANGED <<way, text, valid, old, written, buffered, out, suc>>

\* fopen_writeonly empties the file
OpenToWrite ==
    /\ at = "open"
    /\ \/ out' = "open" /\ old' = 0 /\ Goto("fwrite") /\ UNCHANGED why
       \/ Goto("free") /\ why' = "FILE_OPEN" /\ UNCHANGED <<out, old>>
    /\ UNCHANGED <<way, text, valid, dat, written, buffered, suc>>

\* return_err closes the file
CloseOnError_Not(f) == f
CloseOnError(f) == IF f = "open" THEN "none" ELSE f

\* fwrite: all of the text, of which some may wait in the file's buffer, or less
Fwrite ==
    /\ at = "fwrite"
    /\ \E k \in 0 .. text, b \in 0 .. text :
          /\ b <= k /\ written' = k /\ buffered' = b
          /\ IF k = text
             THEN IF way = "path" THEN Goto("close") /\ UNCHANGED <<suc, why, out>>
                  ELSE Goto("free") /\ suc' = TRUE /\ UNCHANGED <<why, out>>
             ELSE Goto("free") /\ why' = "FILE_WRITE" /\ out' = CloseOnError(out)
                     /\ UNCHANGED suc
    /\ UNCHANGED <<way, text, valid, dat, old>>

\* fclose writes the buffer out, and fails when it cannot
CloseFails_Unseen(lost) == FALSE
CloseFails(lost) == lost > 0
Close ==
    /\ at = "close" /\ Goto("free")
    /\ \E lost \in 0 .. buffered :
          /\ written' = written - lost
          /\ IF CloseFails(lost) THEN why' = "FILE_WRITE" /\ UNCHANGED suc
             ELSE suc' = TRUE /\ UNCHANGED why
    /\ buffered' = 0 /\ out' = "none"
    /\ UNCHANGED <<way, text, valid, dat, old>>

Free ==
    /\ at = "free" /\ Goto("returned") /\ dat' = FALSE
    /\ UNCHANGED <<way, text, valid, old, written, buffered, out, suc, why>>

Returned == at = "returned" /\ UNCHANGED writeVars

WriteNext == Check \/ WriteText \/ OpenToWrite \/ Fwrite \/ Close \/ Free \/ Returned

WriteSpec == WriteInit /\ [][WriteNext]_writeVars

-----------------------------------------------------------------------------
\* A file that was opened for the text holds all of it when the call says so, and nothing
\* of what it held before: the caller of yyjson_mut_write_file in main relies on it.  About
\* the result of fclose, where a full disk may show for the first time.
TrueMeansWritten ==
    at = "returned" /\ suc => written = text /\ (way = "path" => buffered = 0 /\ old = 0)

\* Whatever fails, the block is given back, the file that was opened is closed, the
\* caller's is not, and a failure says why.
WriteHoldsNothing ==
    at = "returned" => /\ ~dat /\ out \in {"none", "caller"}
                       /\ (out = "caller") = (way = "fp" /\ valid)
                       /\ suc = (why = "none")
=============================================================================
