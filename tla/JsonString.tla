----------------------------- MODULE JsonString -----------------------------
(***************************************************************************)
(* The strings of yyjson, which are bytes in the program and UTF-8 with    *)
(* escapes in a text: read_string, which removes the escapes in place, in  *)
(* the text itself, and write_string and write_string_noesc, which add     *)
(* them again (src/yyjson.c).  A string that was read, or that the program *)
(* made, is written with some flags and what was written is read back.     *)
(*                                                                         *)
(* A step of the reader is one turn of one of its loops, or one escape; a  *)
(* step of the writer is one character.                                    *)
(***************************************************************************)
EXTENDS Integers, Sequences

CONSTANTS Texts,     \* the texts that are read, from the quote on, as sequences of bytes
          Strings    \* the strings that the program makes itself

Byte == 0 .. 255
BytesAssumption ==
    /\ Texts \cup Strings \subseteq Seq(Byte)
    /\ \A t \in Texts : Len(t) > 0

Flag == [inv : BOOLEAN, esc : BOOLEAN, slash : BOOLEAN]

VARIABLES
    at,      \* "skip" and "copy" in read_string, "value" behind it, "write" in
             \* write_string, "text" behind it; "error" when either gave up
    allow,   \* the reader's ALLOW_INVALID_UNICODE
    flg,     \* the writer's flags
    mem,     \* the text as the reader has changed it so far; its end is followed by zeros
    src, dst,\* the bytes that are read and written next
    val,     \* the string: its bytes, and whether it has the subtype NOESC
    out,     \* what write_string has written
    err,     \* the message, where there is an error
    first    \* what the string was before it was written, << >> before that

vars == <<at, allow, flg, mem, src, dst, val, out, err, first>>

Quote == 34
Slash == 47
Backslash == 92
LetterU == 117
Padding == <<0, 0, 0, 0>>     \* YYJSON_PADDING_SIZE

\* The escapes of two characters: what follows the backslash, and what it stands for
Single == [e \in {34, 92, 47, 98, 102, 110, 114, 116} |->
              CASE e = 98 -> 8 [] e = 102 -> 12 [] e = 110 -> 10 [] e = 114 -> 13 [] e = 116 -> 9 [] OTHER -> e]

-----------------------------------------------------------------------------
\* The macros is_valid_seq_1 to _4, on the bytes of s that begin at i
Follows(s, i, n) == \A k \in 1 .. n : s[i + k] \div 64 = 2
IsSeq2(s, i) == s[i] \div 32 = 6 /\ Follows(s, i, 1) /\ (s[i] % 32) \div 2 # 0
IsSeq3(s, i) ==
    LET code == <<s[i] % 16, (s[i + 1] \div 32) % 2>>
    IN  s[i] \div 16 = 14 /\ Follows(s, i, 2) /\ code \notin {<<0, 0>>, <<13, 1>>}
IsSeq4(s, i) ==
    LET code == <<s[i] % 8, (s[i + 1] \div 16) % 4>>
    IN  /\ s[i] \div 8 = 30 /\ Follows(s, i, 3) /\ code # <<0, 0>>
        /\ code[1] < 4 \/ (code[1] % 4 = 0 /\ code[2] = 0)
\* The length of the valid sequence of several bytes that begins at i, or 0
SeqLen(s, i) ==
    CASE IsSeq2(s, i) -> 2 [] IsSeq3(s, i) -> 3 [] IsSeq4(s, i) -> 4 [] OTHER -> 0

\* The bytes that a \u escape, or two, stand for
ToUtf8(u) ==
    LET tail(unit) == 128 + ((u \div unit) % 64)
    IN  IF u >= 65536 THEN <<240 + u \div 262144, tail(4096), tail(64), tail(1)>>
        ELSE IF u >= 2048 THEN <<224 + u \div 4096, tail(64), tail(1)>>
        ELSE IF u >= 128 THEN <<192 + u \div 64, tail(1)>>
        ELSE <<u>>

HexDigit(c) == CASE c \in 48 .. 57 -> c - 48 [] c \in 65 .. 70 -> c - 55 [] c \in 97 .. 102 -> c - 87 [] OTHER -> -1
\* read_hex_u16 at i: the number, or -1
HexU16(i) ==
    LET d == [k \in 1 .. 4 |-> HexDigit(mem[i + k - 1])]
    IN  IF \E k \in 1 .. 4 : d[k] = -1 THEN -1
        ELSE 4096 * d[1] + 256 * d[2] + 16 * d[3] + d[4]

-----------------------------------------------------------------------------
EndOfText == Len(mem) - Len(Padding) + 1     \* `lst`
IsStop(c) == c \in {Quote, Backslash} \/ c < 32 \/ c > 127

\* What write stores the n bytes b at d
Stored(d, b) == [i \in DOMAIN mem |-> IF i - d + 1 \in DOMAIN b THEN b[i - d + 1] ELSE mem[i]]
Loaded(n) == SubSeq(mem, src, src + n - 1)

Reading(mode) == at = mode /\ UNCHANGED <<allow, flg, out, first>>
Fail(msg) == at' = "error" /\ err' = msg /\ UNCHANGED <<mem, src, dst, val>>

\* skip_ascii and skip_utf8: without an escape the string stays where it is
Skip ==
    /\ Reading("skip")
    /\ IF ~IsStop(mem[src]) THEN src' = src + 1 /\ UNCHANGED <<at, err>>
       ELSE /\ mem[src] > 127
            /\ IF SeqLen(mem, src) > 0 THEN src' = src + SeqLen(mem, src) /\ UNCHANGED <<at, err>>
               ELSE IF allow THEN src' = src + 1 /\ UNCHANGED <<at, err>>
               ELSE src' = src /\ at' = "error" /\ err' = "invalid UTF-8 encoding in string"
    /\ UNCHANGED <<mem, dst, val>>

\* `dst = src`: at the first escape, or the first control character
BeginCopy ==
    /\ Reading("skip")
    /\ mem[src] < 32 \/ mem[src] = Backslash
    /\ at' = "copy" /\ dst' = src
    /\ UNCHANGED <<mem, src, val, err>>

\* The closing quote, which becomes the terminator of the string
Close ==
    /\ at \in {"skip", "copy"} /\ UNCHANGED <<allow, flg, out, first>>
    /\ mem[src] = Quote
    /\ LET end == IF at = "skip" THEN src ELSE dst
       IN  /\ val' = [bytes |-> SubSeq(mem, 2, end - 1), noesc |-> at = "skip"]
           /\ mem' = Stored(end, <<0>>)
    /\ at' = "value" /\ src' = src + 1
    /\ UNCHANGED <<dst, err>>

\* n bytes of the string are made from m bytes of the text
Advance(n, m) == dst' = dst + n /\ src' = src + m /\ UNCHANGED <<at, val, err>>

\* copy_ascii: a run of up to 16 characters is moved with stores of 2, 4, 8 and 16 bytes,
\* which may be one byte more than the run
Width_Fours(n) == 4 * ((n + 3) \div 4)
Width(n) == n + (n % 2)
CopyAscii ==
    /\ Reading("copy")
    /\ ~IsStop(mem[src])
    /\ LET n == CHOOSE k \in 1 .. 16 : /\ \A j \in 0 .. k - 1 : ~IsStop(mem[src + j])
                                       /\ k = 16 \/ IsStop(mem[src + k])
       IN  mem' = Stored(dst, Loaded(Width(n))) /\ Advance(n, n)

\* copy_utf8: four bytes are stored for a sequence of three, two for an invalid byte
CopyUtf8 ==
    /\ Reading("copy")
    /\ mem[src] > 127
    /\ LET n == SeqLen(mem, src)
       IN  \/ n > 0 /\ mem' = Stored(dst, Loaded(Width(n))) /\ Advance(n, n)
           \/ n = 0 /\ allow /\ mem' = Stored(dst, Loaded(2)) /\ Advance(1, 1)
           \/ n = 0 /\ ~allow /\ Fail("invalid UTF-8 encoding in string")

\* A control character, the end of the text among them
CopyControl ==
    /\ Reading("copy")
    /\ mem[src] < 32
    /\ IF ~allow THEN Fail("unexpected control character in string")
       ELSE IF src >= EndOfText THEN Fail("unclosed string")
       ELSE mem' = Stored(dst, Loaded(1)) /\ Advance(1, 1)

UnescapeSingle ==
    /\ Reading("copy")
    /\ mem[src] = Backslash /\ mem[src + 1] # LetterU
    /\ IF mem[src + 1] \in DOMAIN Single
       THEN mem' = Stored(dst, <<Single[mem[src + 1]]>>) /\ Advance(1, 2)
       ELSE Fail("invalid escaped character in string")

\* The masks: a surrogate of either kind, a high one, a low one
IsSurrogate(u) == u \div 2048 = 27
IsHigh(u) == u \div 1024 = 54
IsLow(u) == u \div 1024 = 55
\* The code point that a pair stands for, and the pair that stands for one
Paired(hi, lo) == (hi - 55296) * 1024 + (lo - 56320) + 65536
HighOf(u) == 55296 + (u - 65536) \div 1024
LowOf(u) == 56320 + ((u - 65536) % 1024)
IsBasic(u) == u < 65536
UnescapeCode_LoneLow(hi) ==
    LET lo == HexU16(src + 8)
    IN  IF ~IsHigh(hi)
        THEN mem' = Stored(dst, ToUtf8(hi)) /\ Advance(Len(ToUtf8(hi)), 6)
        ELSE IF mem[src + 6] # Backslash \/ mem[src + 7] # LetterU THEN Fail("no low surrogate in string")
        ELSE IF lo = -1 THEN Fail("invalid escaped sequence in string")
        ELSE IF ~IsLow(lo) THEN Fail("invalid low surrogate in string")
        ELSE /\ mem' = Stored(dst, ToUtf8(Paired(hi, lo)))
             /\ Advance(4, 12)
\* The code unit hi, and the low surrogate that must follow it if it is a high one
UnescapeCode(hi) ==
    LET lo == HexU16(src + 8)
    IN  IF ~IsSurrogate(hi)
        THEN mem' = Stored(dst, ToUtf8(hi)) /\ Advance(Len(ToUtf8(hi)), 6)
        ELSE IF ~IsHigh(hi) THEN Fail("invalid high surrogate in string")
        ELSE IF mem[src + 6] # Backslash \/ mem[src + 7] # LetterU THEN Fail("no low surrogate in string")
        ELSE IF lo = -1 THEN Fail("invalid escaped sequence in string")
        ELSE IF ~IsLow(lo) THEN Fail("invalid low surrogate in string")
        ELSE /\ mem' = Stored(dst, ToUtf8(Paired(hi, lo)))
             /\ Advance(4, 12)
Unescape ==
    /\ Reading("copy")
    /\ mem[src] = Backslash /\ mem[src + 1] = LetterU
    /\ LET hi == HexU16(src + 2)
       IN  IF hi = -1 THEN Fail("invalid escaped sequence in string") ELSE UnescapeCode(hi)

Read == Skip \/ BeginCopy \/ Close \/ CopyAscii \/ CopyUtf8 \/ CopyControl \/ UnescapeSingle \/ Unescape

-----------------------------------------------------------------------------
Upper == [d \in 0 .. 15 |-> IF d < 10 THEN 48 + d ELSE 55 + d]
\* The prefix and four digits of esc_hex_char_table
UEscape(u) ==
    LET digit(unit) == Upper[(u \div unit) % 16]
    IN  <<Backslash, LetterU, digit(4096), digit(256), digit(16), digit(1)>>
Replacement == 65533

\* esc_single_char_table: what is written behind the backslash
Letter == [c \in {8, 9, 10, 12, 13, 34, 47, 92} |->
              CASE c = 8 -> 98 [] c = 9 -> 116 [] c = 10 -> 110 [] c = 12 -> 102 [] c = 13 -> 114 [] OTHER -> c]

\* The four tables of get_enc_table_with_flag: the bytes with an escape of two characters,
\* and, for each byte, the length of the character that it begins, 0 where none may
HasSingle(c) == c \in {Quote, Backslash, 8, 9, 10, 12, 13} \/ (c = Slash /\ flg.slash)
CharLen(c) == CASE c < 128 -> 1 [] c \in 192 .. 223 -> 2 [] c \in 224 .. 239 -> 3
                [] c \in 240 .. 247 -> 4 [] OTHER -> 0

Bytes == val.bytes
\* write_string at src: the length of the valid character there, 0 if there is none
ValidLen(s) ==
    LET n == CharLen(s[src])
    IN  IF src + n - 1 > Len(s) \/ (n > 1 /\ SeqLen(s, src) # n) THEN 0 ELSE n

\* The code point of a valid character of several bytes
CodePoint(c) ==
    CASE Len(c) = 2 -> (c[1] % 32) * 64 + (c[2] % 64)
      [] Len(c) = 3 -> (c[1] % 16) * 4096 + (c[2] % 64) * 64 + (c[3] % 64)
      [] Len(c) = 4 -> (c[1] % 8) * 262144 + (c[2] % 64) * 4096 + (c[3] % 64) * 64 + (c[4] % 64)

\* A valid character as it is written
Escape(c) ==
    LET u == CodePoint(c)
    IN  IF Len(c) = 1
        THEN IF HasSingle(c[1]) THEN <<Backslash, Letter[c[1]]>> ELSE UEscape(c[1])
        ELSE IF IsBasic(u) THEN UEscape(u)
        ELSE UEscape(HighOf(u)) \o UEscape(LowOf(u))
Written_RawBackslash(c) ==
    LET escaped == IF Len(c) = 1 THEN c[1] < 32 \/ c[1] = Quote ELSE flg.esc
    IN  IF escaped THEN Escape(c) ELSE c
Written(c) ==
    LET escaped == IF Len(c) = 1 THEN c[1] < 32 \/ HasSingle(c[1]) ELSE flg.esc
    IN  IF escaped THEN Escape(c) ELSE c

Writing == at = "write" /\ UNCHANGED <<allow, flg, mem, dst, val, first>>
Put(text, n) == out' = out \o text /\ src' = src + n /\ UNCHANGED <<at, err>>

WriteChar_OneByte ==
    /\ Writing
    /\ src <= Len(Bytes) /\ ValidLen(Bytes) > 0
    /\ LET n == ValidLen(Bytes) IN Put(Written(SubSeq(Bytes, src, src + n - 1)), 1)
WriteChar ==
    /\ Writing
    /\ src <= Len(Bytes) /\ ValidLen(Bytes) > 0
    /\ LET n == ValidLen(Bytes) IN Put(Written(SubSeq(Bytes, src, src + n - 1)), n)

WriteError == "invalid utf-8 encoding in string"
\* err_cpy and err_esc: one byte is copied or replaced
WriteInvalid ==
    /\ Writing
    /\ src <= Len(Bytes) /\ ValidLen(Bytes) = 0
    /\ IF flg.inv THEN Put(IF flg.esc THEN UEscape(Replacement) ELSE <<Bytes[src]>>, 1)
       ELSE at' = "error" /\ err' = WriteError /\ UNCHANGED <<out, src>>

WriteClose ==
    /\ Writing
    /\ src > Len(Bytes)
    /\ at' = "text" /\ out' = Append(out, Quote)
    /\ UNCHANGED <<src, err>>

-----------------------------------------------------------------------------
\* A value is written: a string with NOESC as it is, if no flag asks for an escape
BeginWrite ==
    /\ at = "value" /\ first = << >>
    /\ flg' \in Flag /\ first' = <<val>>
    /\ LET cpy == ~flg'.esc /\ ~flg'.slash
       IN  IF cpy /\ val.noesc
           THEN at' = "text" /\ out' = <<Quote>> \o Bytes \o <<Quote>> /\ src' = src
           ELSE at' = "write" /\ out' = <<Quote>> /\ src' = 1
    /\ UNCHANGED <<allow, mem, dst, val, err>>

\* What was written is read again, with or without the flag
ReadBack ==
    /\ at = "text"
    /\ at' = "skip" /\ allow' \in BOOLEAN /\ mem' = out \o Padding /\ src' = 2 /\ dst' = 2
    /\ UNCHANGED <<flg, val, out, err, first>>

Init ==
    /\ allow \in BOOLEAN
    /\ flg = [inv |-> FALSE, esc |-> FALSE, slash |-> FALSE]
    /\ src = 2 /\ dst = 2 /\ out = << >> /\ err = "" /\ first = << >>
    /\ \/ \E t \in Texts : at = "skip" /\ mem = t \o Padding /\ val = [bytes |-> << >>, noesc |-> FALSE]
       \/ \E s \in Strings : at = "value" /\ mem = Padding /\ val = [bytes |-> s, noesc |-> FALSE]

Next ==
    \/ Read \/ WriteChar \/ WriteInvalid \/ WriteClose \/ BeginWrite \/ ReadBack
    \/ (at = "error" \/ (at = "value" /\ first # << >>)) /\ UNCHANGED vars

Spec == Init /\ [][Next]_vars

-----------------------------------------------------------------------------
\* The well-formed sequences of the Unicode standard, as ranges for each byte
WellFormedRows == {
    <<0 .. 127>>,
    <<194 .. 223, 128 .. 191>>,
    <<{224}, 160 .. 191, 128 .. 191>>,
    <<(225 .. 239) \ {237}, 128 .. 191, 128 .. 191>>,
    <<{237}, 128 .. 159, 128 .. 191>>,
    <<{240}, 144 .. 191, 128 .. 191, 128 .. 191>>,
    <<241 .. 243, 128 .. 191, 128 .. 191, 128 .. 191>>,
    <<{244}, 128 .. 143, 128 .. 191, 128 .. 191>>}
\* The lengths of the well-formed characters that begin at i, which are at most one
CharsAt(s, i) ==
    {Len(row) : row \in {r \in WellFormedRows : /\ i + Len(r) - 1 <= Len(s)
                                                /\ \A k \in DOMAIN r : s[i + k - 1] \in r[k]}}
\* s with each byte that is in no well-formed character replaced by `by`
Repaired(s, by) ==
    LET from[i \in 1 .. Len(s) + 1] ==
            IF i > Len(s) THEN << >>
            ELSE IF CharsAt(s, i) = {} THEN by \o from[i + 1]
            ELSE LET n == CHOOSE k \in CharsAt(s, i) : TRUE IN SubSeq(s, i, i + n - 1) \o from[i + n]
    IN  from[1]
\* Each byte is in a well-formed character
WellFormed(s) == \A i \in DOMAIN s : \E j \in 1 .. i : \E n \in CharsAt(s, j) : i < j + n

Original == first[1].bytes

\* A string is the same after it was written and read back, whichever flags there were,
\* except for the invalid bytes that ESCAPE_UNICODE replaces (write_string, read_string);
\* and reading back fails only if what was written has bytes that the reader was not to allow.
ReadsBack ==
    first # << >> =>
        /\ at = "value" => Bytes = IF flg.esc THEN Repaired(Original, ToUtf8(Replacement)) ELSE Original
        /\ at = "error" => ~WellFormed(Original) /\ (err = WriteError \/ (~allow /\ ~WellFormed(out)))

\* "Report error on invalid UTF-8 string" (yyjson.h:1100): what is written without
\* ALLOW_INVALID_UNICODE is well-formed, whatever was read before and with which flag.
ReportsInvalid == at = "text" /\ ~flg.inv => WellFormed(out)

\* The strings of which this is not so: write_string_noesc does not look at a string, and
\* the one that it writes was read with ALLOW_INVALID_UNICODE.
Unseen == first[1].noesc /\ allow /\ ~flg.esc /\ ~flg.slash

\* Without ALLOW_INVALID_UNICODE read_string returns well-formed UTF-8, whatever escapes the
\* text has, and without that flag of its own the writer writes it, all strings but those
\* Unseen; with ESCAPE_UNICODE it writes nothing but ASCII.
OnlyWellFormed ==
    /\ at = "value" /\ mem # Padding /\ ~allow => WellFormed(Bytes)
    /\ at = "text" /\ ~flg.inv /\ ~Unseen => WellFormed(out)
    /\ flg.esc => \A i \in DOMAIN out : out[i] < 128

\* While a string is unescaped in place, what is not read yet is still what the text was:
\* the stores that are wider than the characters never get ahead of the reader.
UnreadIntact ==
    [][(at = "skip" \/ at = "copy") => \A i \in src' .. Len(mem) : mem'[i] = mem[i] ]_vars

\* write_string needs at most six bytes for each byte, and two for the quotes: the space
\* that its callers make.
TextFits ==
    /\ at = "write" => Len(out) + 1 <= 6 * (src - 1) + 2
    /\ at = "text" => Len(out) <= 6 * Len(Bytes) + 2

\* What is read and written is UTF-8 as far as the flags ask for it, except for a string read
\* with ALLOW_INVALID_UNICODE that write_string_noesc writes, and it stays within the room
\* that was made for it (read_string, write_string).
StringsSound == OnlyWellFormed /\ TextFits
=============================================================================
