------------------------------- MODULE MCText -------------------------------
(***************************************************************************)
(* How yyjson reads a text, for TLC, side by side: a behaviour picks the   *)
(* reader's state machine, the scanner of numbers or its big integers,     *)
(* while the others stay at one of their initial states.                   *)
(***************************************************************************)
EXTENDS JsonReader, JsonTree, SequencesExt

CONSTANTS
    Numerals, SAFE_DIG, U_MAX, EXP_DIG, MIN_EXP, MAX_EXP, MAX_DEC_DIG,  \* of JsonNumber
    BITS, CHUNKS, Factors, MAX_NUM, Bigs,                           \* of its big integers
    MAX_CHARS      \* bound: characters of the numerals that need not look like a number

VARIABLES
    part,
    nText, nFlg, nAt, nCur, nSig, nLen, nExp, nDot, nCut, nEnd, nRes,
    bBits, bUsed, bNum

numberVars == <<nText, nFlg, nAt, nCur, nSig, nLen, nExp, nDot, nCut, nEnd, nRes>>
bigVars == <<bBits, bUsed, bNum>>

Num == INSTANCE JsonNumber WITH
    Texts <- Numerals, text <- nText, flg <- nFlg, at <- nAt, cur <- nCur, sig <- nSig,
    len <- nLen, exp <- nExp, dot <- nDot, cut <- nCut, end <- nEnd, res <- nRes,
    bits <- bBits, used <- bUsed, meant <- bNum

ASSUME Num!WidthAssumption
ASSUME Num!ChunksAssumption

-----------------------------------------------------------------------------
\* The tokens of a value
RECURSIVE Written(_)
Joined(items) ==
    FoldLeft(LAMBDA text1, item : IF text1 = << >> THEN item ELSE text1 \o <<",">> \o item,
             << >>, items)
Written(v) ==
    IF v.t = "arr" THEN <<"[">> \o Joined([i \in DOMAIN v.m |-> Written(v.m[i])]) \o <<"]">>
    ELSE IF v.t = "obj"
    THEN <<"{">> \o Joined([i \in DOMAIN v.m |-> <<"str", ":">> \o Written(v.m[i].v)]) \o <<"}">>
    ELSE <<v.t>>

\* The text without spaces, comments and the commas in front of closing brackets
Bare ==
    LET solid == SelectSeq(text, LAMBDA t : ~ Skippable(t))
        kept == {i \in DOMAIN solid :
                    ~ (/\ flg.commas /\ solid[i] = "," /\ i < Len(solid) /\ i > 1
                       /\ solid[i + 1] \in {"]", "}"} /\ solid[i - 1] \notin Openers)}
    IN  [k \in 1 .. Cardinality(kept) |->
            solid[CHOOSE i \in kept : Cardinality({j \in kept : j <= i}) = k]]

\* What is read is the document the text says: its cells stand for a value, that value is
\* written with these tokens, and every offset is the one that the value's shape demands.
\* About read_root_minify and read_root_pretty, which keep the parents of the open
\* containers in the fields that are to hold their sizes.
ReadsTheText ==
    pc = "done" => LET v == ValueAt(cells, 1) IN Flat(v) = cells /\ Written(v) = Bare

-----------------------------------------------------------------------------
\* All texts of up to MaxTokens tokens, one kind of value but for the keys: what may stand
\* for a value, and between the brackets of an array and of an object.
MaxTokens == 13
Longer(t, n) ==
    LET joined(e, head) == UNION {{x \o <<",">> \o y : x \in e[k], y \in head[n - 1 - k]} : k \in 1 .. n - 2}
        bracketed(open, e, close) ==
            IF n = 2 THEN {<<open, close>>}
            ELSE IF n > 2 THEN {<<open>> \o x \o <<close>> : x \in e[n - 2]} ELSE {}
        value == IF n = 1 THEN {<<"str">>, <<"num">>}
                 ELSE bracketed("[", t.e, "]") \cup bracketed("{", t.m, "}")
        pair == IF n > 2 THEN {<<"str", ":">> \o x : x \in t.v[n - 2]} ELSE {}
    IN  [v |-> Append(t.v, value), p |-> Append(t.p, pair),
         e |-> Append(t.e, value \cup joined(t.e, t.v)),
         m |-> Append(t.m, pair \cup joined(t.m, t.p))]
Texts == UNION Range(FoldLeft(Longer, [v |-> << >>, p |-> << >>, e |-> << >>, m |-> << >>],
                              [n \in 1 .. MaxTokens |-> n]).v)
MaxPrefix == 6
Beginnings == UNION {{SubSeq(x, 1, k) : k \in 0 .. MaxPrefix} : x \in {y \in Texts : Len(y) >= MaxPrefix}}
                \cup UNION {Prefixes(x) : x \in {y \in Texts : Len(y) < MaxPrefix}}
Kind(t) == IF t = "lit" \/ (t = "nan" /\ flg.infnan) THEN "num" ELSE t

\* Nothing valid is refused: an error in the text is reported only when no text begins
\* with what was read up to it, and an unexpected end only when some text does.
\* About the order in which each label tries the characters, and the codes of return_err.
RefusesOnlyInvalid ==
    LET begins == [i \in DOMAIN Bare |-> Kind(Bare[i])] \in Beginnings
    IN  /\ err \in {"json_structure", "unexpected_character"} => ~ begins
        /\ err = "unexpected_end" /\ Len(Bare) <= MaxPrefix => begins

-----------------------------------------------------------------------------
Flags(insitu, stop, commas, comments, infnan) ==
    [insitu |-> insitu, stop |-> stop, commas |-> commas, comments |-> comments, infnan |-> infnan]
MCFlagSets == {Flags(FALSE, FALSE, FALSE, FALSE, FALSE), Flags(TRUE, TRUE, TRUE, FALSE, FALSE),
               Flags(FALSE, FALSE, FALSE, TRUE, TRUE)}

-----------------------------------------------------------------------------
\* Numerals: all short texts, and long ones that look like a number
MCMinExp == -2
NumeralChars == {"-", "0", "1", ".", "e", "inf", "+"}
Optional(set) == set \cup {<< >>}
Shaped(ints, fracs, exps) ==
    {sign \o int \o frac \o e : sign \in {<< >>, <<"-">>}, int \in ints, frac \in fracs, e \in exps}
Some(digits, n) == SeqOf(digits, n) \ {<< >>}
Fracs(digits, n) == Optional({<<".">> \o f : f \in Some(digits, n)})
Exps == Optional({<<"e">> \o s \o d : s \in {<< >>, <<"-">>}, d \in {<<"1">>, <<"5">>, <<"1", "0", "0">>}})
MCNumerals ==
    {t \in SeqOf(NumeralChars, MAX_CHARS) : t # << >> /\ t[1] \notin {"e", ".", "+"}}
    \cup Shaped(Some({"0", "1", "9"}, 3), Fracs({"0", "5"}, 3), Exps)
    \cup Shaped(Some({"1", "5", "6"}, 4), {<< >>, <<".", "5">>}, Exps)

-----------------------------------------------------------------------------
\* A part that a behaviour does not pick stays at one of its initial states
Parts == {"reader", "number", "big"}
MCInit ==
    /\ part \in Parts
    /\ Init
    /\ part # "reader" => dat_len = 0 /\ ~pretty /\ flg = Flags(FALSE, FALSE, FALSE, FALSE, FALSE)
    /\ IF part = "number" THEN Num!Init
       ELSE /\ nText = <<"1">> /\ nFlg = [raw |-> FALSE, big |-> FALSE, inf |-> FALSE]
            /\ nAt = "begin" /\ nCur = 1 /\ nSig = 0 /\ nLen = 0 /\ nExp = 0
            /\ nDot = Num!NULL /\ nCut = Num!NULL /\ nEnd = Num!NULL
            /\ nRes = [kind |-> "none", end |-> Num!NULL]
    /\ Num!BigInit
    /\ part # "big" => \A b \in Bigs, i \in 1 .. CHUNKS - 1 : bBits[b][i] = 0

ReadText == part = "reader" /\ Next /\ UNCHANGED <<part, numberVars, bigVars>>
ScanNumber == part = "number" /\ Num!Next /\ UNCHANGED <<part, vars, bigVars>>
Compute == part = "big" /\ Num!BigNext /\ UNCHANGED <<part, vars, numberVars>>

MCNext == ReadText \/ ScanNumber \/ Compute
MCSpec == MCInit /\ [][MCNext]_<<part, vars, numberVars, bigVars>>

-----------------------------------------------------------------------------
\* read_number and read_number_raw take what the grammar of JSON takes.
AcceptsNumbers == Num!AcceptsNumbers

\* An integer that 64 bits can hold is read exactly (read_number).
IntegersExact == Num!IntegersExact

\* Significand and exponent are the number, or as close as the digits allow (read_number,
\* bigint_set_buf).
DecimalsClose == Num!DecimalsClose

\* The chunks in use of a big integer are the number it stands for, whatever lay in its
\* memory (bigint_add_u64, bigint_mul_u64, bigint_mul_pow2).
ChunksAreNumber == Num!ChunksAreNumber

\* bigint_cmp orders the big integers as the numbers are ordered.
ComparesNumbers == Num!ComparesNumbers

-----------------------------------------------------------------------------

\* The reader takes the texts of JSON and its flags' extensions and no others, each for the
\* document it says, with the open containers as its only stack.
ReadsExactly == LabelFits /\ ReadsTheText /\ RefusesOnlyInvalid

\* What is a number is taken and keeps its value, as an integer, as a significand with an
\* exponent, and as the big integer that decides the rounding.
NumbersExact ==
    /\ AcceptsNumbers /\ IntegersExact /\ DecimalsClose
    /\ ChunksAreNumber /\ ComparesNumbers
=============================================================================
