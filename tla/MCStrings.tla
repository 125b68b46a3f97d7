------------------------------ MODULE MCStrings ------------------------------
(***************************************************************************)
(* Strings and quoted texts for TLC: characters of every length at the     *)
(* limits of their ranges, bytes that are no characters, and escapes.      *)
(***************************************************************************)
EXTENDS JsonString, SequencesExt

CONSTANT MAX_PIECES    \* bound: pieces that a quoted text or a string is put together from

ASSUME BytesAssumption

Ascii == {<<97>>, <<34>>, <<92>>, <<47>>, <<10>>, <<1>>, <<127>>, <<97, 98, 99>>}
Utf8 == {<<195, 169>>, <<194, 128>>, <<226, 130, 172>>, <<224, 160, 128>>, <<237, 159, 191>>,
         <<240, 159, 152, 128>>, <<244, 143, 191, 191>>}
\* Overlong, a surrogate, too large, cut short, or without a beginning
Invalid == {<<193, 191>>, <<224, 159, 191>>, <<237, 160, 128>>, <<240, 143, 191, 191>>,
            <<244, 144, 128, 128>>, <<240, 159, 152>>, <<226, 130>>, <<195>>, <<128>>, <<255>>}
Hex(a, b, c, d) == <<92, 117, a, b, c, d>>
Escapes == {<<92, 110>>, <<92, 47>>, <<92, 34>>, <<92, 120>>,
            Hex(48, 48, 54, 49), Hex(48, 48, 101, 57), Hex(50, 48, 65, 67),   \* a, e acute, euro
            Hex(100, 56, 51, 100), Hex(68, 69, 48, 48), Hex(48, 48, 48, 71)}  \* the surrogates, and a G
\* What may follow one another in ways that matter
Few == {<<97>>, <<1>>, <<97, 98, 99>>, <<226, 130, 172>>, <<128>>, <<92, 34>>,
        Hex(100, 56, 51, 100), Hex(68, 69, 48, 48)}
MCStrings == {FlattenSeq(s) : s \in SeqOf(Ascii \cup Utf8 \cup Invalid, MAX_PIECES)}
MCTexts == {<<34>> \o FlattenSeq(s) \o end :
                s \in SeqOf(Ascii \cup Utf8 \cup Invalid \cup Escapes, MAX_PIECES)
                      \cup SeqOf(Few, MAX_PIECES + 1),
                end \in {<<34>>, << >>}}
=============================================================================
