----------------------------- MODULE JsonReader -----------------------------
(***************************************************************************)
(* The reader of yyjson (src/yyjson.c): yyjson_read_opts, and the state    *)
(* machine of read_root_minify and read_root_pretty, whose labels are the  *)
(* values of pc.  There is no stack: an open container keeps the distance  *)
(* to its parent where its size will be, and its parent keeps how many     *)
(* members it had.  The text is not there from the start: each step        *)
(* chooses the token that it finds.                                        *)
(*                                                                         *)
(* The two readers differ in their first estimate and in how they skip     *)
(* spaces.  A token stands for all texts of its kind, of any length: its   *)
(* Size is the least.                                                      *)
(***************************************************************************)
EXTENDS Integers, Sequences

CONSTANTS
    FlagSets,    \* records of the flags [insitu, stop, commas, comments, infnan]
    DatLens,     \* lengths of texts in bytes
    HDR_LEN,     \* the cells that yyjson_doc takes
    MINIFY_RATIO, PRETTY_RATIO  \* YYJSON_READER_ESTIMATED_*_RATIO

ASSUME ReaderAssumption ==
    /\ HDR_LEN \in Nat /\ DatLens \subseteq Nat
    /\ MINIFY_RATIO \in Nat \ {0} /\ PRETTY_RATIO \in Nat \ {0}

Openers == {"[", "{"}
ValueTokens == {"str", "num", "lit", "nan"}
BadValues == {"bad_str", "bad_num", "bad_lit"}
Comments == {"comment", "unclosed"}
Tokens == Openers \cup {"]", "}", ",", ":", "space", "other"} \cup ValueTokens \cup BadValues
              \cup Comments
Size(t) ==
    CASE t \in {"str", "unclosed"} -> 2
      [] t = "nan" -> 3
      [] t \in {"lit", "comment"} -> 4
      [] OTHER -> 1

VARIABLES
    flg, dat_len,
    pretty,    \* whether two spaces follow the first bracket
    text,      \* the tokens read
    left,      \* the bytes of the data that are not read yet
    pc,
    cells,     \* the values, the root first: [t, n, p]
    ctn,       \* the open container
    ctn_len,
    alc_len,   \* the cells that are allocated, those of yyjson_doc included
    err

vars == <<flg, dat_len, pretty, text, left, pc, cells, ctn, ctn_len, alc_len, err>>

ArrayLabels == {"arr_val_begin", "arr_val_end"}
InDocument == {"arr_val_begin", "arr_val_end", "obj_key_begin", "obj_key_end",
               "obj_val_begin", "obj_val_end"}

Init ==
    /\ flg \in FlagSets /\ dat_len \in DatLens /\ pretty \in BOOLEAN
    /\ text = << >> /\ left = dat_len /\ pc = "opts"
    /\ cells = << >> /\ ctn = 1 /\ ctn_len = 0 /\ alc_len = 0
    /\ err = "none"

-----------------------------------------------------------------------------
\* The next token is t.
Reads(t) ==
    /\ Size(t) <= left
    /\ t \in {"space", "comment"} => \A i \in DOMAIN text : i = Len(text) => text[i] # t
    /\ text' = Append(text, t) /\ left' = left - Size(t)
AtEnd == UNCHANGED <<text, left>>

\* return_err, here and in yyjson_read_opts: nothing of the document remains.
Fail(code) ==
    /\ pc' = "failed" /\ err' = code
    /\ UNCHANGED <<flg, dat_len, pretty, cells, ctn, ctn_len, alc_len>>

\* The values that may stand at the cursor
ValueOf(t) == t \in {"str", "num", "lit"} \/ (t = "nan" /\ flg.infnan)
Skippable(t) == t = "space" \/ (t = "comment" /\ flg.comments)

\* The error of an unexpected token
Code(t) ==
    CASE t = "bad_num" -> "invalid_number"
      [] t = "bad_str" -> "invalid_string"
      [] t = "bad_lit" -> "literal"
      [] t = "unclosed" /\ flg.comments -> "invalid_comment"
      [] OTHER -> "unexpected_character"

-----------------------------------------------------------------------------
\* yyjson_read_opts
CopyData ==
    /\ pc = "opts" /\ AtEnd
    /\ IF dat_len = 0 THEN Fail("invalid_parameter")
       ELSE /\ pc' = "lead"
            /\ UNCHANGED <<flg, dat_len, pretty, cells, ctn, ctn_len, alc_len, err>>

Skip ==
    /\ pc \in InDocument \cup {"lead", "doc_end"} /\ (pc = "doc_end" => ~ flg.stop)
    /\ \E t \in Tokens : Skippable(t) /\ Reads(t)
    /\ UNCHANGED <<flg, dat_len, pretty, pc, cells, ctn, ctn_len, alc_len, err>>

EmptyContent == pc = "lead" /\ AtEnd /\ Fail("empty_content")
UnclosedLead == pc = "lead" /\ flg.comments /\ Reads("unclosed") /\ Fail("invalid_comment")

\* read_root_single
SingleValue ==
    /\ pc = "lead"
    /\ \E t \in ValueTokens :
          /\ ValueOf(t) /\ Reads(t)
          /\ cells' = <<[t |-> t, n |-> 0, p |-> 0]>>
    /\ alc_len' = HDR_LEN + 1
    /\ pc' = "doc_end"
    /\ UNCHANGED <<flg, dat_len, pretty, ctn, ctn_len, err>>

SingleRefused ==
    /\ pc = "lead"
    /\ \E t \in Tokens \ Openers :
          /\ ~ ValueOf(t) /\ ~ Skippable(t) /\ ~ (t = "unclosed" /\ flg.comments)
          /\ Reads(t) /\ Fail(Code(t))

\* The first lines of read_root_minify and read_root_pretty
TypeOf(t) == IF t = "{" THEN "obj" ELSE "arr"
FirstLabel(t) == IF t = "{" THEN "obj_key_begin" ELSE "arr_val_begin"
RootContainer ==
    /\ pc = "lead"
    /\ \E t \in Openers :
          /\ Size(t) <= (IF pretty THEN left - 2 ELSE left)
          /\ text' = Append(text, t)
          /\ left' = left - Size(t) - (IF pretty THEN 2 ELSE 0)
          /\ cells' = <<[t |-> TypeOf(t), n |-> 0, p |-> 0]>>
          /\ pc' = FirstLabel(t)
    /\ alc_len' = HDR_LEN + (IF flg.stop THEN 256 ELSE left)
                              \div (IF pretty THEN PRETTY_RATIO ELSE MINIFY_RATIO) + 4
   
    /\ ctn' = 1 /\ ctn_len' = 0
    /\ UNCHANGED <<flg, dat_len, pretty, err>>

-----------------------------------------------------------------------------
\* val_incr: the last two cells are kept for a key and its value.
Full_NoPadding == HDR_LEN + Len(cells) >= alc_len
Full == HDR_LEN + Len(cells) >= alc_len - 2
ValIncr == alc_len' = IF Full THEN alc_len + alc_len \div 2 ELSE alc_len

NewCell(t, p) == Append(cells, [t |-> t, n |-> 0, p |-> p])

\* arr_begin, obj_begin: the parent keeps its count in its tag.
Saved_Same == ctn_len
Saved == ctn_len + 1
ToParent_BeforeIncr == Len(cells) - ctn
ToParent == Len(cells) + 1 - ctn
OpenContainer ==
    /\ pc \in {"arr_val_begin", "obj_val_begin"}
    /\ \E t \in Openers :
          /\ Reads(t)
          /\ cells' = Append([cells EXCEPT ![ctn].n = Saved],
                             [t |-> TypeOf(t), n |-> 0, p |-> ToParent])
          /\ pc' = FirstLabel(t)
    /\ ValIncr
    /\ ctn' = Len(cells) + 1 /\ ctn_len' = 0
    /\ UNCHANGED <<flg, dat_len, pretty, err>>

ArrayValue ==
    /\ pc = "arr_val_begin" /\ pc' = "arr_val_end"
    /\ \E t \in ValueTokens : ValueOf(t) /\ Reads(t) /\ cells' = NewCell(t, 0)
    /\ ValIncr /\ ctn_len' = ctn_len + 1
    /\ UNCHANGED <<flg, dat_len, pretty, ctn, err>>

Key ==
    /\ pc = "obj_key_begin" /\ pc' = "obj_key_end"
    /\ Reads("str") /\ cells' = NewCell("str", 0)
    /\ ValIncr /\ ctn_len' = ctn_len + 1
    /\ UNCHANGED <<flg, dat_len, pretty, ctn, err>>

Colon ==
    /\ pc = "obj_key_end" /\ pc' = "obj_val_begin"
    /\ Reads(":")
    /\ UNCHANGED <<flg, dat_len, pretty, cells, ctn, ctn_len, alc_len, err>>

\* The value of a key takes the next cell without a look at the end.
KeyValue ==
    /\ pc = "obj_val_begin" /\ pc' = "obj_val_end"
    /\ \E t \in ValueTokens : ValueOf(t) /\ Reads(t) /\ cells' = NewCell(t, 0)
    /\ ctn_len' = ctn_len + 1
    /\ UNCHANGED <<flg, dat_len, pretty, ctn, alc_len, err>>

Comma ==
    /\ \/ pc = "arr_val_end" /\ pc' = "arr_val_begin"
       \/ pc = "obj_val_end" /\ pc' = "obj_key_begin"
    /\ Reads(",")
    /\ UNCHANGED <<flg, dat_len, pretty, cells, ctn, ctn_len, alc_len, err>>

\* arr_end, obj_end, behind a member or where the next might begin
MayClose_NotEmpty == pc \in {"arr_val_end", "obj_val_end"} \/ flg.commas
MayClose == pc \in {"arr_val_end", "obj_val_end"} \/ ctn_len = 0 \/ flg.commas
InArray == pc \in ArrayLabels
InObject == pc \in {"obj_key_begin", "obj_val_end"}
ClosingToken == IF InArray THEN "]" ELSE "}"
Close ==
    /\ InArray \/ InObject
    /\ MayClose /\ Reads(ClosingToken)
    /\ LET parent == ctn - cells[ctn].p
       IN  /\ cells' = [cells EXCEPT
                           ![ctn].p = Len(cells) + 1 - ctn,
                           ![ctn].n = IF InArray THEN ctn_len ELSE ctn_len \div 2]
           /\ IF parent = ctn THEN pc' = "doc_end" /\ UNCHANGED <<ctn, ctn_len>>
              ELSE /\ ctn' = parent /\ ctn_len' = cells[parent].n
                   /\ pc' = IF cells[parent].t = "obj" THEN "obj_val_end" ELSE "arr_val_end"
    /\ UNCHANGED <<flg, dat_len, pretty, alc_len, err>>

TrailingComma ==
    /\ InArray \/ InObject
    /\ ~ MayClose /\ Reads(ClosingToken) /\ Fail("json_structure")

-----------------------------------------------------------------------------
\* The tokens with which a label goes on
Expected(t) ==
    \/ Skippable(t)
    \/ pc \in {"arr_val_begin", "obj_val_begin"} /\ (ValueOf(t) \/ t \in Openers)
    \/ pc \in {"arr_val_begin", "arr_val_end"} /\ t = "]"
    \/ pc = "obj_key_begin" /\ t \in {"str", "}"}
    \/ pc = "obj_key_end" /\ t = ":"
    \/ pc = "obj_val_end" /\ t = "}"
    \/ pc \in {"arr_val_end", "obj_val_end"} /\ t = ","

\* A value with an error in it is looked at only where a value may stand.
MalformedValue(t) ==
    \/ pc \in {"arr_val_begin", "obj_val_begin"} /\ t \in BadValues
    \/ pc = "obj_key_begin" /\ t = "bad_str"

Unexpected ==
    /\ pc \in InDocument
    /\ \E t \in Tokens :
          /\ ~ Expected(t) /\ Reads(t)
          /\ Fail(IF t \in BadValues /\ ~ MalformedValue(t) THEN "unexpected_character" ELSE Code(t))

\* is_truncated_end: the data ends.
EndsInside == pc \in InDocument /\ AtEnd /\ Fail("unexpected_end")

Garbage ==
    /\ pc = "doc_end" /\ ~ flg.stop
    /\ \E t \in Tokens :
          /\ ~ Skippable(t) /\ Reads(t)
          /\ Fail(IF t = "unclosed" /\ flg.comments THEN "invalid_comment" ELSE "unexpected_content")

Finish ==
    /\ pc = "doc_end" /\ pc' = "done" /\ AtEnd
    /\ UNCHANGED <<flg, dat_len, pretty, cells, ctn, ctn_len, alc_len, err>>

\* A malloc or realloc that returns NULL
AllocationFails ==
    /\ \/ pc = "opts" /\ dat_len > 0 /\ ~ flg.insitu
       \/ pc = "lead"
       \/ pc \in InDocument /\ Full
    /\ AtEnd /\ Fail("memory_allocation")

Ended == pc \in {"done", "failed"} /\ UNCHANGED vars

Next ==
    \/ CopyData \/ Skip \/ EmptyContent \/ UnclosedLead \/ SingleValue \/ SingleRefused
    \/ RootContainer \/ OpenContainer \/ ArrayValue \/ Key \/ Colon \/ KeyValue \/ Comma
    \/ Close \/ TrailingComma \/ Unexpected \/ EndsInside \/ Garbage \/ Finish
    \/ AllocationFails \/ Ended

Spec == Init /\ [][Next]_vars

-----------------------------------------------------------------------------
\* Every cell that is written lies in the block of the values, also the value of a key,
\* for which the reader does not look at the end of the block.  About val_incr and the
\* two cells it keeps.
CellsInBlock ==
    pc \in InDocument \cup {"doc_end", "done"} => HDR_LEN + Len(cells) <= alc_len

\* The container at hand is one, of the kind that the label is about, and the offset it
\* keeps leads to a container in front of it, or nowhere from the root.  About arr_end
\* and obj_end, where the kind of the parent chooses the label to go on with.
LabelFits ==
    pc \in InDocument =>
        /\ ctn \in DOMAIN cells
        /\ cells[ctn].t = IF pc \in ArrayLabels THEN "arr" ELSE "obj"
        /\ IF ctn = 1 THEN cells[ctn].p = 0
           ELSE cells[ctn].p \in 1 .. ctn - 1 /\ cells[ctn - cells[ctn].p].t \in {"arr", "obj"}
=============================================================================
