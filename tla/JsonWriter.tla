----------------------------- MODULE JsonWriter -----------------------------
(***************************************************************************)
(* The writers of yyjson (src/yyjson.c): yyjson_write_minify and _pretty,  *)
(* and the two for mutable values.  One buffer holds the text, which grows *)
(* from its start, and the contexts of the open containers, which grow     *)
(* from its end; a write first reserves the room that it may need.         *)
(* Positions count in bytes.  A value's own text is a token of w bytes:    *)
(* what strings and numbers look like is not modelled, only how long they  *)
(* may get.                                                                *)
(***************************************************************************)
EXTENDS Integers, Sequences

CONSTANTS
    Docs,           \* documents: sequences of nodes, the root first, not empty
    MINIFY_RATIO,   \* YYJSON_WRITER_ESTIMATED_MINIFY_RATIO
    PRETTY_RATIO,   \* YYJSON_WRITER_ESTIMATED_PRETTY_RATIO
    NUM_LEN         \* FP_BUF_LEN

\* A node: its type, the length of a string or of a container, whether it can be written
\* (a string may be invalid, a number infinite), the bytes of its text, and for the walk
\* of mutable values the next node and the last member.
Node == [t : {"null", "bool", "num", "str", "raw", "arr", "obj", "none"}, n : Nat, ok : BOOLEAN,
         w : Nat, next : Nat, ptr : Nat]

\* A character of a string takes at most six bytes, and the number writers stay two
\* bytes below their buffer.
ASSUME WriterAssumption ==
    /\ MINIFY_RATIO \in Nat /\ PRETTY_RATIO \in Nat /\ NUM_LEN \in Nat
    /\ \A d \in Docs :
          /\ d \in Seq(Node) /\ Len(d) > 0
          /\ \A i \in DOMAIN d : /\ d[i].t = "str" => d[i].w <= 6 * d[i].n + 2
                                 /\ d[i].t = "raw" => d[i].w = d[i].n
                                 /\ d[i].t = "num" => d[i].w + 2 <= NUM_LEN
                                 /\ d[i].t = "null" => d[i].w = 4
                                 /\ d[i].t = "bool" => d[i].w \in {4, 5}

VARIABLES
    doc,
    opts,      \* [pretty, newline, spaces, mutable]
    pc,        \* the label: "val_begin", "ctn_end", "pop", "doc_end", "done", "failed"
    val, ctn,  \* the node at hand, and its container
    ctn_len, ctn_obj,
    level,
    ctx,       \* the contexts, the newest first: [ctn_len, ctn_obj, ctn]
    cur,       \* where the text ends
    top,       \* behind the last byte the step wrote, which may be behind cur
    alc_len,
    text       \* the tokens, [k, x]

vars == <<doc, opts, pc, val, ctn, ctn_len, ctn_obj, level, ctx, cur, top, alc_len, text>>

\* sizeof(yyjson_write_ctx) and sizeof(yyjson_mut_write_ctx)
CtxSize == IF opts.mutable THEN 16 ELSE 8
SizeAlignUp(n, size) == ((n + size - 1) \div size) * size
LargerOf(a, b) == IF a >= b THEN a ELSE b

CtxStart == alc_len - CtxSize * Len(ctx)

\* incr_len: alc_len after a reservation of len bytes behind `at`
IncrLen_IgnoresCtx(at, len) ==
    IF at + len >= alc_len
    THEN alc_len + SizeAlignUp(LargerOf(alc_len \div 2, len), CtxSize) ELSE alc_len
IncrLen(at, len) ==
    IF at + len >= CtxStart
    THEN alc_len + SizeAlignUp(LargerOf(alc_len \div 2, len), CtxSize) ELSE alc_len

Token(k, x) == [k |-> k, x |-> x]
Sign(k) == Token(k, 0)
Opening(obj) == Sign(IF obj THEN "{" ELSE "[")
Closing(obj) == Sign(IF obj THEN "}" ELSE "]")
Without(s, n) == SubSeq(s, 1, Len(s) - n)
NewLine == Sign("nl")

\* A value inside an object has no indent of its own: its key has.  Counting down, a key
\* finds an even ctn_len; only a string is asked whether it is one.
IsValueOfPair == ctn_obj /\ ctn_len % 2 = 1
IsKey == doc[val].t = "str" /\ ctn_obj /\ ctn_len % 2 = 0
Levels == IF opts.pretty /\ ~ IsValueOfPair THEN level ELSE 0
IndentRoom == 4 * Levels
Indent == opts.spaces * Levels
IndentToken(levels) == IF levels = 0 THEN << >> ELSE <<Token("indent", levels)>>

\* write_indent copies four bytes for every level, whatever it then adds to cur.
IndentTop(levels) == IF levels = 0 THEN 0 ELSE opts.spaces * (levels - 1) + 4

-----------------------------------------------------------------------------
\* The first allocation, and doc_begin.  A mutable document estimates its values by its
\* pool; yyjson_mut_val_write_opts estimates none.
Start(estimate) ==
    LET ratio == IF opts.pretty THEN PRETTY_RATIO ELSE MINIFY_RATIO
        open == IF opts.pretty THEN 2 ELSE 1
    IN  /\ alc_len = SizeAlignUp(estimate * ratio + 64, CtxSize)
        /\ cur = open /\ top = open
        /\ text = <<Opening(doc[1].t = "obj")>> \o (IF opts.pretty THEN <<NewLine>> ELSE << >>)

\* What follows the opening of the container at node i
FirstMember(i) ==
    IF ~ opts.mutable THEN i + 1
    ELSE IF doc[i].t = "obj" THEN doc[doc[doc[i].ptr].next].next
    ELSE doc[doc[i].ptr].next

Init ==
    /\ doc \in {d \in Docs : d[1].t \in {"arr", "obj"} /\ d[1].n > 0}
    /\ opts \in [pretty : BOOLEAN, newline : BOOLEAN, spaces : {2, 4}, mutable : BOOLEAN]
    /\ ~ opts.pretty => opts.spaces = 4
    /\ IF opts.mutable THEN \E e \in {0, Len(doc)} : Start(e) ELSE Start(Len(doc))
    /\ pc = "val_begin"
    /\ ctn = 1 /\ val = FirstMember(1)
    /\ ctn_obj = (doc[1].t = "obj")
    /\ ctn_len = IF ctn_obj THEN 2 * doc[1].n ELSE doc[1].n
    /\ level = 1 /\ ctx = << >>

\* A separator and, in pretty text, a space or a line break
Marks == IF opts.pretty THEN 2 ELSE 1

At(type) == pc = "val_begin" /\ val \in DOMAIN doc /\ doc[val].t = type

\* What a node may need behind its indent
Room(node) ==
    CASE node.t = "str" -> 6 * node.n + 16
      [] node.t = "num" -> NUM_LEN
      [] node.t = "raw" -> node.n + Marks + 1
      [] node.t \in {"null", "bool"} -> 16
      [] OTHER -> IF opts.pretty /\ node.n > 0 THEN 32 ELSE 16
Reserve == alc_len' = IncrLen(cur, Room(doc[val]) + IndentRoom)

\* The buffer is freed.
Fail ==
    /\ pc' = "failed" /\ alc_len' = 0
    /\ UNCHANGED <<doc, opts, val, ctn, ctn_len, ctn_obj, level, ctx, cur, top, text>>

\* val_end
ValEnd ==
    /\ ctn_len' = ctn_len - 1
    /\ IF ctn_len = 1 THEN pc' = "ctn_end" ELSE pc' = "val_begin"
    /\ val' = IF ~ opts.mutable THEN val + 1 ELSE IF ctn_len = 1 THEN val ELSE doc[val].next
    /\ UNCHANGED <<doc, opts, ctn, ctn_obj, level, ctx>>

\* A value of w bytes and the marks that follow it.  It is copied in units of some bytes,
\* which may go further than the text: `copied` bytes at most.
Written(tokens, w, copied) ==
    LET after == Indent + w + Marks
    IN  /\ cur' = cur + after
        /\ top' = cur + LargerOf(after, Indent + copied)
        /\ text' = text \o IndentToken(Levels) \o tokens
                        \o (IF IsKey THEN <<Sign(":")>> \o (IF opts.pretty THEN <<Sign("sp")>> ELSE << >>)
                            ELSE <<Sign(",")>> \o (IF opts.pretty THEN <<NewLine>> ELSE << >>))

ValueToken == <<Token("value", val)>>

WriteString ==
    /\ At("str")
    /\ IF doc[val].ok
       THEN /\ Reserve
            /\ Written(ValueToken, doc[val].w, 0)
            /\ ValEnd
       ELSE Fail

WriteNumber ==
    /\ At("num")
    /\ IF doc[val].ok
       THEN Reserve /\ Written(ValueToken, doc[val].w, NUM_LEN) /\ ValEnd
       ELSE Fail

WriteNullOrBool ==
    /\ At("null") \/ At("bool")
    /\ Reserve
    /\ Written(ValueToken, doc[val].w, 8)
    /\ ValEnd

WriteRaw ==
    /\ At("raw")
    /\ Reserve
    /\ Written(ValueToken, doc[val].w, 0)
    /\ ValEnd

WriteEmptyContainer ==
    /\ At("arr") \/ At("obj")
    /\ doc[val].n = 0
    /\ Reserve
    /\ Written(<<Opening(doc[val].t = "obj"), Closing(doc[val].t = "obj")>>, 2, 0)
    /\ ValEnd

\* Push the context of the container at hand, and begin the new one
OpenContainer ==
    /\ At("arr") \/ At("obj")
    /\ doc[val].n > 0
    /\ Reserve
    /\ ctx' = <<[ctn_len |-> ctn_len, ctn_obj |-> ctn_obj, ctn |-> ctn]>> \o ctx
    /\ ctn_obj' = (doc[val].t = "obj")
    /\ ctn_len' = IF ctn_obj' THEN 2 * doc[val].n ELSE doc[val].n
    /\ ctn' = val /\ val' = FirstMember(val)
    /\ level' = level + 1
    /\ cur' = cur + Indent + Marks
    /\ top' = LargerOf(cur', cur + IndentTop(Levels))
    /\ text' = text \o IndentToken(Levels) \o <<Opening(ctn_obj')>>
                    \o (IF opts.pretty THEN <<NewLine>> ELSE << >>)
    /\ UNCHANGED <<doc, opts, pc>>

\* ctn_end: the separator behind the last member gives way to the closing bracket.
Dropped_OneLess == Marks - 1
Dropped == Marks
CtnEnd ==
    /\ pc = "ctn_end" /\ pc' = "pop"
    /\ IF opts.pretty
       THEN LET at == cur - Dropped + 1
            IN  /\ alc_len' = IncrLen(at, 4 * level)
                /\ cur' = at + opts.spaces * (level - 1) + 1
                /\ top' = LargerOf(cur', at + IndentTop(level - 1))
                /\ text' = Without(text, Dropped) \o <<NewLine>> \o IndentToken(level - 1)
                             \o <<Closing(ctn_obj)>>
       ELSE /\ cur' = cur - Dropped + 2 /\ top' = cur'
            /\ text' = Without(text, Dropped) \o <<Closing(ctn_obj), Sign(",")>>
            /\ UNCHANGED alc_len
    /\ level' = level - 1
    /\ UNCHANGED <<doc, opts, val, ctn, ctn_len, ctn_obj, ctx>>

Pop ==
    /\ pc = "pop"
    /\ IF ctx = << >>
       THEN pc' = "doc_end" /\ UNCHANGED <<val, ctn, ctn_len, ctn_obj, ctx, cur, top, text>>
       ELSE LET c == Head(ctx)
            IN  /\ ctx' = Tail(ctx)
                /\ ctn_len' = c.ctn_len - 1 /\ ctn_obj' = c.ctn_obj /\ ctn' = c.ctn
                /\ val' = IF opts.mutable THEN doc[ctn].next ELSE val
                /\ pc' = IF c.ctn_len > 1 THEN "val_begin" ELSE "ctn_end"
                /\ IF opts.pretty
                   THEN cur' = cur + 2 /\ top' = cur' /\ text' = text \o <<Sign(","), NewLine>>
                   ELSE UNCHANGED <<cur, top, text>>
    /\ UNCHANGED <<doc, opts, level, alc_len>>

\* doc_end: the zero that ends the text stands at cur.
DocEnd ==
    /\ pc = "doc_end" /\ pc' = "done"
    /\ alc_len' = IF opts.newline THEN IncrLen(cur, 2) ELSE alc_len
    /\ LET kept == IF opts.pretty THEN text ELSE Without(text, 1)
           end == IF opts.pretty THEN cur ELSE cur - 1
       IN  /\ text' = IF opts.newline THEN kept \o <<NewLine>> ELSE kept
           /\ cur' = IF opts.newline THEN end + 1 ELSE end
           /\ top' = cur' + 1
    /\ UNCHANGED <<doc, opts, val, ctn, ctn_len, ctn_obj, level, ctx>>

\* A reservation that the allocator has no memory for, and a type that no value has
Grows(at, len) == IncrLen(at, len) # alc_len
WriteFails ==
    /\ \/ pc = "val_begin" /\ val \in DOMAIN doc /\ Grows(cur, Room(doc[val]) + IndentRoom)
       \/ pc = "ctn_end" /\ opts.pretty /\ Grows(cur - Dropped + 1, 4 * level)
       \/ pc = "doc_end" /\ opts.newline /\ Grows(cur, 2)
    /\ Fail
InvalidType == At("none") /\ Fail

Ended == pc \in {"done", "failed"} /\ UNCHANGED vars

Next ==
    \/ WriteString \/ WriteNumber \/ WriteNullOrBool \/ WriteRaw
    \/ WriteEmptyContainer \/ OpenContainer
    \/ CtnEnd \/ Pop \/ DocEnd
    \/ WriteFails \/ InvalidType \/ Ended

Spec == Init /\ [][Next]_vars

-----------------------------------------------------------------------------
\* The text never reaches into the contexts of the open containers, nor behind the
\* buffer: what each write reserves is enough for it, for the separators, and for the
\* closing brackets that follow without a reservation of their own.  About incr_len,
\* whose buffer is used from both ends.
NoOverlap == pc # "failed" => cur <= top /\ top <= CtxStart

\* The node k links behind the one at p
Along(p, k) ==
    LET node[j \in 0 .. k] == IF j = 0 THEN p ELSE doc[node[j - 1]].next
    IN  node[k]
=============================================================================
