----------------------------- MODULE JsonPointer -----------------------------
(***************************************************************************)
(* JSON Pointer on mutable documents (src/yyjson.c, JSON Pointer API, and  *)
(* include/yyjson.h): the nodes of a document, the calls that follow a     *)
(* pointer token by token, and the context they leave, which names a       *)
(* container and the node in front of the target in its ring.  The caller  *)
(* uses the context of the last call, as long as nothing else has changed  *)
(* the document.  Tokens and calls are as in JsonDoc.                      *)
(***************************************************************************)
EXTENDS JsonTree, FiniteSets

CONSTANTS Calls,
          MAX_NODES   \* no value is added to a document of that many nodes

VARIABLES
    mem,    \* the nodes made so far, [t, n, p, next]: p is the name of a string, and the
            \* last node (the last key) of a container
    root,   \* the document's root, or NULL
    ctx,    \* [ctn, pre], and whether the caller may use it
    call,   \* the last call
    out     \* [ok, val]: what it returned, or stored as ctx.old

vars == <<mem, root, ctx, call, out>>

NULL == 0
END == 99
NOT_INDEX == -1
NO_KEY == 0

Copy == INSTANCE JsonCopy WITH
            Values <- {}, value <- root, form <- root, blocks <- root, counted <- root
Along(s, p, k) == Copy!Along(s, p, k)
Value(s, p) == IF p = NULL THEN Scalar("none", 0) ELSE Copy!NodeValue(s, p)

Init ==
    /\ mem = << >> /\ root = NULL
    /\ ctx = [ctn |-> NULL, pre |-> NULL, usable |-> FALSE]
    /\ call = [op |-> "new"]
    /\ out = [ok |-> TRUE, val |-> NULL]

NoCtx == [ctn |-> NULL, pre |-> NULL, usable |-> FALSE]
Ctx(ctn, pre) == [ctn |-> ctn, pre |-> pre, usable |-> TRUE]

-----------------------------------------------------------------------------
\* Nodes and rings: a new node, and unsafe_yyjson_mut_obj_add, yyjson_mut_arr_append
Node(type, payload) == [t |-> type, n |-> 0, p |-> payload, next |-> NULL]
NewObj == Node("obj", NULL)
ObjAdd(s, o, key, val) ==
    LET last == s[o].p
        linked == [s EXCEPT ![key].next = val, ![val].next = key, ![o].p = key, ![o].n = @ + 1]
    IN  IF s[o].n = 0 THEN linked
        ELSE [linked EXCEPT ![s[last].next].next = key, ![val].next = Along(s, last, 2)]
ArrAppend(s, a, val) ==
    LET last == s[a].p
        linked == [s EXCEPT ![val].next = val, ![a].p = val, ![a].n = @ + 1]
    IN  IF s[a].n = 0 THEN linked
        ELSE [linked EXCEPT ![last].next = val, ![val].next = s[last].next]

KeysOf(s, o) == [i \in 1 .. s[o].n |-> Along(s, s[o].p, 2 * i)]

\* yyjson_mut_obj_put for a key that the object has: its first match gets the value,
\* when there is one, and the others go.
ObjPut(s, o, name, new) ==
    LET keys == KeysOf(s, o)
        first == SelectInSeq(keys, LAMBDA k : s[k].p = name)
        kept == SelectSeq(keys, LAMBDA k : s[k].p # name \/ (new # NULL /\ k = keys[first]))
        valueOf(k) == IF s[k].p = name THEN new ELSE s[k].next
        after(j) == kept[(j % Len(kept)) + 1]
        links == UNION {{<<kept[j], valueOf(kept[j])>>, <<valueOf(kept[j]), after(j)>>}
                           : j \in DOMAIN kept}
        counted == [s EXCEPT ![o].n = Len(kept), ![o].p = IF kept = << >> THEN @ ELSE Last(kept)]
        linked(l, t) == [t EXCEPT ![l[1]].next = l[2]]
    IN  FoldSet(linked, counted, links)
\* whether the node in front of the match went with the others
CutsOthers(s, o, name) == Cardinality({i \in 1 .. s[o].n : s[KeysOf(s, o)[i]].p = name}) > 1

-----------------------------------------------------------------------------
\* ptr_mut_arr_get and ptr_mut_obj_get: [val, pre, last]
Nothing == [val |-> NULL, pre |-> NULL, last |-> FALSE]
ArrGet(s, a, tok) ==
    LET pre == Along(s, s[a].p, tok.idx)
        last == tok.idx \in {s[a].n, END}
    IN  IF tok.idx \in 0 .. s[a].n - 1 THEN [val |-> s[pre].next, pre |-> pre, last |-> last]
        ELSE [Nothing EXCEPT !.last = last]
ObjGet(s, o, tok) ==
    LET i == SelectInSeq(KeysOf(s, o), LAMBDA k : s[k].p = tok.key)
        pre == Along(s, s[o].p, 2 * (i - 1))
    IN  IF i = 0 THEN Nothing ELSE [Nothing EXCEPT !.val = Along(s, pre, 3), !.pre = pre]
Get(s, p, tok) ==
    IF s[p].t = "obj" THEN ObjGet(s, p, tok)
    ELSE IF s[p].t = "arr" THEN ArrGet(s, p, tok)
    ELSE Nothing

\* As far as the pointer leads: the container, the token that selects in it, the tokens
\* behind it, and what it selects.  There is no container behind a bad token.
RECURSIVE Walk(_, _, _)
Walk(s, p, path) ==
    LET tok == Head(path)
        got == Get(s, p, tok)
    IN  IF tok.key = NO_KEY THEN [ctn |-> NULL, tok |-> tok, rest |-> << >>, got |-> Nothing]
        ELSE IF got.val = NULL \/ Tail(path) = << >>
        THEN [ctn |-> p, tok |-> tok, rest |-> Tail(path), got |-> got]
        ELSE Walk(s, got.val, Tail(path))

\* unsafe_yyjson_mut_ptr_getx: the target, and the context
Found(w) == IF w.rest = << >> THEN w.got.val ELSE NULL
FoundCtx(s, w) ==
    IF /\ w.ctn # NULL /\ w.rest = << >>
       /\ \/ s[w.ctn].t = "obj"
          \/ s[w.ctn].t = "arr" /\ (w.got.val # NULL \/ w.got.last)
    THEN Ctx(w.ctn, w.got.pre)
    ELSE NoCtx

\* unsafe_yyjson_ptr_getx, on the cells of an immutable document: ptr_obj_get, ptr_arr_get
SelectedCell_LastKey(f, i, tok) ==
    LET keys == [k \in 1 .. f[i].n |-> MemberCell(f, i, k)]
        match == SelectLastInSeq(keys, LAMBDA k : f[k].p = tok.key)
    IN  IF f[i].t = "obj" /\ match # 0 THEN keys[match] + 1
        ELSE IF f[i].t = "arr" /\ tok.idx \in 0 .. f[i].n - 1 THEN MemberCell(f, i, tok.idx + 1)
        ELSE NULL
SelectedCell(f, i, tok) ==
    LET keys == [k \in 1 .. f[i].n |-> MemberCell(f, i, k)]
        match == SelectInSeq(keys, LAMBDA k : f[k].p = tok.key)
    IN  IF f[i].t = "obj" /\ match # 0 THEN keys[match] + 1
        ELSE IF f[i].t = "arr" /\ tok.idx \in 0 .. f[i].n - 1 THEN MemberCell(f, i, tok.idx + 1)
        ELSE NULL
RECURSIVE GetCell(_, _, _)
GetCell(f, i, path) ==
    LET val == SelectedCell(f, i, Head(path))
    IN  IF Head(path).key = NO_KEY \/ val = NULL THEN NULL
        ELSE IF Tail(path) = << >> THEN val
        ELSE GetCell(f, val, Tail(path))

-----------------------------------------------------------------------------
\* unsafe_yyjson_mut_ptr_putx: the parents that are not there, all below one object that
\* is attached to the document when everything else is done.
NoSep == [ctn |-> NULL, key |-> NULL, val |-> NULL]
Attached(s, sep) ==
    IF sep.ctn = NULL THEN s
    ELSE IF sep.key = NULL THEN ArrAppend(s, sep.ctn, sep.val)
    ELSE ObjAdd(s, sep.ctn, sep.key, sep.val)

InArray(s, w) == s[w.ctn].t = "arr"
\* the tokens that become keys
NewTokens(s, w) == IF InArray(s, w) /\ w.rest # << >> THEN w.rest ELSE <<w.tok>> \o w.rest

\* The memory, the innermost container and what is to be attached, after the first k of
\* the keys, each with an object for value
Made_Attached(s, w, k) ==
    LET obj == Len(s) + 1
        begun == IF ~ InArray(s, w) \/ w.rest = << >> THEN [s |-> s, ctn |-> w.ctn, sep |-> NoSep]
                 ELSE [s |-> ArrAppend(Append(s, NewObj), w.ctn, obj), ctn |-> obj, sep |-> NoSep]
        made[j \in 0 .. k] ==
            IF j = 0 THEN begun
            ELSE LET m == made[j - 1]
                     key == Len(m.s) + 1
                     with == m.s \o <<Node("str", NewTokens(s, w)[j].key), NewObj>>
                 IN  [s |-> ObjAdd(with, m.ctn, key, key + 1), ctn |-> key + 1, sep |-> NoSep]
    IN  made[k]
Made(s, w, k) ==
    LET obj == Len(s) + 1
        begun == IF ~ InArray(s, w) \/ w.rest = << >> THEN [s |-> s, ctn |-> w.ctn, sep |-> NoSep]
                 ELSE [s |-> Append(s, NewObj), ctn |-> obj,
                       sep |-> [ctn |-> w.ctn, key |-> NULL, val |-> obj]]
        made[j \in 0 .. k] ==
            IF j = 0 THEN begun
            ELSE LET m == made[j - 1]
                     key == Len(m.s) + 1
                     with == m.s \o <<Node("str", NewTokens(s, w)[j].key), NewObj>>
                 IN  IF m.sep = NoSep
                     THEN [s |-> with, ctn |-> key + 1,
                           sep |-> [ctn |-> m.ctn, key |-> key, val |-> key + 1]]
                     ELSE [m EXCEPT !.s = ObjAdd(with, m.ctn, key, key + 1), !.ctn = key + 1]
    IN  made[k]

\* The value put into the object, or inserted into or replaced in the array: [s, pre, old,
\* usable]
PutInObj(s, o, tok, got, new, insert) ==
    LET key == Len(s) + 1
    IN  IF got.val = NULL \/ insert
        THEN [s |-> ObjAdd(Append(s, Node("str", tok.key)), o, key, new),
              pre |-> IF s[o].n > 0 THEN s[o].p ELSE key, old |-> NULL, usable |-> TRUE]
        ELSE [s |-> ObjPut(s, o, tok.key, new), pre |-> got.pre, old |-> got.val,
              usable |-> ~ CutsOthers(s, o, tok.key)]
InsertInArr(s, a, got, new) ==
    IF got.val # NULL
    THEN [s |-> [s EXCEPT ![got.pre].next = new, ![new].next = got.val, ![a].n = @ + 1],
          pre |-> got.pre, old |-> NULL, usable |-> TRUE]
    ELSE [s |-> ArrAppend(s, a, new), pre |-> IF s[a].n > 0 THEN s[a].p ELSE new,
          old |-> NULL, usable |-> TRUE]
ReplaceInArr_KeepsPtr(s, a, got, new) ==
    [s |-> [s EXCEPT ![new].next = s[got.val].next, ![got.pre].next = new],
     pre |-> got.pre, old |-> got.val, usable |-> TRUE]
ReplaceInArr(s, a, got, new) ==
    IF s[a].n > 1
    THEN [s |-> [s EXCEPT ![new].next = s[got.val].next, ![got.pre].next = new,
                          ![a].p = IF @ = got.val THEN new ELSE @],
          pre |-> got.pre, old |-> got.val, usable |-> TRUE]
    ELSE [s |-> [s EXCEPT ![new].next = new, ![a].p = new],
          pre |-> new, old |-> got.val, usable |-> TRUE]

\* What putx does with the tree at p: the outcomes are [s, ctx, ok, val].  Making a key or
\* a parent may fail, and then some nodes are made that are nowhere attached.
Failed(s) == [s |-> s, ctx |-> NoCtx, ok |-> FALSE, val |-> NULL]
Succeeded(done, made) ==
    [s |-> Attached(done.s, made.sep),
     ctx |-> [ctn |-> made.ctn, pre |-> done.pre, usable |-> done.usable],
     ok |-> TRUE, val |-> done.old]

PutAllowed(s, w, create, insert) ==
    /\ w.ctn # NULL
    /\ IsContainer(s[w.ctn])
    /\ w.rest # << >> => create
    /\ InArray(s, w) /\ (w.rest # << >> \/ w.got.val = NULL) => w.got.last /\ insert

\* In an array that is there, nothing needs memory.
PutInArr(s, w, new, insert) ==
    {Succeeded(IF insert THEN InsertInArr(s, w.ctn, w.got, new) ELSE ReplaceInArr(s, w.ctn, w.got, new),
               [ctn |-> w.ctn, sep |-> NoSep])}

\* Otherwise in an object, which may be the last of the parents that are made
PutBelow(made, tok, got, new, insert) ==
    Succeeded(PutInObj(made.s, made.ctn, tok, got, new, insert), made)
PutByKey(s, w, toks, new, insert) ==
    LET bad == {k \in DOMAIN toks : toks[k].key = NO_KEY}
        got == IF w.rest # << >> THEN Nothing ELSE w.got
        short == IF bad # {} THEN Min(bad) - 1 ELSE IF got.val = NULL \/ insert THEN Len(toks) - 1 ELSE -1
    IN  {Failed(Made(s, w, k).s) : k \in 0 .. short}
            \cup IF bad # {} THEN {}
                 ELSE {PutBelow(Made(s, w, Len(toks) - 1), Last(toks), got, new, insert)}

PutAt(s, w, create, new, insert) ==
    IF ~ PutAllowed(s, w, create, insert) THEN {Failed(s)}
    ELSE IF InArray(s, w) /\ w.rest = << >> THEN PutInArr(s, w, new, insert)
    ELSE PutByKey(s, w, NewTokens(s, w), new, insert)
PutX(s, p, c, new, insert) == PutAt(s, Walk(s, p, c.path), c.create, new, insert)

\* yyjson_ptr_ctx_append, _replace and _remove: of a member, its value and what follows it
ValueOf(s, p) == IF s[p].t = "str" THEN s[p].next ELSE p
After(s, p) == s[ValueOf(s, p)].next

\* `head` is the new key of an object, and the new value itself in an array.
CtxAppended(s, x, head, val) ==
    LET cur == IF x.pre = NULL THEN s[x.ctn].p ELSE After(s, x.pre)
        keyed == IF head = val THEN s ELSE [s EXCEPT ![head].next = val]
    IN  IF s[x.ctn].n = 0
        THEN [s |-> [keyed EXCEPT ![val].next = head, ![x.ctn].p = head, ![x.ctn].n = 1],
              pre |-> head]
        ELSE [s |-> [keyed EXCEPT ![val].next = After(s, cur), ![ValueOf(s, cur)].next = head,
                                  ![x.ctn].p = IF @ = cur THEN head ELSE @,
                                  ![x.ctn].n = @ + 1],
              pre |-> cur]

CtxReplaced(s, x, new) ==
    LET cur == After(s, x.pre)
    IN  IF s[x.ctn].t = "obj"
        THEN [s |-> [s EXCEPT ![cur].next = new, ![new].next = After(s, cur)],
              pre |-> x.pre, old |-> s[cur].next]
        ELSE IF cur # x.pre
        THEN [s |-> [s EXCEPT ![new].next = s[cur].next, ![x.pre].next = new,
                              ![x.ctn].p = IF @ = cur THEN new ELSE @],
              pre |-> x.pre, old |-> cur]
        ELSE [s |-> [s EXCEPT ![new].next = new, ![x.ctn].p = new], pre |-> new, old |-> cur]

CtxRemoved(s, x) ==
    LET cur == After(s, x.pre)
        len == s[x.ctn].n - 1
    IN  [s |-> [s EXCEPT ![ValueOf(s, x.pre)].next = After(s, cur),
                         ![x.ctn].p = IF len = 0 THEN NULL ELSE IF @ = cur THEN x.pre ELSE @,
                         ![x.ctn].n = len],
         pre |-> NULL, old |-> ValueOf(s, cur)]

\* unsafe_yyjson_mut_ptr_replacex and _removex, when there is a target
ReplaceX(s, x, new) ==
    LET key == After(s, x.pre)
    IN  IF s[x.ctn].t = "arr" THEN CtxReplaced(s, x, new)
        ELSE [s |-> ObjPut(s, x.ctn, s[key].p, new), pre |-> x.pre, old |-> s[key].next]
RemoveX(s, x) ==
    LET key == After(s, x.pre)
    IN  IF s[x.ctn].t = "arr" THEN CtxRemoved(s, x)
        ELSE [s |-> ObjPut(s, x.ctn, s[key].p, NULL), pre |-> NULL, old |-> s[key].next]

-----------------------------------------------------------------------------
\* The calls on a document, and on its root as a value.  A pointer that does not begin
\* with '/' is refused like an empty one on a value.
Become(s, r, x, ok, val) ==
    mem' = s /\ root' = r /\ ctx' = x /\ out' = [ok |-> ok, val |-> val]
Refuse == Become(mem, root, NoCtx, FALSE, NULL)
OnDoc(c) == c.level = "doc"

PtrGet(c) ==
    LET w == Walk(mem, root, c.path)
    IN  IF root = NULL THEN Refuse
        ELSE IF c.path = << >> THEN Become(mem, root, NoCtx, TRUE, root)
        ELSE Become(mem, root, FoundCtx(mem, w), Found(w) # NULL, Found(w))

\* the caller's new value: a number, an empty array or an empty object
NewNode(v) == Node(v.t, IF IsContainer(v) THEN NULL ELSE v.v)
WithNew(c) == Append(mem, NewNode(c.val))
New == Len(mem) + 1

Put(c, insert) ==
    LET at == Append(WithNew(c), NewObj)
        fresh == root = NULL /\ c.create /\ OnDoc(c)
        top == IF fresh THEN Len(at) ELSE root
    IN  IF root = NULL /\ ~ fresh THEN Refuse
        ELSE \E o \in PutX(IF fresh THEN at ELSE WithNew(c), top, c, New, insert) :
                Become(o.s, IF o.ok THEN top ELSE root, o.ctx, o.ok, o.val)

PtrAdd(c) ==
    IF c.path # << >> THEN Put(c, TRUE)
    ELSE IF OnDoc(c) /\ root = NULL THEN Become(WithNew(c), New, NoCtx, TRUE, NULL)
    ELSE Refuse

PtrReplace(c) ==
    LET s == WithNew(c)
        w == Walk(s, root, c.path)
        x == FoundCtx(s, w)
        r == ReplaceX(s, x, New)
        usable == s[x.ctn].t = "arr" \/ ~ CutsOthers(s, x.ctn, w.tok.key)
    IN  IF root = NULL \/ (c.path = << >> /\ ~ OnDoc(c)) THEN Refuse
        ELSE IF c.path = << >> THEN Become(s, New, NoCtx, TRUE, root)
        ELSE IF Found(w) = NULL THEN Become(mem, root, x, FALSE, NULL)
        ELSE Become(r.s, root, [x EXCEPT !.pre = r.pre, !.usable = usable], TRUE, r.old)

PtrRemove(c) ==
    LET w == Walk(mem, root, c.path)
        x == FoundCtx(mem, w)
        r == RemoveX(mem, x)
    IN  IF root = NULL \/ (c.path = << >> /\ ~ OnDoc(c)) THEN Refuse
        ELSE IF c.path = << >> THEN Become(mem, NULL, NoCtx, TRUE, root)
        ELSE IF Found(w) = NULL THEN Become(mem, root, x, FALSE, NULL)
        ELSE Become(r.s, root, [x EXCEPT !.pre = r.pre], TRUE, r.old)

NoValue == Scalar("none", 0)
PtrSet(c) ==
    IF c.path = << >> /\ OnDoc(c)
    THEN IF c.val = NoValue THEN Become(mem, NULL, NoCtx, TRUE, root)
         ELSE Become(WithNew(c), New, NoCtx, TRUE, root)
    ELSE IF c.path = << >> THEN Refuse
    ELSE IF c.val = NoValue THEN PtrRemove(c)
    ELSE Put(c, FALSE)

CtxAppend(c) ==
    LET key == Len(WithNew(c)) + 1
        keyed == Append(WithNew(c), Node("str", c.key))
        r == IF mem[ctx.ctn].t = "obj" THEN CtxAppended(keyed, ctx, key, New)
             ELSE CtxAppended(WithNew(c), ctx, New, New)
    IN  ctx.usable /\ Become(r.s, root, [ctx EXCEPT !.pre = r.pre], TRUE, NULL)

CtxReplace(c) ==
    LET r == CtxReplaced(WithNew(c), ctx, New)
    IN  /\ ctx.usable
        /\ IF ctx.pre = NULL THEN Become(mem, root, ctx, FALSE, NULL)
           ELSE Become(r.s, root, [ctx EXCEPT !.pre = r.pre], TRUE, r.old)

CtxRemove(c) ==
    LET r == CtxRemoved(mem, ctx)
    IN  /\ ctx.usable
        /\ IF ctx.pre = NULL THEN Become(mem, root, ctx, FALSE, NULL)
           ELSE Become(r.s, root, [ctx EXCEPT !.pre = r.pre], TRUE, r.old)

Do(c) ==
    \/ c.op = "get" /\ PtrGet(c)
    \/ c.op = "add" /\ PtrAdd(c)
    \/ c.op = "set" /\ PtrSet(c)
    \/ c.op = "replace" /\ PtrReplace(c)
    \/ c.op = "remove" /\ PtrRemove(c)
    \/ c.op = "ctx_append" /\ CtxAppend(c)
    \/ c.op = "ctx_replace" /\ CtxReplace(c)
    \/ c.op = "ctx_remove" /\ CtxRemove(c)

\* the values and keys of the document
Tree == Value(mem, root)
Size == IF root = NULL THEN 0 ELSE Len(Flat(Tree))
Next ==
    \E c \in Calls :
        /\ call' = c
        /\ c.op \in {"add", "set", "ctx_append"} => Size < MAX_NODES
        /\ Do(c)

Spec == Init /\ [][Next]_vars

=============================================================================
