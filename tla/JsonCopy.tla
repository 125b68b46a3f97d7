------------------------------ MODULE JsonCopy ------------------------------
(***************************************************************************)
(* The copies of a document (src/yyjson.c): from the immutable cells to    *)
(* the rings of mutable nodes, from rings to rings, and from rings back to *)
(* cells.  The document at hand is replaced by its copy over and over; a   *)
(* copy for which the allocator has no memory returns NULL and leaves the  *)
(* document as it was.                                                     *)
(***************************************************************************)
EXTENDS JsonTree

CONSTANT Values     \* the values documents are parsed from

VARIABLES
    value,    \* what the document was parsed from
    form,     \* "cells" or "nodes"
    mem,      \* the cells, [t, n, p], or the nodes, [t, n, p, next]; the root is mem[1]
    blocks,   \* live blocks of the allocator
    counted   \* what the last copy to cells counted: [vals, bytes], and then used

vars == <<value, form, mem, blocks, counted>>

Count(vals, bytes) == [vals |-> vals, bytes |-> bytes]
NoCount == [need |-> Count(0, 0), used |-> Count(0, 0)]

\* The blocks of a document: the values' (with the document in them when it is
\* immutable), and the strings' if there is one.  A pool of a mutable document that
\* has more than one chunk is taken as one block: it is released chunk by chunk.
HasStrings == StringBytes(value) > 0
StringBlocks == IF HasStrings THEN 1 ELSE 0
CellBlocks == 1 + StringBlocks
NodeBlocks == 2 + StringBlocks

Init ==
    /\ value \in Values
    /\ form = "cells" /\ mem = Flat(value)
    /\ blocks = CellBlocks
    /\ counted = NoCount

-----------------------------------------------------------------------------
\* yyjson_val_mut_copy: node j is the copy of cell j, and every container links the
\* members it has, the last one to the first.
Follows_Stops(f, i, k) == IF k < f[i].n THEN MemberCell(f, i, k + 1) ELSE MemberCell(f, i, k)
Follows(f, i, k) == IF k < f[i].n THEN MemberCell(f, i, k + 1) ELSE i + 1

LinksOf(f, i) ==
    IF ~ IsContainer(f[i]) THEN {}
    ELSE LET member == [k \in 1 .. f[i].n |-> MemberCell(f, i, k)]
         IN  IF f[i].t = "arr" THEN {<<member[k], Follows(f, i, k)>> : k \in 1 .. f[i].n}
             ELSE UNION {{<<member[k], member[k] + 1>>, <<member[k] + 1, Follows(f, i, k)>>}
                            : k \in 1 .. f[i].n}

Unset == 0
ToNodes(f) ==
    LET links == UNION {LinksOf(f, i) : i \in DOMAIN f}
        next(j) == IF \E l \in links : l[1] = j THEN (CHOOSE l \in links : l[1] = j)[2] ELSE Unset
        ptr(j) == IF IsContainer(f[j]) /\ f[j].n > 0 THEN MemberCell(f, j, f[j].n) ELSE f[j].p
    IN  [j \in DOMAIN f |-> [t |-> f[j].t, n |-> f[j].n, p |-> ptr(j), next |-> next(j)]]

\* unsafe_yyjson_mut_val_mut_copy: a node for the one at p, then one for everything
\* below it, the last member's first; the ring is closed behind the one before the
\* last.  Returns the nodes made so far.
RECURSIVE CopyNode(_, _, _)
CopyNode(src, p, made) ==
    LET me == Len(made) + 1
        node == Append(made, [src[p] EXCEPT !.next = Unset])
        last == src[p].p
        RECURSIVE CopyRest(_, _, _)
        CopyRest(from, prev, nodes) ==
            IF from = last THEN [nodes EXCEPT ![prev].next = nodes[me].p]
            ELSE LET at == Len(nodes) + 1
                 IN  CopyRest(src[from].next, at,
                              [CopyNode(src, from, nodes) EXCEPT ![prev].next = at])
    IN  IF ~ IsContainer(src[p]) \/ src[p].n = 0 THEN node
        ELSE CopyRest(src[last].next, me + 1,
                      [CopyNode(src, last, node) EXCEPT ![me].p = me + 1])

\* The nodes in the ring of the container at p
Linked(src, p) == IF src[p].t = "obj" THEN 2 * src[p].n ELSE src[p].n

\* The node k links behind the one at p
Along(src, p, k) ==
    LET node[j \in 0 .. k] == IF j = 0 THEN p ELSE src[node[j - 1]].next
    IN  node[k]

\* A container counts itself, and its parent has counted it too.
Counted_Twice(sum, s) == Count(sum.vals + s.vals, sum.bytes + s.bytes)
Counted(sum, s) == Count(sum.vals + s.vals - 1, sum.bytes + s.bytes)

\* yyjson_mut_stat: the values and the bytes at p and below, from the node that the
\* container's ptr is at.
RECURSIVE Stat(_, _)
Stat(src, p) ==
    LET add(sum, q) == IF src[q].t = "str" THEN [sum EXCEPT !.bytes = @ + src[q].n + 1]
                       ELSE IF IsContainer(src[q]) THEN Counted(sum, Stat(src, q))
                       ELSE sum
        members == [k \in 1 .. Linked(src, p) |-> Along(src, src[p].p, k - 1)]
    IN  IF src[p].t = "str" THEN Count(1, src[p].n + 1)
        ELSE IF ~ IsContainer(src[p]) THEN Count(1, 0)
        ELSE FoldLeft(add, Count(1 + Linked(src, p), 0), members)

\* yyjson_imut_copy: the cells of the node at p behind those written, the bytes of the
\* strings with them; a container's own cell is completed after its members'.
RECURSIVE CopyCells(_, _, _)
CopyCells(src, p, w) ==
    LET put(cell, size, bytes) ==
            [cells |-> Append(w.cells, cell), bytes |-> w.bytes + bytes, size |-> size]
        node == src[p]
        cell == [t |-> node.t, n |-> node.n, p |-> node.p]
        copy(so_far, k) ==
            LET c == CopyCells(src, Along(src, node.p, k + (IF node.t = "obj" THEN 1 ELSE 0)),
                               so_far)
            IN  [c EXCEPT !.size = @ + so_far.size]
        inside == FoldLeft(copy, put(cell, 1, 0), [k \in 1 .. Linked(src, p) |-> k])
    IN  IF node.t = "str" THEN put(cell, 1, node.n + 1)
        ELSE IF ~ IsContainer(node) THEN put(cell, 1, 0)
        ELSE [inside EXCEPT !.cells[Len(w.cells) + 1].p = inside.size]

-----------------------------------------------------------------------------
Replaced(new_form, copy, own) ==
    /\ form' = new_form /\ mem' = copy
    /\ blocks' = own          \* the copy's; the document it was made from is freed
    /\ UNCHANGED value

\* A copy that stops after `granted` blocks frees the document made so far.
GivenBack_AllButDoc(granted) == IF granted > 0 THEN granted - 1 ELSE 0
GivenBack(granted) == granted
Refused(granted) ==
    /\ blocks' = blocks + granted - GivenBack(granted)
    /\ UNCHANGED <<value, form, mem, counted>>

\* yyjson_doc_mut_copy
MutCopyOfCells ==
    /\ form = "cells"
    /\ Replaced("nodes", ToNodes(mem), NodeBlocks)
    /\ UNCHANGED counted

\* yyjson_mut_doc_mut_copy
MutCopyOfNodes ==
    /\ form = "nodes"
    /\ Replaced("nodes", CopyNode(mem, 1, << >>), NodeBlocks)
    /\ UNCHANGED counted

MutCopyFails == \E granted \in 0 .. NodeBlocks - 1 : Refused(granted)

\* yyjson_mut_doc_imut_copy
ImutCopy ==
    /\ form = "nodes"
    /\ LET w == CopyCells(mem, 1, [cells |-> << >>, bytes |-> 0, size |-> 0])
       IN  /\ Replaced("cells", w.cells, CellBlocks)
           /\ counted' = [need |-> Stat(mem, 1), used |-> Count(w.size, w.bytes)]

ImutCopyFails == form = "nodes" /\ \E granted \in 0 .. CellBlocks - 1 : Refused(granted)

Next == MutCopyOfCells \/ MutCopyOfNodes \/ MutCopyFails \/ ImutCopy \/ ImutCopyFails

Spec == Init /\ [][Next]_vars

-----------------------------------------------------------------------------
\* The value that the nodes from p stand for, read from the first member on
RECURSIVE NodeValue(_, _)
NodeValue(src, p) ==
    LET node == src[p]
        item(k) == Along(src, node.p, k)
    IN  IF ~ IsContainer(node) THEN Scalar(node.t, node.p)
        ELSE IF node.t = "arr" THEN Arr([k \in 1 .. node.n |-> NodeValue(src, item(k))])
        ELSE Obj([k \in 1 .. node.n |->
                     [k |-> src[item(2 * k)].p, v |-> NodeValue(src, item(2 * k + 1))]])

\* However often a document is copied, from cells to nodes, among nodes and back, it
\* stands for the value it was parsed from, every ring closes behind its last member,
\* and no node is in two rings.  About yyjson_val_mut_copy, which must reconnect what
\* the offsets of the cells describe, unsafe_yyjson_mut_val_mut_copy, whose traversal
\* starts at the last member, and yyjson_imut_copy, which starts at the first.
SameValue ==
    IF form = "cells" THEN mem = Flat(value)
    ELSE LET ring(p) == [k \in 1 .. Linked(mem, p) |-> Along(mem, mem[p].p, k)]
             used == {p \in DOMAIN mem : IsContainer(mem[p])}
         IN  /\ NodeValue(mem, 1) = value
             /\ \A p \in used : mem[p].n > 0 => Last(ring(p)) = mem[p].p
             /\ \A p, q \in used : p # q => ToSet(ring(p)) \cap ToSet(ring(q)) = {}

\* yyjson_mut_stat counts exactly the values and the bytes that yyjson_imut_copy then
\* writes into the two blocks sized by it: nothing is written behind them.
CountedIsWritten == counted.need = counted.used

\* The live blocks are those of the document at hand: a copy that fails midway in
\* yyjson_doc_mut_copy, yyjson_mut_doc_mut_copy or yyjson_mut_val_imut_copy frees what
\* it had made, and a copy has the blocks of its form, no more.
NoBlockLost == blocks = IF form = "cells" THEN CellBlocks ELSE NodeBlocks
=============================================================================
