-------------------------- MODULE ContainerProofs --------------------------
(***************************************************************************)
(* queue_t implements a bounded sequence, for every capacity; the ring of  *)
(* a mutable array implements the list of its values, and the ring of a    *)
(* mutable object the sequence of its members, for every number of nodes.  *)
(***************************************************************************)
EXTENDS MCContainers, SequenceTheorems, FiniteSetTheorems, WellFoundedInduction, TLAPS

Element == Elem \cup {NoElem}

-----------------------------------------------------------------------------
(***************************************************************************)
(* Induction on an interval, from the library's well-founded order         *)
(***************************************************************************)

\* A set of natural numbers has a least element.
LEMMA LeastExists ==
    ASSUME NEW S, S \subseteq Nat, S # {}
    PROVE  \E x \in S : \A y \in S : x <= y
<1> DEFINE Less == {ss \in Nat \X Nat : ss[1] < ss[2]}
<1>1. IsWellFoundedOn(Less, Nat)
  BY NatLessThanWellFounded DEF OpToRel
<1> HIDE DEF Less
<1>2. PICK x \in S : \A y \in S : ~(<<y, x>> \in Less)
  BY <1>1, WFMin, Zenon
<1>3. ASSUME NEW y \in S PROVE x <= y
  <2>1. x \in Nat /\ y \in Nat /\ <<y, x>> \notin Less
    BY <1>2
  <2>2. ~(y < x)
    BY <2>1 DEF Less
  <2> QED
    BY <2>1, <2>2
<1> QED
  BY <1>3

Alike(f, g, a, b) == \A i \in a .. b : f[i] = g[i]
GoOnAlike(f, g, a, b) == \A i \in a + 1 .. b : f[i - 1] = g[i - 1] => f[i] = g[i]

\* Two functions on an interval that begin alike and go on alike are alike: what the
\* recursive functions of the models are compared with.
LEMMA AgreeOn ==
    ASSUME NEW a \in Nat, NEW b \in Nat, NEW f, NEW g, f[a] = g[a], GoOnAlike(f, g, a, b)
    PROVE  Alike(f, g, a, b)
<1> DEFINE Differ == {i \in a .. b : f[i] # g[i]}
<1>1. SUFFICES ASSUME Differ # {} PROVE FALSE
  BY DEF Alike
<1>2. PICK i \in Differ : \A j \in Differ : i <= j
  <2>1. Differ \subseteq Nat
    OBVIOUS
  <2> HIDE DEF Differ
  <2> QED
    BY <1>1, <2>1, LeastExists
<1>3. i \in a .. b /\ f[i] # g[i]
  BY <1>2
<1>4. i # a
  BY <1>3
<1>5. i \in a + 1 .. b /\ i - 1 \in a .. b /\ ~(i <= i - 1)
  BY <1>3, <1>4
<1>6. f[i - 1] = g[i - 1]
  BY <1>2, <1>5
<1> QED
  BY <1>3, <1>5, <1>6 DEF GoOnAlike

-----------------------------------------------------------------------------
(***************************************************************************)
(* Slots: the remainder is only ever taken of less than twice the capacity *)
(***************************************************************************)

\* The remainder of less than twice the divisor is a subtraction or nothing.
LEMMA Wrap ==
    ASSUME NEW n \in Nat \ {0}, NEW x \in 0 .. 2 * n - 1
    PROVE  x % n = (IF x < n THEN x ELSE x - n)
<1>1. CASE x < n
  <2>1. x \in 0 .. n - 1
    BY <1>1
  <2>2. x % n = x
    BY <2>1
  <2> QED
    BY <1>1, <2>2
<1>2. CASE ~(x < n)
  <2>1. x \in n .. 2 * n - 1
    BY <1>2
  <2>2. x % n = x - n
    BY <2>1
  <2> QED
    BY <1>2, <2>2
<1> QED
  BY <1>1, <1>2

\* Two offsets from one head that wrap to the same slot are the same.
LEMMA SameWrap ==
    ASSUME NEW n \in Nat \ {0}, NEW h \in 0 .. n - 1,
           NEW i \in 0 .. n - 1, NEW j \in 0 .. n - 1,
           (IF h + i < n THEN h + i ELSE h + i - n) = (IF h + j < n THEN h + j ELSE h + j - n)
    PROVE  i = j
<1>1. h \in Int /\ i \in Int /\ j \in Int /\ n \in Int
  OBVIOUS
<1>2. CASE h + i < n /\ h + j < n
  BY <1>1, <1>2
<1>3. CASE h + i < n /\ ~(h + j < n)
  BY <1>1, <1>3
<1>4. CASE ~(h + i < n) /\ h + j < n
  BY <1>1, <1>4
<1>5. CASE ~(h + i < n) /\ ~(h + j < n)
  BY <1>1, <1>5
<1> QED
  BY <1>2, <1>3, <1>4, <1>5

\* SlotAt without its remainder
LEMMA SlotAtValue ==
    ASSUME QueueInv, NEW i \in 0 .. CAPACITY
    PROVE  /\ SlotAt(i) = (IF head + i < CAPACITY THEN head + i ELSE head + i - CAPACITY)
           /\ SlotAt(i) \in Slots
<1>1. head \in 0 .. CAPACITY - 1 /\ CAPACITY \in Nat \ {0}
  BY CapacityAssumption DEF QueueInv, Slots
<1>2. head + i \in 0 .. 2 * CAPACITY - 1
  BY <1>1
<1>3. SlotAt(i) = (IF head + i < CAPACITY THEN head + i ELSE head + i - CAPACITY)
  <2> DEFINE x == head + i
  <2>1. x % CAPACITY = (IF x < CAPACITY THEN x ELSE x - CAPACITY)
    <3> HIDE DEF x
    <3> QED
      BY <1>1, <1>2, Wrap DEF x
  <2> QED
    BY <1>1, <1>2, <2>1 DEF SlotAt
<1> QED
  BY <1>1, <1>2, <1>3 DEF Slots

\* Two elements of the queue never share a slot.
LEMMA SlotAtInjective ==
    ASSUME QueueInv, NEW i \in 0 .. CAPACITY - 1, NEW j \in 0 .. CAPACITY - 1,
           SlotAt(i) = SlotAt(j)
    PROVE  i = j
<1>1. head \in 0 .. CAPACITY - 1 /\ CAPACITY \in Nat \ {0}
  BY CapacityAssumption DEF QueueInv, Slots
<1>2. i \in 0 .. CAPACITY /\ j \in 0 .. CAPACITY
  BY <1>1
<1>3. /\ SlotAt(i) = (IF head + i < CAPACITY THEN head + i ELSE head + i - CAPACITY)
      /\ SlotAt(j) = (IF head + j < CAPACITY THEN head + j ELSE head + j - CAPACITY)
  BY <1>2, SlotAtValue
<1>4. (IF head + i < CAPACITY THEN head + i ELSE head + i - CAPACITY)
      = (IF head + j < CAPACITY THEN head + j ELSE head + j - CAPACITY)
  BY <1>3
<1> QED
  BY <1>1, <1>4, SameWrap

\* Succ without its remainder
LEMMA SuccValue ==
    ASSUME NEW s \in Slots
    PROVE  Succ(s) = (IF s = CAPACITY - 1 THEN 0 ELSE s + 1) /\ Succ(s) \in Slots
<1>1. CAPACITY \in Nat \ {0} /\ s \in 0 .. CAPACITY - 1
  BY CapacityAssumption DEF Slots
<1>2. s + 1 \in 0 .. 2 * CAPACITY - 1
  BY <1>1
<1>3. Succ(s) = (IF s + 1 < CAPACITY THEN s + 1 ELSE s + 1 - CAPACITY)
  <2> DEFINE x == s + 1
  <2>1. x % CAPACITY = (IF x < CAPACITY THEN x ELSE x - CAPACITY)
    <3> HIDE DEF x
    <3> QED
      BY <1>1, <1>2, Wrap DEF x
  <2> QED
    BY <1>1, <1>2, <2>1 DEF Succ
<1> QED
  BY <1>1, <1>3 DEF Slots

\* Pred without its remainder
LEMMA PredValue ==
    ASSUME NEW s \in Slots
    PROVE  Pred(s) = (IF s = 0 THEN CAPACITY - 1 ELSE s - 1) /\ Pred(s) \in Slots
<1>1. CAPACITY \in Nat \ {0} /\ s \in 0 .. CAPACITY - 1
  BY CapacityAssumption DEF Slots
<1>2. s + CAPACITY - 1 \in 0 .. 2 * CAPACITY - 1
  BY <1>1
<1>3. Pred(s) = (IF s + CAPACITY - 1 < CAPACITY THEN s + CAPACITY - 1
                 ELSE s + CAPACITY - 1 - CAPACITY)
  <2> DEFINE x == s + CAPACITY - 1
  <2>1. x % CAPACITY = (IF x < CAPACITY THEN x ELSE x - CAPACITY)
    <3> HIDE DEF x
    <3> QED
      BY <1>1, <1>2, Wrap DEF x
  <2> QED
    BY <1>1, <1>2, <2>1 DEF Pred
<1> QED
  BY <1>1, <1>3 DEF Slots

\* The slot of the next element is the next slot.
LEMMA SuccSlot ==
    ASSUME QueueInv, NEW i \in 0 .. CAPACITY - 1
    PROVE  Succ(SlotAt(i)) = SlotAt(i + 1)
<1>1. head \in 0 .. CAPACITY - 1 /\ CAPACITY \in Nat \ {0}
  BY CapacityAssumption DEF QueueInv, Slots
<1>2. i \in 0 .. CAPACITY /\ i + 1 \in 0 .. CAPACITY
  BY <1>1
<1>3. /\ SlotAt(i) = (IF head + i < CAPACITY THEN head + i ELSE head + i - CAPACITY)
      /\ SlotAt(i) \in Slots
      /\ SlotAt(i + 1) = (IF head + i + 1 < CAPACITY THEN head + i + 1
                          ELSE head + i + 1 - CAPACITY)
  BY <1>1, <1>2, SlotAtValue
<1>4. Succ(SlotAt(i)) = (IF SlotAt(i) = CAPACITY - 1 THEN 0 ELSE SlotAt(i) + 1)
  BY <1>3, SuccValue
<1> QED
  BY <1>1, <1>3, <1>4

\* What the contents of a queue are
LEMMA ContentsType ==
    ASSUME QueueInv
    PROVE  /\ Contents \in Seq(Element) /\ Len(Contents) = count /\ count \in Nat
           /\ \A i \in 1 .. count : Contents[i] = data[SlotAt(i - 1)]
<1>1. count \in 0 .. CAPACITY /\ CAPACITY \in Nat /\ data \in [Slots -> Element]
  BY CapacityAssumption DEF QueueInv, Element
<1>2. ASSUME NEW i \in 1 .. count PROVE data[SlotAt(i - 1)] \in Element
  <2>1. i - 1 \in 0 .. CAPACITY
    BY <1>1
  <2> QED
    BY <1>1, <2>1, SlotAtValue
<1> QED
  BY <1>1, <1>2 DEF Contents

-----------------------------------------------------------------------------
(***************************************************************************)
(* Every call keeps the indices consistent and does to the sequence what   *)
(* Fifo says.                                                              *)
(***************************************************************************)

\* What the invariant says of every variable
LEMMA StateType ==
    ASSUME QueueInv
    PROVE  /\ CAPACITY \in Nat \ {0} /\ head \in 0 .. CAPACITY - 1
           /\ tail \in 0 .. CAPACITY - 1 /\ count \in 0 .. CAPACITY
           /\ head \in Slots /\ tail \in Slots /\ tail = SlotAt(count)
           /\ data \in [Slots -> Element] /\ Slots = 0 .. CAPACITY - 1
BY CapacityAssumption DEF QueueInv, Slots, Element

\* A refused call changes nothing.
LEMMA RejectedCall ==
    ASSUME QueueInv, NEW code, Rejected(code)
    PROVE  /\ QueueInv' /\ Contents' = Contents
           /\ out' = [err |-> code, data |-> NoElem]
BY DEF Rejected, QueueInv, Slots, SlotAt, Contents

\* queue_push is the push of Fifo.
LEMMA PushCall ==
    ASSUME QueueInv, NEW x \in Elem, Push(x)
    PROVE  QueueInv' /\ AsFifo!Push(x)
<1>1. CASE count = CAPACITY
  <2>1. Rejected("ERR_QUEUE_FULL")
    BY <1>1 DEF Push
  <2> QED
    BY <1>1, <2>1, RejectedCall, ContentsType DEF AsFifo!Push, AsFifo!Rejected, AsFifo!Fail
<1>2. CASE count # CAPACITY
  <2>1. /\ data' = [data EXCEPT ![tail] = x]
        /\ tail' = Succ(tail)
        /\ count' = count + 1
        /\ out' = [err |-> "ERR_NONE", data |-> NoElem]
        /\ head' = head
    BY <1>2 DEF Push, Ok
  <2>2. count \in 0 .. CAPACITY - 1 /\ x \in Element
    BY <1>2, StateType DEF Element
  <2>3. tail' = SlotAt(count + 1) /\ tail' \in Slots
    BY <2>1, <2>2, StateType, SuccSlot, SuccValue
  <2>4. QueueInv'
    BY <2>1, <2>2, <2>3, StateType DEF QueueInv, SlotAt, Slots, Element
  <2>5. ASSUME NEW i \in 1 .. count PROVE Contents'[i] = Contents[i]
    <3>1. i - 1 \in 0 .. CAPACITY - 1 /\ i - 1 # count /\ i - 1 \in 0 .. CAPACITY
          /\ i \in 1 .. count + 1
      BY <2>2, StateType
    <3>2. SlotAt(i - 1) # tail /\ SlotAt(i - 1) \in Slots
      BY <2>2, <3>1, StateType, SlotAtInjective, SlotAtValue
    <3>3. data'[SlotAt(i - 1)] = data[SlotAt(i - 1)]
      BY <2>1, <3>2, StateType
    <3>4. Contents'[i] = data'[SlotAt(i - 1)]
      BY <2>1, <3>1 DEF Contents, SlotAt
    <3> QED
      BY <3>3, <3>4, ContentsType
  <2>6. Contents'[count + 1] = x
    <3>1. count + 1 \in 1 .. count + 1 /\ (count + 1) - 1 = count
      BY <2>2, StateType
    <3>2. Contents'[count + 1] = data'[SlotAt(count)]
      BY <2>1, <3>1 DEF Contents, SlotAt
    <3> QED
      BY <2>1, <3>2, StateType
  <2>7. Contents' = Append(Contents, x)
    <3>1. Contents' \in Seq(Element) /\ Len(Contents') = count + 1
      <4>2. DOMAIN Contents' = 1 .. count + 1
        BY <2>1 DEF Contents
      <4>3. \A i \in 1 .. count + 1 : Contents'[i] \in Element
        <5>1. \A i \in 1 .. count + 1 : i \in 1 .. count \/ i = count + 1
          BY <2>2, StateType
        <5>2. \A i \in 1 .. count : Contents[i] \in Element
          BY ContentsType
        <5> QED
          BY <2>2, <2>5, <2>6, <5>1, <5>2
      <4> QED
        BY <2>1, <2>2, <4>2, <4>3, StateType DEF Contents
    <3>2. /\ Append(Contents, x) \in Seq(Element) /\ Len(Append(Contents, x)) = count + 1
          /\ \A i \in 1 .. count : Append(Contents, x)[i] = Contents[i]
          /\ Append(Contents, x)[count + 1] = x
      BY <2>2, ContentsType
    <3>3. \A i \in 1 .. count + 1 : i \in 1 .. count \/ i = count + 1
      BY <2>2, StateType
    <3> QED
      BY <2>5, <2>6, <3>1, <3>2, <3>3, SeqEqual
  <2> QED
    BY <1>2, <2>1, <2>4, <2>7, ContentsType DEF AsFifo!Push, AsFifo!Ok
<1> QED
  BY <1>1, <1>2

\* The contents of the queue after a call are a given sequence.
LEMMA ContentsAfter ==
    ASSUME NEW s \in Seq(Element), count' = Len(s),
           \A i \in 1 .. Len(s) : data'[SlotAt(i - 1)'] = s[i]
    PROVE  Contents' = s
<1>1. /\ s = [i \in 1 .. Len(s) |-> s[i]]
      /\ Contents' = [i \in 1 .. Len(s) |-> data'[SlotAt(i - 1)']]
  BY DEF Contents
<1> QED
  BY <1>1

\* queue_pop is the pop of Fifo.
LEMMA PopCall ==
    ASSUME QueueInv, Pop
    PROVE  QueueInv' /\ AsFifo!Pop
<1>1. CASE count = 0
  <2>1. Rejected("ERR_QUEUE_EMPTY")
    BY <1>1 DEF Pop
  <2>2. Contents = << >>
    BY <1>1, ContentsType
  <2> QED
    BY <2>1, <2>2, RejectedCall DEF AsFifo!Pop, AsFifo!Rejected, AsFifo!Fail
<1>2. CASE count # 0
  <2>1. /\ out' = Ok(data[head])
        /\ head' = Succ(head)
        /\ count' = count - 1
        /\ data' = data /\ tail' = tail
    BY <1>2 DEF Pop
  <2>2. count \in 1 .. CAPACITY /\ Contents # << >>
    BY <1>2, StateType, ContentsType
  <2>3. head' \in Slots
        /\ head' = (IF head = CAPACITY - 1 THEN 0 ELSE head + 1)
    BY <2>1, StateType, SuccValue
  <2>4. ASSUME NEW i \in 0 .. CAPACITY - 1 PROVE SlotAt(i)' = SlotAt(i + 1)
    <3> DEFINE x == head' + i
    <3>1. x \in 0 .. 2 * CAPACITY - 1 /\ i + 1 \in 0 .. CAPACITY
      BY <2>3, StateType
    <3>2. x % CAPACITY = (IF x < CAPACITY THEN x ELSE x - CAPACITY)
      <4> HIDE DEF x
      <4> QED
        BY <3>1, StateType, Wrap
    <3>3. SlotAt(i)' = x % CAPACITY
      BY DEF SlotAt
    <3>4. SlotAt(i + 1) = (IF head + (i + 1) < CAPACITY THEN head + (i + 1)
                           ELSE head + (i + 1) - CAPACITY)
      BY <3>1, SlotAtValue
    <3>5. x = (IF head = CAPACITY - 1 THEN i ELSE head + 1 + i)
      BY <2>3, StateType
    <3>6. (IF x < CAPACITY THEN x ELSE x - CAPACITY)
          = (IF head + (i + 1) < CAPACITY THEN head + (i + 1)
             ELSE head + (i + 1) - CAPACITY)
      <4> HIDE DEF x
      <4>1. i \in Int /\ head \in Int /\ CAPACITY \in Int /\ i < CAPACITY /\ i >= 0
        BY StateType
      <4>2. CASE head = CAPACITY - 1
        BY <3>5, <4>1, <4>2
      <4>3. CASE head # CAPACITY - 1
        BY <3>5, <4>1, <4>3
      <4> QED
        BY <4>2, <4>3
    <3> QED
      BY <3>2, <3>3, <3>4, <3>6
  <2>5. QueueInv'
    <3>1. PICK c \in 0 .. CAPACITY - 1 : c = count - 1
      BY <2>2, StateType
    <3>2. SlotAt(c)' = tail
      <4>1. c + 1 = count
        BY <3>1, StateType
      <4> QED
        BY <2>4, <4>1, StateType
    <3>3. tail' = SlotAt(count)'
      BY <2>1, <3>1, <3>2 DEF SlotAt
    <3>4. c \in 0 .. CAPACITY
      BY StateType
    <3> QED
      BY <2>1, <2>3, <3>1, <3>3, <3>4, StateType DEF QueueInv, Slots, Element
  <2>6. Contents' = Tail(Contents)
    <3>1. Tail(Contents) \in Seq(Element) /\ Len(Tail(Contents)) = count - 1
          /\ \A i \in 1 .. count - 1 : Tail(Contents)[i] = Contents[i + 1]
      BY <2>2, ContentsType
    <3>2. ASSUME NEW i \in 1 .. count - 1 PROVE data'[SlotAt(i - 1)'] = Tail(Contents)[i]
      <4>1. i - 1 \in 0 .. CAPACITY - 1 /\ (i - 1) + 1 = i
            /\ i + 1 \in 1 .. count /\ (i + 1) - 1 = i
        BY <2>2, StateType
      <4>2. SlotAt(i - 1)' = SlotAt(i)
        BY <2>4, <4>1
      <4>3. Contents[i + 1] = data[SlotAt(i)]
        BY <4>1, ContentsType
      <4> QED
        BY <2>1, <3>1, <4>2, <4>3
    <3> QED
      BY <2>1, <3>1, <3>2, ContentsAfter
  <2>7. data[head] = Head(Contents)
    <3>1. 1 \in 1 .. count /\ 1 - 1 = 0 /\ 0 \in 0 .. CAPACITY /\ head + 0 = head
      BY <2>2, StateType
    <3>2. SlotAt(0) = head
      BY <3>1, SlotAtValue, StateType
    <3> QED
      BY <2>2, <3>1, <3>2, ContentsType
  <2> QED
    BY <2>1, <2>2, <2>5, <2>6, <2>7 DEF AsFifo!Pop, AsFifo!Ok, Ok
<1> QED
  BY <1>1, <1>2

\* queue_peek_logical is that of Fifo.
LEMMA PeekCall ==
    ASSUME QueueInv, NEW index \in 0 .. CAPACITY, PeekLogical(index)
    PROVE  QueueInv' /\ AsFifo!PeekLogical(index)
<1>1. CASE index >= count
  <2>1. Rejected("ERR_QUEUE_INVALID_INDEX")
    BY <1>1 DEF PeekLogical
  <2> QED
    BY <1>1, <2>1, RejectedCall, ContentsType
    DEF AsFifo!PeekLogical, AsFifo!Rejected, AsFifo!Fail
<1>2. CASE ~(index >= count)
  <2>1. out' = Ok(data[SlotAt(index)]) /\ UNCHANGED <<data, head, tail, count>>
    BY <1>2 DEF PeekLogical
  <2>2. QueueInv' /\ Contents' = Contents
    BY <2>1 DEF QueueInv, Contents, SlotAt, Slots
  <2>3. index + 1 \in 1 .. count /\ (index + 1) - 1 = index
    BY <1>2, StateType
  <2>4. Contents[index + 1] = data[SlotAt(index)]
    BY <2>3, ContentsType
  <2> QED
    BY <1>2, <2>1, <2>2, <2>4, ContentsType DEF AsFifo!PeekLogical, AsFifo!Ok, Ok
<1> QED
  BY <1>1, <1>2

\* queue_update_logical is that of Fifo.
LEMMA UpdateCall ==
    ASSUME QueueInv, NEW index \in 0 .. CAPACITY, NEW x \in Elem, UpdateLogical(index, x)
    PROVE  QueueInv' /\ AsFifo!UpdateLogical(index, x)
<1>1. CASE index >= count
  <2>1. Rejected("ERR_QUEUE_INVALID_INDEX")
    BY <1>1 DEF UpdateLogical
  <2> QED
    BY <1>1, <2>1, RejectedCall, ContentsType
    DEF AsFifo!UpdateLogical, AsFifo!Rejected, AsFifo!Fail
<1>2. CASE ~(index >= count)
  <2>1. /\ data' = [data EXCEPT ![SlotAt(index)] = x]
        /\ out' = Ok(NoElem)
        /\ UNCHANGED <<head, tail, count>>
    BY <1>2 DEF UpdateLogical
  <2>2. /\ index + 1 \in 1 .. count /\ (index + 1) - 1 = index
        /\ index \in 0 .. CAPACITY - 1 /\ x \in Element
    BY <1>2, StateType DEF Element
  <2>3. QueueInv'
    BY <2>1, <2>2, StateType DEF QueueInv, SlotAt, Slots, Element
  <2> DEFINE s == [Contents EXCEPT ![index + 1] = x]
  <2>4. s \in Seq(Element) /\ Len(s) = count
        /\ \A i \in 1 .. count : s[i] = IF i = index + 1 THEN x ELSE Contents[i]
    BY <2>2, ContentsType
  <2>5. ASSUME NEW i \in 1 .. count PROVE data'[SlotAt(i - 1)'] = s[i]
    <3>1. i - 1 \in 0 .. CAPACITY - 1 /\ i - 1 \in 0 .. CAPACITY /\ index \in 0 .. CAPACITY
          /\ (i - 1 = index => i = index + 1)
      BY <2>2, StateType
    <3>2. SlotAt(i - 1)' = SlotAt(i - 1)
      BY <2>1 DEF SlotAt
    <3>3. SlotAt(i - 1) \in Slots /\ SlotAt(index) \in Slots
      BY <3>1, SlotAtValue
    <3>4. CASE i = index + 1
      BY <2>1, <2>2, <2>4, <3>2, <3>3, <3>4, StateType
    <3>5. CASE i # index + 1
      <4>1. SlotAt(i - 1) # SlotAt(index)
        BY <2>2, <3>1, <3>5, SlotAtInjective
      <4>2. data'[SlotAt(i - 1)] = data[SlotAt(i - 1)]
        BY <2>1, <3>3, <4>1, StateType
      <4> QED
        BY <2>4, <3>2, <3>5, <4>2, ContentsType
    <3> QED
      BY <3>4, <3>5
  <2> HIDE DEF s
  <2>6. Contents' = s
    BY <2>1, <2>4, <2>5, ContentsAfter
  <2> QED
    BY <1>2, <2>1, <2>3, <2>6, ContentsType DEF AsFifo!UpdateLogical, AsFifo!Ok, Ok, s
<1> QED
  BY <1>1, <1>2

\* The removal of the element at `index`: the elements behind it move one slot back.
LEMMA PopLogicalCall ==
    ASSUME QueueInv, NEW index \in 0 .. CAPACITY, PopLogical(index)
    PROVE  QueueInv' /\ AsFifo!PopLogical(index)
<1>1. CASE index >= count
  <2>1. Rejected("ERR_QUEUE_INVALID_INDEX")
    BY <1>1 DEF PopLogical
  <2> QED
    BY <1>1, <2>1, RejectedCall, ContentsType
    DEF AsFifo!PopLogical, AsFifo!Rejected, AsFifo!Fail
<1>2. CASE ~(index >= count)
  <2>1. /\ out' = Ok(data[SlotAt(index)])
        /\ data' = ShiftedFrom(index)
        /\ tail' = Pred(tail)
        /\ count' = count - 1
        /\ head' = head
    BY <1>2 DEF PopLogical
  <2>2. /\ index + 1 \in 1 .. count /\ (index + 1) - 1 = index
        /\ count \in 1 .. CAPACITY
    BY <1>2, StateType
  <2>3. /\ data' \in [Slots -> Element]
        /\ \A s \in Slots : data'[s] = IF \E i \in index .. count - 2 : s = SlotAt(i)
                                       THEN data[Succ(s)] ELSE data[s]
    <3>1. \A s \in Slots : Succ(s) \in Slots
      BY SuccValue
    <3> QED
      BY <2>1, <3>1, StateType DEF ShiftedFrom
  <2>4. tail' = SlotAt(count - 1) /\ tail' \in Slots
    <3>1. PICK c \in 0 .. CAPACITY - 1 : c = count - 1
      BY <2>2, StateType
    <3>2. c \in 0 .. CAPACITY /\ c + 1 = count
      BY <3>1, StateType
    <3>3. Succ(SlotAt(c)) = tail /\ SlotAt(c) \in Slots
      BY <3>2, SuccSlot, SlotAtValue, StateType
    <3>4. tail = (IF SlotAt(c) = CAPACITY - 1 THEN 0 ELSE SlotAt(c) + 1)
      BY <3>3, SuccValue
    <3>5. tail' = (IF tail = 0 THEN CAPACITY - 1 ELSE tail - 1) /\ tail' \in Slots
      BY <2>1, StateType, PredValue
    <3>6. SlotAt(c) \in 0 .. CAPACITY - 1
      BY <3>3 DEF Slots
    <3>7. tail' = SlotAt(c)
      BY <3>4, <3>5, <3>6, StateType
    <3> QED
      BY <3>1, <3>5, <3>7
  <2>5. QueueInv'
    <3>1. PICK c \in 0 .. CAPACITY : c = count - 1
      BY <2>2, StateType
    <3>2. tail' = SlotAt(count)'
      BY <2>1, <2>4, <3>1 DEF SlotAt
    <3> QED
      BY <2>1, <2>3, <2>4, <3>1, <3>2, StateType DEF QueueInv, Slots, Element
  <2> DEFINE s == [i \in 1 .. Len(Contents) - 1 |->
                      IF i <= index THEN Contents[i] ELSE Contents[i + 1]]
  <2>6. s \in Seq(Element) /\ Len(s) = count - 1
        /\ \A i \in 1 .. count - 1 : s[i] = IF i <= index THEN Contents[i] ELSE Contents[i + 1]
    <3>1. \A i \in 1 .. count - 1 : i \in 1 .. count /\ i + 1 \in 1 .. count
      BY <2>2, StateType
    <3>2. \A i \in 1 .. count : Contents[i] \in Element
      BY ContentsType
    <3>3. Len(Contents) - 1 = count - 1 /\ count - 1 \in Nat
      BY <2>2, ContentsType
    <3> QED
      BY <3>1, <3>2, <3>3
  <2>7. ASSUME NEW i \in 1 .. count - 1 PROVE data'[SlotAt(i - 1)'] = s[i]
    <3>1. PICK k \in 0 .. CAPACITY - 1 : k = i - 1 /\ k + 1 = i /\ k <= count - 2
      BY <2>2, StateType
    <3>2. /\ k \in 0 .. CAPACITY /\ i \in 1 .. count /\ i + 1 \in 1 .. count
          /\ (i + 1) - 1 = i /\ i \in Int
      BY <2>2, <3>1, StateType
    <3>3. SlotAt(i - 1)' = SlotAt(k) /\ SlotAt(k) \in Slots
      BY <2>1, <3>1, <3>2, SlotAtValue DEF SlotAt
    <3>4. CASE i <= index
      <4>1. ASSUME NEW j \in index .. count - 2 PROVE SlotAt(k) # SlotAt(j)
        <5>1. j \in 0 .. CAPACITY - 1 /\ j # k
          BY <2>2, <3>1, <3>2, <3>4, StateType
        <5> QED
          BY <5>1, SlotAtInjective
      <4>2. data'[SlotAt(k)] = data[SlotAt(k)]
        BY <2>3, <3>3, <4>1
      <4>3. Contents[i] = data[SlotAt(k)]
        BY <3>1, <3>2, ContentsType
      <4> QED
        BY <2>6, <3>3, <3>4, <4>2, <4>3
    <3>5. CASE ~(i <= index)
      <4>1. k \in index .. count - 2
        BY <2>2, <3>1, <3>5, StateType
      <4>2. data'[SlotAt(k)] = data[Succ(SlotAt(k))]
        BY <2>3, <3>3, <4>1
      <4>3. Succ(SlotAt(k)) = SlotAt(i)
        BY <3>1, SuccSlot
      <4>4. Contents[i + 1] = data[SlotAt(i)]
        BY <3>2, ContentsType
      <4> QED
        BY <2>6, <3>3, <3>5, <4>2, <4>3, <4>4
    <3> QED
      BY <3>4, <3>5
  <2>8. data[SlotAt(index)] = Contents[index + 1]
    BY <2>2, ContentsType
  <2> HIDE DEF s
  <2>9. Contents' = s
    BY <2>1, <2>6, <2>7, ContentsAfter
  <2> QED
    BY <1>2, <2>1, <2>5, <2>8, <2>9, ContentsType DEF AsFifo!PopLogical, AsFifo!Ok, Ok, s
<1> QED
  BY <1>1, <1>2

\* queue_flush is that of Fifo.
LEMMA FlushCall ==
    ASSUME QueueInv, Flush
    PROVE  QueueInv' /\ AsFifo!Flush
<1>1. /\ head' = 0 /\ tail' = 0 /\ count' = 0
      /\ out' = Ok(NoElem) /\ data' = data
  BY DEF Flush
<1>2. 0 % CAPACITY = 0
  <2>1. 0 \in 0 .. 2 * CAPACITY - 1 /\ 0 < CAPACITY
    BY StateType
  <2> QED
    BY <2>1, StateType, Wrap
<1>3. QueueInv'
  BY <1>1, <1>2, StateType DEF QueueInv, SlotAt, Slots, Element
<1>4. Contents' = << >>
  BY <1>1 DEF Contents
<1> QED
  BY <1>1, <1>3, <1>4 DEF AsFifo!Flush, AsFifo!Ok, Ok

\* A new queue is an empty sequence.
LEMMA InitialQueue == Init => QueueInv /\ AsFifo!Init
<1> SUFFICES ASSUME Init PROVE QueueInv /\ AsFifo!Init
  OBVIOUS
<1>1. CAPACITY \in Nat \ {0} /\ 0 % CAPACITY = 0
  <2>1. 0 \in 0 .. 2 * CAPACITY - 1 /\ 0 < CAPACITY
    BY CapacityAssumption
  <2> QED
    BY <2>1, CapacityAssumption, Wrap
<1>2. QueueInv
  BY <1>1 DEF Init, QueueInv, SlotAt, Slots
<1>3. Contents = << >>
  BY DEF Init, Contents
<1> QED
  BY <1>2, <1>3 DEF Init, AsFifo!Init, AsFifo!Ok, Ok

\* Every call keeps the indices right and is the call of Fifo with its arguments.
LEMMA EveryCall == QueueInv /\ [Next]_vars => QueueInv' /\ [AsFifo!Next]_(AsFifo!vars)
<1> SUFFICES ASSUME QueueInv, [Next]_vars
             PROVE  QueueInv' /\ [AsFifo!Next]_(AsFifo!vars)
  OBVIOUS
<1>1. ASSUME NEW x \in Elem, Push(x) PROVE QueueInv' /\ AsFifo!Next
  BY <1>1, PushCall DEF AsFifo!Next
<1>2. CASE Pop
  BY <1>2, PopCall DEF AsFifo!Next
<1>3. ASSUME NEW index \in 0 .. CAPACITY, PeekLogical(index) PROVE QueueInv' /\ AsFifo!Next
  BY <1>3, PeekCall DEF AsFifo!Next
<1>4. ASSUME NEW index \in 0 .. CAPACITY, PopLogical(index) PROVE QueueInv' /\ AsFifo!Next
  BY <1>4, PopLogicalCall DEF AsFifo!Next
<1>5. ASSUME NEW index \in 0 .. CAPACITY, NEW x \in Elem, UpdateLogical(index, x)
      PROVE  QueueInv' /\ AsFifo!Next
  BY <1>5, UpdateCall DEF AsFifo!Next
<1>6. CASE Flush
  BY <1>6, FlushCall DEF AsFifo!Next
<1>7. CASE UNCHANGED vars
  BY <1>7 DEF vars, QueueInv, Slots, SlotAt, Contents, AsFifo!vars
<1> QED
  BY <1>1, <1>2, <1>3, <1>4, <1>5, <1>6, <1>7 DEF Next

-----------------------------------------------------------------------------
\* The indices of a queue of any capacity stay in its array and agree with each
\* other, for every sequence of calls.
THEOREM QueueInvHolds == Spec => []QueueInv
<1>1. Init => QueueInv
  BY InitialQueue
<1>2. QueueInv /\ [Next]_vars => QueueInv'
  BY EveryCall
<1> QED
  BY <1>1, <1>2, PTL DEF Spec

\* queue_t behaves as a bounded sequence, the results of its calls included: what
\* the sequences of the pipeline modules stand for.
THEOREM QueueImplementsFifo == Spec => ImplementsFifo
<1>1. Init => AsFifo!Init
  BY InitialQueue
<1>2. QueueInv /\ [Next]_vars => [AsFifo!Next]_(AsFifo!vars)
  BY EveryCall
<1> QED
  BY <1>1, <1>2, QueueInvHolds, PTL DEF Spec, ImplementsFifo, AsFifo!Spec

-----------------------------------------------------------------------------
(***************************************************************************)
(* The loop of queue_pop_logical                                           *)
(***************************************************************************)

\* What the loop has copied before it reaches logical index j
Copied(index, j) ==
    [s \in Slots |-> IF \E i \in index .. j - 1 : s = SlotAt(i) THEN data[Succ(s)] ELSE data[s]]

\* An iteration copies one element: the one after it has not been overwritten yet.
LEMMA CopiedNext ==
    ASSUME QueueInv, NEW index \in 0 .. count - 1, NEW j \in index + 1 .. count - 1
    PROVE  Copied(index, j)
           = [Copied(index, j - 1) EXCEPT ![SlotAt(j - 1)] = Copied(index, j - 1)[SlotAt(j)]]
<1> DEFINE g == Copied(index, j - 1)
<1>1. /\ count \in 0 .. CAPACITY /\ CAPACITY \in Nat \ {0}
      /\ j \in 0 .. CAPACITY - 1 /\ j - 1 \in 0 .. CAPACITY - 1
      /\ index .. j - 1 = (index .. (j - 1) - 1) \cup {j - 1}
      /\ index .. (j - 1) - 1 \subseteq 0 .. CAPACITY - 1
      /\ (j - 1) + 1 = j
  BY StateType
<1>2. SlotAt(j) \in Slots /\ SlotAt(j - 1) \in Slots
  <2>1. j \in 0 .. CAPACITY /\ j - 1 \in 0 .. CAPACITY
    BY <1>1
  <2> QED
    BY <2>1, SlotAtValue
<1>3. Succ(SlotAt(j - 1)) = SlotAt(j)
  BY <1>1, SuccSlot
<1>4. \A i \in index .. (j - 1) - 1 : SlotAt(j) # SlotAt(i)
  <2> SUFFICES ASSUME NEW i \in index .. (j - 1) - 1, SlotAt(j) = SlotAt(i) PROVE FALSE
    OBVIOUS
  <2>1. i \in 0 .. CAPACITY - 1 /\ i # j
    BY <1>1
  <2> QED
    BY <1>1, <2>1, SlotAtInjective
<1>5. g[SlotAt(j)] = data[SlotAt(j)]
  BY <1>2, <1>4 DEF Copied
<1>6. ASSUME NEW s \in Slots
      PROVE  Copied(index, j)[s] = IF s = SlotAt(j - 1) THEN data[SlotAt(j)] ELSE g[s]
  <2>1. (\E i \in index .. j - 1 : s = SlotAt(i))
        <=> s = SlotAt(j - 1) \/ \E i \in index .. (j - 1) - 1 : s = SlotAt(i)
    BY <1>1
  <2> QED
    BY <1>3, <2>1 DEF Copied
<1>7. g = [s \in Slots |-> g[s]] /\ Copied(index, j) = [s \in Slots |-> Copied(index, j)[s]]
  BY DEF Copied
<1> HIDE DEF g
<1>8. [g EXCEPT ![SlotAt(j - 1)] = g[SlotAt(j)]]
      = [s \in Slots |-> IF s = SlotAt(j - 1) THEN data[SlotAt(j)] ELSE g[s]]
  BY <1>2, <1>5, <1>7
<1> QED
  BY <1>6, <1>7, <1>8 DEF g

\* The loop overwrites the array that it reads, and still each slot gets what the next one
\* held before: for every capacity, wherever the elements wrap around.
LEMMA LoopShifts == QueueInv => ShiftIsLoop
<1> SUFFICES ASSUME QueueInv, NEW index \in 0 .. count - 1
             PROVE  ShiftLoop(index) = ShiftedFrom(index)
  BY DEF ShiftIsLoop
<1> DEFINE D == index .. count - 1
           f == [j \in D |-> Copied(index, j)]
           F(g) == [i \in D |-> IF i = index THEN data
                                ELSE [g[i - 1] EXCEPT ![SlotAt(i - 1)] = g[i - 1][SlotAt(i)]]]
           after == CHOOSE g : g = F(g)
<1>1. count \in Nat /\ index \in Nat /\ count - 1 \in Nat /\ index <= count - 1
  BY StateType
<1>2. ASSUME NEW j \in D
      PROVE  f[j] = IF j = index THEN data
                    ELSE [f[j - 1] EXCEPT ![SlotAt(j - 1)] = f[j - 1][SlotAt(j)]]
  <2>1. CASE j = index
    <3>1. index .. index - 1 = {} /\ data = [s \in Slots |-> data[s]]
      BY <1>1, StateType
    <3>2. Copied(index, index) = data
      BY <3>1 DEF Copied
    <3> QED
      BY <2>1, <3>2
  <2>2. CASE j # index
    <3>1. j \in index + 1 .. count - 1 /\ j - 1 \in D
      BY <1>1, <2>2
    <3>2. f[j] = Copied(index, j) /\ f[j - 1] = Copied(index, j - 1)
      BY <3>1
    <3> HIDE DEF f
    <3> QED
      BY <2>2, <3>1, <3>2, CopiedNext
  <2> QED
    BY <2>1, <2>2
<1>3. f = F(f)
  BY <1>2, Zenon
<1>4. after = F(after)
  BY <1>3, Zenon
<1>5. ShiftLoop(index) = after[count - 1]
  BY DEF ShiftLoop
<1>6. ASSUME NEW j \in D
      PROVE  after[j] = IF j = index THEN data
                        ELSE [after[j - 1] EXCEPT ![SlotAt(j - 1)] = after[j - 1][SlotAt(j)]]
  <2> HIDE DEF after
  <2> QED
    BY <1>4, Zenon
<1>7. \A j \in D : after[j] = f[j]
  <2>1. after[index] = f[index]
    <3>1. index \in D
      BY <1>1
    <3> HIDE DEF after, f
    <3> QED
      BY <1>2, <1>6, <3>1
  <2>2. ASSUME NEW j \in index + 1 .. count - 1, after[j - 1] = f[j - 1]
        PROVE  after[j] = f[j]
    <3>1. j \in D /\ j # index
      BY <1>1
    <3> HIDE DEF after, f
    <3> QED
      BY <1>2, <1>6, <2>2, <3>1
  <2>3. index \in Nat /\ count - 1 \in Nat
    BY <1>1
  <2> HIDE DEF after, f
  <2>4. GoOnAlike(after, f, index, count - 1)
    BY <2>2 DEF GoOnAlike
  <2>5. Alike(after, f, index, count - 1)
    BY <2>1, <2>3, <2>4, AgreeOn, Zenon
  <2> QED
    BY <2>5 DEF Alike
<1>8. f[count - 1] = ShiftedFrom(index)
  <2>1. count - 1 \in D /\ (count - 1) - 1 = count - 2
    BY <1>1
  <2> QED
    BY <2>1 DEF Copied, ShiftedFrom
<1>9. count - 1 \in D
  BY <1>1
<1> QED
  BY <1>5, <1>7, <1>8, <1>9, Zenon

-----------------------------------------------------------------------------
(***************************************************************************)
(* Rings: the nodes s[1], ..., s[n], each linked to the next and the last  *)
(* one to the first                                                        *)
(***************************************************************************)

\* The place k links behind the last of n: 0 is the last one itself.
Place(n, k) == IF k = 0 THEN n ELSE IF k = n + 1 THEN 1 ELSE k

Closes(s, n, nx) ==
    \A i \in 1 .. n : nx[s[i]] = s[IF i = n THEN 1 ELSE i + 1]

Ring(N, s, n, p, nx) ==
    /\ n \in Nat /\ s \in [1 .. n -> N]
    /\ \A i, j \in 1 .. n : s[i] = s[j] => i = j
    /\ n > 0 => p = s[n]
    /\ Closes(s, n, nx)

Link == [Arr!Nodes -> Arr!Nodes \cup {0}]

\* Walking k links behind the last node of a ring arrives at its place k.
LEMMA NodeAtPlace ==
    ASSUME NEW s, NEW n \in Nat \ {0}, NEW nx, Closes(s, n, nx), NEW k \in 0 .. n + 1
    PROVE  Arr!NodeAt(s[n], nx, k) = s[Place(n, k)]
<1> DEFINE f == [i \in 0 .. k |-> s[Place(n, i)]]
           F(g) == [i \in 0 .. k |-> IF i = 0 THEN s[n] ELSE nx[g[i - 1]]]
           node == CHOOSE g : g = F(g)
<1>1. ASSUME NEW i \in 0 .. k
      PROVE  f[i] = IF i = 0 THEN s[n] ELSE nx[f[i - 1]]
  <2>1. CASE i = 0
    BY <2>1 DEF Place
  <2>2. CASE i = 1
    <3>1. 0 \in 0 .. k /\ f[0] = s[n] /\ f[1] = s[1]
      BY <2>2 DEF Place
    <3>2. nx[s[n]] = s[1]
      BY DEF Closes
    <3> QED
      BY <3>1, <3>2, <2>2
  <2>3. CASE i > 1
    <3>1. i - 1 \in 1 .. n /\ i - 1 \in 0 .. k /\ i # 0
      BY <2>3
    <3>2. f[i - 1] = s[i - 1]
      BY <3>1 DEF Place
    <3>3. nx[s[i - 1]] = s[IF i - 1 = n THEN 1 ELSE i]
      BY <3>1 DEF Closes
    <3>4. f[i] = s[IF i = n + 1 THEN 1 ELSE i]
      BY <2>3 DEF Place
    <3>5. (i - 1 = n) <=> (i = n + 1)
      OBVIOUS
    <3> QED
      BY <3>1, <3>2, <3>3, <3>4, <3>5
  <2> QED
    BY <2>1, <2>2, <2>3
<1>2. f = F(f)
  BY <1>1, Zenon
<1>3. node = F(node)
  BY <1>2, Zenon
<1>4. Arr!NodeAt(s[n], nx, k) = node[k]
  BY DEF Arr!NodeAt
<1>5. ASSUME NEW i \in 0 .. k
      PROVE  node[i] = IF i = 0 THEN s[n] ELSE nx[node[i - 1]]
  <2> HIDE DEF node
  <2> QED
    BY <1>3, Zenon
<1>6. \A i \in 0 .. k : node[i] = f[i]
  <2>1. node[0] = f[0]
    <3>1. 0 \in 0 .. k
      OBVIOUS
    <3> HIDE DEF node, f
    <3> QED
      BY <1>1, <1>5, <3>1
  <2>2. ASSUME NEW i \in 0 + 1 .. k, node[i - 1] = f[i - 1]
        PROVE  node[i] = f[i]
    <3>1. i \in 0 .. k /\ i # 0
      OBVIOUS
    <3> HIDE DEF node, f
    <3> QED
      BY <1>1, <1>5, <2>2, <3>1
  <2>3. 0 \in Nat /\ k \in Nat
    OBVIOUS
  <2> HIDE DEF node, f
  <2>4. GoOnAlike(node, f, 0, k)
    BY <2>2 DEF GoOnAlike
  <2>5. Alike(node, f, 0, k)
    BY <2>1, <2>3, <2>4, AgreeOn, Zenon
  <2> QED
    BY <2>5 DEF Alike
<1> QED
  BY <1>4, <1>6 DEF Place

\* What the array lists is the ring.
LEMMA ListedRing ==
    ASSUME NEW N, NEW s, NEW n, NEW p, NEW nx, Ring(N, s, n, p, nx)
    PROVE  /\ [i \in 1 .. n |-> Arr!NodeAt(p, nx, i)] = s
           /\ n > 0 => \A k \in 0 .. n + 1 :
                           /\ Arr!NodeAt(p, nx, k) = s[Place(n, k)]
                           /\ Place(n, k) \in 1 .. n
<1>1. ASSUME n > 0, NEW k \in 0 .. n + 1
      PROVE  Arr!NodeAt(p, nx, k) = s[Place(n, k)] /\ Place(n, k) \in 1 .. n
  <2>1. n \in Nat \ {0} /\ p = s[n] /\ Closes(s, n, nx)
    BY <1>1 DEF Ring
  <2>2. Arr!NodeAt(p, nx, k) = s[Place(n, k)]
    BY <2>1, NodeAtPlace
  <2> QED
    BY <2>1, <2>2 DEF Place
<1>2. ASSUME NEW i \in 1 .. n
      PROVE  Arr!NodeAt(p, nx, i) = s[i]
  <2>1. n \in Nat /\ n > 0 /\ i \in 0 .. n + 1 /\ Place(n, i) = i
    BY DEF Ring, Place
  <2> QED
    BY <2>1, <1>1
<1>3. s = [i \in 1 .. n |-> s[i]]
  BY DEF Ring
<1> QED
  BY <1>1, <1>2, <1>3

\* The successor of a place is the next place.
LEMMA NextPlace ==
    ASSUME NEW N, NEW s, NEW n, NEW p, NEW nx, Ring(N, s, n, p, nx), n > 0, NEW k \in 0 .. n
    PROVE  nx[s[Place(n, k)]] = s[Place(n, k + 1)]
<1>1. n \in Nat /\ \A i \in 1 .. n : nx[s[i]] = s[IF i = n THEN 1 ELSE i + 1]
  BY DEF Ring, Closes
<1>2. CASE k = 0
  BY <1>1, <1>2 DEF Place
<1>3. CASE k # 0
  BY <1>1, <1>3 DEF Place
<1> QED
  BY <1>2, <1>3

\* A node of its own is a ring.
LEMMA AloneRing ==
    ASSUME NEW nx \in Link, NEW val \in Arr!Nodes
    PROVE  /\ Ring(Arr!Nodes, [i \in 1 .. 1 |-> val], 1, val, [nx EXCEPT ![val] = val])
           /\ [nx EXCEPT ![val] = val] \in Link
BY DEF Ring, Closes, Link

\* s with val behind its first idx nodes
Inserted(s, n, idx, val) ==
    [i \in 1 .. n + 1 |-> IF i <= idx THEN s[i] ELSE IF i = idx + 1 THEN val ELSE s[i - 1]]

\* Linking a new node behind place idx inserts it there.
LEMMA InsertedLinks ==
    ASSUME NEW N, NEW s, NEW n, NEW p, NEW nx, Ring(N, s, n, p, nx), n > 0,
           NEW val \in N, \A i \in 1 .. n : s[i] # val, NEW idx \in 0 .. n,
           NEW after, after[val] = nx[s[Place(n, idx)]],
           \A i \in 1 .. n : after[s[i]] = IF i = Place(n, idx) THEN val ELSE nx[s[i]]
    PROVE  Ring(N, Inserted(s, n, idx, val), n + 1, IF idx = n THEN val ELSE p, after)
<1> DEFINE prev == s[Place(n, idx)]
           t == Inserted(s, n, idx, val)
<1>1. /\ n \in Nat \ {0} /\ s \in [1 .. n -> N] /\ p = s[n]
      /\ \A i, j \in 1 .. n : s[i] = s[j] => i = j
      /\ nx[s[n]] = s[1] /\ \A i \in 1 .. n - 1 : nx[s[i]] = s[i + 1]
  BY DEF Ring, Closes
<1>2. Place(n, idx) \in 1 .. n /\ prev \in N /\ prev # val
  BY <1>1 DEF Place
<1>4. /\ after[val] = nx[prev]
      /\ \A i \in 1 .. n : after[s[i]] = IF s[i] = prev THEN val ELSE nx[s[i]]
  BY <1>1, <1>2
<1>5. t \in [1 .. n + 1 -> N]
  BY <1>1 DEF Inserted
<1>6. ASSUME NEW i \in 1 .. n + 1, NEW j \in 1 .. n + 1, t[i] = t[j]
      PROVE  i = j
  BY <1>1, <1>6 DEF Inserted
<1>7. (IF idx = n THEN val ELSE p) = t[n + 1]
  BY <1>1 DEF Inserted
<1>8. /\ prev = s[Place(n, idx)]
      /\ \A i \in 1 .. n + 1 : t[i] = IF i <= idx THEN s[i]
                                       ELSE IF i = idx + 1 THEN val ELSE s[i - 1]
  BY DEF Inserted
<1> HIDE DEF t, prev
<1>9. ASSUME NEW i \in 1 .. n + 1
      PROVE  after[t[i]] = t[IF i = n + 1 THEN 1 ELSE i + 1]
  <2>1. CASE i = idx + 1
    <3>1. t[i] = val /\ after[t[i]] = nx[prev]
      BY <1>8, <2>1, <1>4
    <3>2. nx[prev] = s[Place(n, idx + 1)]
      BY <1>8, NextPlace
    <3>3. s[Place(n, idx + 1)] = t[IF i = n + 1 THEN 1 ELSE i + 1]
      <4>1. CASE idx = n
        <5>1. Place(n, idx + 1) = 1 /\ i = n + 1
          BY <1>8, <4>1, <2>1, <1>1 DEF Place
        <5>2. t[1] = s[1]
          BY <1>8, <4>1, <1>1
        <5> QED
          BY <5>1, <5>2
      <4>2. CASE idx < n
        BY <1>8, <4>2, <2>1, <1>1 DEF Place
      <4> QED
        BY <1>1, <4>1, <4>2
    <3> QED
      BY <3>1, <3>2, <3>3
  <2>2. CASE i <= idx
    <3>1. t[i] = s[i] /\ i \in 1 .. n /\ s[i] # val
      BY <1>8, <2>2, <1>1
    <3>2. CASE i = idx
      <4>1. prev = s[i] /\ after[t[i]] = val
        BY <1>8, <3>1, <3>2, <1>1, <1>4 DEF Place
      <4>2. t[i + 1] = val /\ i # n + 1
        BY <1>8, <3>2, <1>1
      <4> QED
        BY <4>1, <4>2
    <3>3. CASE i < idx
      <4>1. prev # s[i] /\ i + 1 <= idx /\ i \in 1 .. n - 1
        BY <1>8, <3>1, <3>3, <1>1, <1>2 DEF Place
      <4>2. after[t[i]] = s[i + 1]
        BY <1>8, <3>1, <4>1, <1>1, <1>4
      <4>3. t[i + 1] = s[i + 1] /\ i # n + 1
        BY <1>8, <4>1, <1>1
      <4> QED
        BY <4>2, <4>3
    <3> QED
      BY <2>2, <3>2, <3>3
  <2>3. CASE i > idx + 1
    <3>1. t[i] = s[i - 1] /\ i - 1 \in 1 .. n /\ i - 1 > idx /\ s[i - 1] # val
      BY <1>8, <2>3, <1>1
    <3>2. CASE i = n + 1
      <4>1. t[1] = IF idx = 0 THEN val ELSE s[1]
        BY <1>8, <1>1
      <4>2. CASE idx = 0
        BY <1>8, <3>1, <3>2, <4>1, <4>2, <1>1, <1>4 DEF Place
      <4>3. CASE idx > 0
        <5>1. prev = s[idx] /\ prev # s[n]
          BY <1>8, <4>3, <3>1, <3>2, <1>1 DEF Place
        <5>2. after[t[i]] = s[1]
          BY <1>8, <5>1, <3>1, <3>2, <1>1, <1>4
        <5> QED
          BY <5>2, <4>1, <4>3, <3>2
      <4> QED
        BY <4>2, <4>3
    <3>3. CASE i < n + 1
      <4>1. Place(n, idx) # i - 1
        BY <3>1, <3>3 DEF Place
      <4>2. prev # s[i - 1]
        BY <1>8, <4>1, <3>1, <1>1, <1>2
      <4>3. after[t[i]] = s[i]
        <5>1. i - 1 \in 1 .. n - 1 /\ (i - 1) + 1 = i
          BY <1>1, <3>1, <3>3
        <5>2. after[s[i - 1]] = nx[s[i - 1]]
          BY <1>4, <3>1, <4>2
        <5>3. nx[s[i - 1]] = s[(i - 1) + 1]
          BY <1>1, <5>1
        <5> QED
          BY <3>1, <5>1, <5>2, <5>3, Zenon
      <4>4. t[i + 1] = s[i] /\ i # n + 1
        BY <1>8, <3>1, <3>3, <1>1
      <4> QED
        BY <4>3, <4>4
    <3> QED
      BY <1>1, <3>2, <3>3
  <2> QED
    BY <2>1, <2>2, <2>3
<1>10. n + 1 \in Nat
  BY <1>1
<1>11. Ring(N, t, n + 1, IF idx = n THEN val ELSE p, after)
  BY <1>5, <1>6, <1>7, <1>9, <1>10 DEF Ring, Closes
<1> QED
  BY <1>11 DEF t

\* The same in an array
LEMMA InsertedRing ==
    ASSUME NEW s, NEW n, NEW p, NEW nx \in Link, Ring(Arr!Nodes, s, n, p, nx), n > 0,
           NEW val \in Arr!Nodes, \A i \in 1 .. n : s[i] # val, NEW idx \in 0 .. n
    PROVE  LET prev == s[Place(n, idx)]
               after == [nx EXCEPT ![prev] = val, ![val] = nx[prev]]
           IN  /\ Ring(Arr!Nodes, Inserted(s, n, idx, val), n + 1, IF idx = n THEN val ELSE p, after)
               /\ after \in Link
<1> DEFINE prev == s[Place(n, idx)]
           after == [nx EXCEPT ![prev] = val, ![val] = nx[prev]]
<1>1. /\ n \in Nat \ {0} /\ s \in [1 .. n -> Arr!Nodes]
      /\ \A i, j \in 1 .. n : s[i] = s[j] => i = j
  BY DEF Ring
<1>2. Place(n, idx) \in 1 .. n /\ prev \in Arr!Nodes /\ prev # val
  BY <1>1 DEF Place
<1>3. nx[prev] \in Arr!Nodes \cup {0}
  BY <1>2 DEF Link
<1>4. /\ after \in Link
      /\ \A x \in Arr!Nodes : after[x] = IF x = val THEN nx[prev]
                                          ELSE IF x = prev THEN val ELSE nx[x]
  BY <1>2, <1>3 DEF Link
<1>5. prev = s[Place(n, idx)]
  OBVIOUS
<1> HIDE DEF after, prev
<1>6. /\ after[val] = nx[s[Place(n, idx)]]
      /\ \A i \in 1 .. n : after[s[i]] = IF i = Place(n, idx) THEN val ELSE nx[s[i]]
  BY <1>1, <1>2, <1>4, <1>5
<1>7. Ring(Arr!Nodes, Inserted(s, n, idx, val), n + 1, IF idx = n THEN val ELSE p, after)
  BY <1>6, InsertedLinks, Zenon
<1> QED
  BY <1>4, <1>7 DEF after, prev

\* s without the k nodes behind its first idx
Cut(s, n, idx, k) == [i \in 1 .. n - k |-> IF i <= idx THEN s[i] ELSE s[i + k]]

\* Linking place idx past the k nodes behind it takes these out.
LEMMA CutLinks ==
    ASSUME NEW N, NEW s, NEW n, NEW p, NEW nx, Ring(N, s, n, p, nx),
           NEW k \in 1 .. n - 1, NEW idx \in 0 .. n - k, NEW after,
           \A i \in 1 .. n : after[s[i]] = IF i = Place(n, idx) THEN s[Place(n, idx + k + 1)]
                                            ELSE nx[s[i]]
    PROVE  Ring(N, Cut(s, n, idx, k), n - k,
                IF idx + k = n THEN s[Place(n, idx)] ELSE p, after)
<1> DEFINE prev == s[Place(n, idx)]
           behind == s[Place(n, idx + k + 1)]
           t == Cut(s, n, idx, k)
<1>1. /\ n \in Nat /\ n > 1 /\ s \in [1 .. n -> N] /\ p = s[n]
      /\ \A i, j \in 1 .. n : s[i] = s[j] => i = j
      /\ nx[s[n]] = s[1] /\ \A i \in 1 .. n - 1 : nx[s[i]] = s[i + 1]
  BY DEF Ring, Closes
<1>2. Place(n, idx) \in 1 .. n /\ Place(n, idx + k + 1) \in 1 .. n
  BY <1>1 DEF Place
<1>3. prev \in N /\ behind \in N
  BY <1>1, <1>2
<1>4. \A i \in 1 .. n : after[s[i]] = IF s[i] = prev THEN behind ELSE nx[s[i]]
  BY <1>1, <1>2
<1>5. t \in [1 .. n - k -> N]
  BY <1>1 DEF Cut
<1>6. ASSUME NEW i \in 1 .. n - k, NEW j \in 1 .. n - k, t[i] = t[j]
      PROVE  i = j
  BY <1>1, <1>6 DEF Cut
<1>7. (IF idx + k = n THEN prev ELSE p) = t[n - k]
  BY <1>1 DEF Cut, Place
<1>8. /\ prev = s[Place(n, idx)] /\ behind = s[Place(n, idx + k + 1)]
      /\ \A i \in 1 .. n - k : t[i] = IF i <= idx THEN s[i] ELSE s[i + k]
  BY DEF Cut
<1> HIDE DEF t, prev, behind
<1>9. ASSUME NEW i \in 1 .. n - k
      PROVE  after[t[i]] = t[IF i = n - k THEN 1 ELSE i + 1]
  <2> DEFINE at == IF i <= idx THEN i ELSE i + k
  <2>1. at \in 1 .. n /\ t[i] = s[at] /\ s[at] \in N
    BY <1>1, <1>8
  <2>2. CASE at = Place(n, idx)
    <3>1. after[t[i]] = behind
      BY <1>4, <1>8, <2>1, <2>2
    <3>2. behind = t[IF i = n - k THEN 1 ELSE i + 1]
      <4>1. CASE idx = 0
        <5>1. i = n - k
          BY <1>1, <2>2, <4>1 DEF Place
        <5>2. t[1] = s[1 + k] /\ Place(n, idx + k + 1) = k + 1
          BY <1>1, <1>8, <4>1 DEF Place
        <5> QED
          BY <1>8, <5>1, <5>2
      <4>2. CASE idx > 0
        <5>1. i = idx
          BY <1>1, <2>2, <4>2 DEF Place
        <5>2. CASE idx = n - k
          <6>1. t[1] = s[1] /\ Place(n, idx + k + 1) = 1
            BY <1>1, <1>8, <4>2, <5>2 DEF Place
          <6> QED
            BY <1>8, <5>1, <5>2, <6>1
        <5>3. CASE idx < n - k
          <6>1. t[i + 1] = s[i + 1 + k] /\ Place(n, idx + k + 1) = idx + k + 1
            BY <1>1, <1>8, <5>1, <5>3 DEF Place
          <6> QED
            BY <1>1, <1>8, <5>1, <5>3, <6>1
        <5> QED
          BY <1>1, <5>2, <5>3
      <4> QED
        BY <1>1, <4>1, <4>2
    <3> QED
      BY <3>1, <3>2
  <2>3. CASE at # Place(n, idx)
    <3>1. prev # s[at]
      BY <1>1, <1>2, <1>8, <2>1, <2>3
    <3>2. after[t[i]] = s[IF at = n THEN 1 ELSE at + 1]
      <4>1. after[s[at]] = nx[s[at]]
        BY <1>4, <2>1, <3>1, Zenon
      <4>2. nx[s[at]] = s[IF at = n THEN 1 ELSE at + 1]
        <5>1. \A j \in 1 .. n : nx[s[j]] = s[IF j = n THEN 1 ELSE j + 1]
          BY Zenon DEF Ring, Closes
        <5> HIDE DEF at
        <5> QED
          BY <2>1, <5>1, Zenon
      <4> QED
        BY <2>1, <4>1, <4>2, Zenon
    <3>3. s[IF at = n THEN 1 ELSE at + 1] = t[IF i = n - k THEN 1 ELSE i + 1]
      <4>1. CASE i <= idx
        <5>1. i < idx
          BY <1>1, <2>3, <4>1 DEF Place
        <5>2. i + 1 \in 1 .. n - k /\ i # n - k /\ at = i /\ at # n
          BY <1>1, <5>1
        <5> QED
          BY <1>8, <5>1, <5>2
      <4>2. CASE i > idx /\ i < n - k
        BY <1>1, <1>8, <4>2
      <4>3. CASE i > idx /\ i = n - k
        <5>1. idx > 0
          BY <1>1, <2>3, <4>3 DEF Place
        <5> QED
          BY <1>1, <1>8, <4>3, <5>1
      <4> QED
        BY <1>1, <4>1, <4>2, <4>3
    <3> QED
      BY <3>2, <3>3
  <2> QED
    BY <2>2, <2>3
<1>10. Ring(N, t, n - k, IF idx + k = n THEN prev ELSE p, after)
  BY <1>1, <1>5, <1>6, <1>7, <1>9 DEF Ring, Closes
<1> QED
  BY <1>10 DEF t, prev

\* The same in an array
LEMMA CutRing ==
    ASSUME NEW s, NEW n, NEW p, NEW nx \in Link, Ring(Arr!Nodes, s, n, p, nx),
           NEW k \in 1 .. n - 1, NEW idx \in 0 .. n - k
    PROVE  LET prev == s[Place(n, idx)]
               after == [nx EXCEPT ![prev] = s[Place(n, idx + k + 1)]]
           IN  /\ Ring(Arr!Nodes, Cut(s, n, idx, k), n - k, IF idx + k = n THEN prev ELSE p, after)
               /\ after \in Link
<1> DEFINE prev == s[Place(n, idx)]
           behind == s[Place(n, idx + k + 1)]
           after == [nx EXCEPT ![prev] = behind]
<1>1. /\ n \in Nat /\ s \in [1 .. n -> Arr!Nodes]
      /\ \A i, j \in 1 .. n : s[i] = s[j] => i = j
  BY DEF Ring
<1>2. Place(n, idx) \in 1 .. n /\ Place(n, idx + k + 1) \in 1 .. n
  BY <1>1 DEF Place
<1>3. prev \in Arr!Nodes /\ behind \in Arr!Nodes
  BY <1>1, <1>2
<1>4. /\ after \in Link
      /\ \A x \in Arr!Nodes : after[x] = IF x = prev THEN behind ELSE nx[x]
  BY <1>3 DEF Link
<1>5. prev = s[Place(n, idx)] /\ behind = s[Place(n, idx + k + 1)]
  OBVIOUS
<1> HIDE DEF after, prev, behind
<1>6. \A i \in 1 .. n : after[s[i]] = IF i = Place(n, idx) THEN s[Place(n, idx + k + 1)]
                                       ELSE nx[s[i]]
  BY <1>1, <1>2, <1>4, <1>5
<1>7. Ring(Arr!Nodes, Cut(s, n, idx, k), n - k,
           IF idx + k = n THEN s[Place(n, idx)] ELSE p, after)
  BY <1>6, CutLinks
<1> QED
  BY <1>4, <1>7 DEF after, prev, behind

\* Linking a new node between the neighbours of place idx + 1 puts it there.
LEMMA ReplacedRing ==
    ASSUME NEW s, NEW n, NEW p, NEW nx \in Link, Ring(Arr!Nodes, s, n, p, nx), n > 1,
           NEW val \in Arr!Nodes, \A i \in 1 .. n : s[i] # val, NEW idx \in 0 .. n - 1
    PROVE  LET prev == s[Place(n, idx)]
               old == s[idx + 1]
               after == [nx EXCEPT ![prev] = val, ![val] = nx[old]]
           IN  /\ Ring(Arr!Nodes, [s EXCEPT ![idx + 1] = val], n, IF old = p THEN val ELSE p, after)
               /\ after \in Link
<1> DEFINE prev == s[Place(n, idx)]
           old == s[idx + 1]
           after == [nx EXCEPT ![prev] = val, ![val] = nx[old]]
           t == [s EXCEPT ![idx + 1] = val]
<1>1. /\ n \in Nat /\ n > 1 /\ s \in [1 .. n -> Arr!Nodes] /\ p = s[n]
      /\ \A i, j \in 1 .. n : s[i] = s[j] => i = j
      /\ nx[s[n]] = s[1] /\ \A i \in 1 .. n - 1 : nx[s[i]] = s[i + 1]
  BY DEF Ring, Closes
<1>2. Place(n, idx) \in 1 .. n /\ Place(n, idx) # idx + 1
  BY <1>1 DEF Place
<1>3. prev \in Arr!Nodes /\ old \in Arr!Nodes /\ prev # val /\ prev # old
  BY <1>1, <1>2
<1>4. nx[old] \in Arr!Nodes \cup {0}
  BY <1>3 DEF Link
<1>5. /\ after \in Link
      /\ \A x \in Arr!Nodes : after[x] = IF x = val THEN nx[old]
                                          ELSE IF x = prev THEN val ELSE nx[x]
  BY <1>3, <1>4 DEF Link
<1>6. t \in [1 .. n -> Arr!Nodes]
  BY <1>1
<1>7. ASSUME NEW i \in 1 .. n, NEW j \in 1 .. n, t[i] = t[j]
      PROVE  i = j
  BY <1>1, <1>7
<1>8. (IF old = p THEN val ELSE p) = t[n]
  BY <1>1
<1>9. /\ prev = s[Place(n, idx)] /\ old = s[idx + 1]
      /\ \A i \in 1 .. n : t[i] = IF i = idx + 1 THEN val ELSE s[i]
  BY <1>1
<1> HIDE DEF t, after, prev, old
<1>10. ASSUME NEW i \in 1 .. n
       PROVE  after[t[i]] = t[IF i = n THEN 1 ELSE i + 1]
  <2> DEFINE next == IF i = n THEN 1 ELSE i + 1
  <2>1. next \in 1 .. n /\ nx[s[i]] = s[next] /\ next # i
    BY <1>1
  <2>2. (next = idx + 1) <=> (i = Place(n, idx))
    BY <1>1 DEF Place
  <2> HIDE DEF next
  <2>3. CASE i = idx + 1
    <3>1. t[i] = val /\ after[t[i]] = s[next]
      BY <1>5, <1>9, <2>1, <2>3
    <3>2. t[next] = s[next]
      BY <1>9, <2>1, <2>3
    <3> QED
      BY <3>1, <3>2 DEF next
  <2>4. CASE i # idx + 1 /\ i = Place(n, idx)
    <3>1. t[i] = prev /\ after[t[i]] = val
      BY <1>3, <1>5, <1>9, <2>4
    <3>2. t[next] = val
      BY <1>9, <2>1, <2>2, <2>4
    <3> QED
      BY <3>1, <3>2 DEF next
  <2>5. CASE i # idx + 1 /\ i # Place(n, idx)
    <3>1. t[i] = s[i] /\ s[i] # prev /\ s[i] # val /\ s[i] \in Arr!Nodes
      BY <1>1, <1>2, <1>9, <2>5
    <3>2. after[t[i]] = s[next]
      BY <1>5, <2>1, <3>1
    <3>3. t[next] = s[next]
      BY <1>9, <2>1, <2>2, <2>5
    <3> QED
      BY <3>2, <3>3 DEF next
  <2> QED
    BY <2>3, <2>4, <2>5
<1>11. Ring(Arr!Nodes, t, n, IF old = p THEN val ELSE p, after)
  BY <1>1, <1>6, <1>7, <1>8, <1>10 DEF Ring, Closes
<1> QED
  BY <1>5, <1>11 DEF t, after, prev, old

\* s from behind place idx on, and round
Turned(s, n, idx) == [i \in 1 .. n |-> IF i <= n - idx THEN s[i + idx] ELSE s[i - (n - idx)]]

\* Another node of the ring as the last one turns it.
LEMMA TurnedRing ==
    ASSUME NEW N, NEW s, NEW n, NEW p, NEW nx, Ring(N, s, n, p, nx), NEW idx \in 0 .. n - 1
    PROVE  Ring(N, Turned(s, n, idx), n, s[Place(n, idx)], nx)
<1> DEFINE t == Turned(s, n, idx)
<1>1. /\ n \in Nat /\ n > 0 /\ s \in [1 .. n -> N] /\ p = s[n]
      /\ \A i, j \in 1 .. n : s[i] = s[j] => i = j
      /\ nx[s[n]] = s[1] /\ \A i \in 1 .. n - 1 : nx[s[i]] = s[i + 1]
  BY DEF Ring, Closes
<1>2. t \in [1 .. n -> N]
  BY <1>1 DEF Turned
<1>3. ASSUME NEW i \in 1 .. n, NEW j \in 1 .. n, t[i] = t[j]
      PROVE  i = j
  BY <1>1, <1>3 DEF Turned
<1>4. s[Place(n, idx)] = t[n]
  BY <1>1 DEF Turned, Place
<1>5. \A i \in 1 .. n : t[i] = IF i <= n - idx THEN s[i + idx] ELSE s[i - (n - idx)]
  BY DEF Turned
<1> HIDE DEF t
<1>6. ASSUME NEW i \in 1 .. n
      PROVE  nx[t[i]] = t[IF i = n THEN 1 ELSE i + 1]
  <2>1. CASE i < n - idx
    <3>1. i + idx \in 1 .. n - 1 /\ i + 1 \in 1 .. n /\ i + 1 <= n - idx /\ i # n
      BY <1>1, <2>1
    <3>2. t[i] = s[i + idx] /\ t[i + 1] = s[(i + idx) + 1]
      BY <1>1, <1>5, <2>1, <3>1
    <3> QED
      BY <1>1, <3>1, <3>2
  <2>2. CASE i = n - idx
    <3>1. t[i] = s[n]
      BY <1>1, <1>5, <2>2
    <3>2. t[IF i = n THEN 1 ELSE i + 1] = s[1]
      BY <1>1, <1>5, <2>2
    <3> QED
      BY <1>1, <3>1, <3>2
  <2>3. CASE i > n - idx
    <3>1. i - (n - idx) \in 1 .. n - 1
      BY <1>1, <2>3
    <3>2. nx[t[i]] = s[i - (n - idx) + 1]
      BY <1>1, <1>5, <2>3, <3>1
    <3>3. CASE i = n
      <4>1. t[1] = s[1 + idx] /\ i - (n - idx) + 1 = 1 + idx
        BY <1>1, <1>5, <3>3
      <4> QED
        BY <3>2, <3>3, <4>1
    <3>4. CASE i < n
      BY <1>1, <1>5, <2>3, <3>2, <3>4
    <3> QED
      BY <1>1, <3>3, <3>4
  <2> QED
    BY <1>1, <2>1, <2>2, <2>3
<1>7. Ring(N, t, n, s[Place(n, idx)], nx)
  BY <1>1, <1>2, <1>3, <1>4, <1>6 DEF Ring, Closes
<1> QED
  BY <1>7 DEF t

-----------------------------------------------------------------------------
(***************************************************************************)
(* What InsertAt, RemoveAt and the concatenations of JsonList return       *)
(***************************************************************************)

\* Two sequences in a row, element by element
LEMMA Joined ==
    ASSUME NEW S, NEW x \in Seq(S), NEW y \in Seq(S)
    PROVE  /\ x \o y \in Seq(S) /\ Len(x \o y) = Len(x) + Len(y)
           /\ x \o y = [i \in 1 .. Len(x) + Len(y) |->
                           IF i <= Len(x) THEN x[i] ELSE y[i - Len(x)]]
<1> DEFINE z == x \o y
<1>1. /\ z \in Seq(S) /\ Len(z) = Len(x) + Len(y)
      /\ \A i \in 1 .. Len(x) + Len(y) : z[i] = IF i <= Len(x) THEN x[i] ELSE y[i - Len(x)]
  BY ConcatProperties, Zenon
<1> HIDE DEF z
<1>2. z = [i \in 1 .. Len(x) + Len(y) |-> z[i]]
  BY <1>1
<1>3. z = [i \in 1 .. Len(x) + Len(y) |-> IF i <= Len(x) THEN x[i] ELSE y[i - Len(x)]]
  BY <1>1, <1>2, Zenon
<1> QED
  BY <1>1, <1>3 DEF z

\* A part of a sequence, element by element
LEMMA Part ==
    ASSUME NEW S, NEW s \in Seq(S), NEW a \in 1 .. Len(s) + 1, NEW b \in 0 .. Len(s)
    PROVE  /\ SubSeq(s, a, b) \in Seq(S)
           /\ Len(SubSeq(s, a, b)) = IF a <= b THEN b - a + 1 ELSE 0
           /\ \A i \in 1 .. b - a + 1 : SubSeq(s, a, b)[i] = s[a + i - 1]
<1>1. a \in Int /\ b \in Int
  OBVIOUS
<1>2. \A i \in a .. b : s[i] \in S
  OBVIOUS
<1> QED
  BY <1>1, <1>2, SubSeqProperties

\* The elements behind the first idx, and the first idx
LEMMA TailPart ==
    ASSUME NEW S, NEW s \in Seq(S), NEW idx \in 0 .. Len(s)
    PROVE  /\ SubSeq(s, idx + 1, Len(s)) \in Seq(S)
           /\ Len(SubSeq(s, idx + 1, Len(s))) = Len(s) - idx
           /\ \A i \in 1 .. Len(s) - idx : SubSeq(s, idx + 1, Len(s))[i] = s[idx + i]
<1> DEFINE n == Len(s)
           y == SubSeq(s, idx + 1, n)
<1>1. idx + 1 \in 1 .. n + 1 /\ n \in 0 .. n /\ n \in Nat
  OBVIOUS
<1>2. /\ y \in Seq(S) /\ Len(y) = IF idx + 1 <= n THEN n - (idx + 1) + 1 ELSE 0
      /\ \A i \in 1 .. n - (idx + 1) + 1 : y[i] = s[idx + 1 + i - 1]
  BY <1>1, Part
<1> HIDE DEF y, n
<1>3. idx \in 0 .. n
  BY DEF n
<1>4. n - (idx + 1) + 1 = n - idx /\ \A i \in 1 .. n - idx : idx + 1 + i - 1 = idx + i
  BY <1>1, <1>3
<1>5. Len(y) = n - idx
  BY <1>1, <1>2, <1>3
<1>6. \A i \in 1 .. n - idx : y[i] = s[idx + i]
  BY <1>2, <1>4, Zenon
<1> QED
  BY <1>2, <1>5, <1>6 DEF y, n

\* The first elements of a sequence
LEMMA HeadPart ==
    ASSUME NEW S, NEW s \in Seq(S), NEW idx \in 0 .. Len(s)
    PROVE  /\ SubSeq(s, 1, idx) \in Seq(S)
           /\ Len(SubSeq(s, 1, idx)) = idx
           /\ \A i \in 1 .. idx : SubSeq(s, 1, idx)[i] = s[i]
<1> DEFINE x == SubSeq(s, 1, idx)
<1>1. 1 \in 1 .. Len(s) + 1 /\ idx \in 0 .. Len(s) /\ idx - 1 + 1 = idx
  OBVIOUS
<1>2. /\ x \in Seq(S) /\ Len(x) = IF 1 <= idx THEN idx - 1 + 1 ELSE 0
      /\ \A i \in 1 .. idx - 1 + 1 : x[i] = s[1 + i - 1]
  BY <1>1, Part
<1> HIDE DEF x
<1>3. x \in Seq(S) /\ Len(x) = idx /\ \A i \in 1 .. idx : x[i] = s[i]
  BY <1>1, <1>2
<1> QED
  BY <1>3 DEF x

\* Removing k elements behind the first idx cuts them out.
LEMMA CutIs ==
    ASSUME NEW S, NEW s \in Seq(S), NEW idx \in 0 .. Len(s), NEW k \in 0 .. Len(s) - idx
    PROVE  SubSeq(s, 1, idx) \o SubSeq(s, idx + k + 1, Len(s)) = Cut(s, Len(s), idx, k)
<1> DEFINE n == Len(s)
           m == idx + k
           x == SubSeq(s, 1, idx)
           y == SubSeq(s, m + 1, n)
<1>1. n \in Nat /\ idx \in 0 .. n /\ k \in 0 .. n - idx /\ m = idx + k /\ m \in 0 .. n
  OBVIOUS
<1>2. x \in Seq(S) /\ Len(x) = idx /\ \A i \in 1 .. idx : x[i] = s[i]
  BY HeadPart, Zenon
<1>3. y \in Seq(S) /\ Len(y) = n - m /\ \A i \in 1 .. n - m : y[i] = s[m + i]
  BY <1>1, TailPart, Zenon
<1> HIDE DEF n, m, x, y
<1>4. x \o y = [i \in 1 .. Len(x) + Len(y) |-> IF i <= Len(x) THEN x[i] ELSE y[i - Len(x)]]
  <2>1. x \in Seq(S) /\ y \in Seq(S)
    BY <1>2, <1>3
  <2> QED
    BY <2>1, Joined, Zenon
<1>5. x \o y = [i \in 1 .. idx + (n - m) |-> IF i <= idx THEN x[i] ELSE y[i - idx]]
  BY <1>2, <1>3, <1>4, Zenon
<1>6. idx + (n - m) = n - k
  BY <1>1
<1>7. ASSUME NEW i \in 1 .. n - k
      PROVE  (IF i <= idx THEN x[i] ELSE y[i - idx]) = IF i <= idx THEN s[i] ELSE s[i + k]
  <2>1. CASE i <= idx
    BY <1>1, <1>2, <2>1
  <2>2. CASE ~(i <= idx)
    <3>1. i - idx \in 1 .. n - m /\ m + (i - idx) = i + k
      BY <1>1, <2>2
    <3>2. y[i - idx] = s[m + (i - idx)]
      BY <1>3, <3>1, Zenon
    <3> QED
      BY <2>2, <3>1, <3>2
  <2> QED
    BY <2>1, <2>2
<1>8. x \o y = Cut(s, n, idx, k)
  BY <1>5, <1>6, <1>7, Zenon DEF Cut
<1> QED
  BY <1>8 DEF n, m, x, y

\* From behind the first idx elements on, and round
LEMMA TurnedIs ==
    ASSUME NEW S, NEW s \in Seq(S), NEW idx \in 0 .. Len(s)
    PROVE  SubSeq(s, idx + 1, Len(s)) \o SubSeq(s, 1, idx) = Turned(s, Len(s), idx)
<1> DEFINE n == Len(s)
           x == SubSeq(s, 1, idx)
           y == SubSeq(s, idx + 1, n)
<1>1. n \in Nat /\ idx \in 0 .. n
  OBVIOUS
<1>2. x \in Seq(S) /\ Len(x) = idx /\ \A i \in 1 .. idx : x[i] = s[i]
  BY HeadPart, Zenon
<1>3. y \in Seq(S) /\ Len(y) = n - idx /\ \A i \in 1 .. n - idx : y[i] = s[idx + i]
  BY TailPart, Zenon
<1> HIDE DEF n, x, y
<1>4. y \o x = [i \in 1 .. Len(y) + Len(x) |-> IF i <= Len(y) THEN y[i] ELSE x[i - Len(y)]]
  <2>1. x \in Seq(S) /\ y \in Seq(S)
    BY <1>2, <1>3
  <2> QED
    BY <2>1, Joined, Zenon
<1>5. y \o x = [i \in 1 .. (n - idx) + idx |-> IF i <= n - idx THEN y[i] ELSE x[i - (n - idx)]]
  BY <1>2, <1>3, <1>4, Zenon
<1>6. (n - idx) + idx = n
  BY <1>1
<1>7. ASSUME NEW i \in 1 .. n
      PROVE  (IF i <= n - idx THEN y[i] ELSE x[i - (n - idx)])
             = IF i <= n - idx THEN s[i + idx] ELSE s[i - (n - idx)]
  <2>1. CASE i <= n - idx
    BY <1>1, <1>3, <2>1
  <2>2. CASE ~(i <= n - idx)
    <3>1. i - (n - idx) \in 1 .. idx
      BY <1>1, <2>2
    <3> QED
      BY <1>2, <2>2, <3>1, Zenon
  <2> QED
    BY <2>1, <2>2
<1>8. y \o x = Turned(s, n, idx)
  BY <1>5, <1>6, <1>7, Zenon DEF Turned
<1> QED
  BY <1>8 DEF n, x, y

\* InsertAt puts an element behind the first idx.
LEMMA InsertedIs ==
    ASSUME NEW S, NEW s \in Seq(S), NEW val \in S, NEW idx \in 0 .. Len(s)
    PROVE  Arr!AsList!Seqs!InsertAt(s, idx + 1, val) = Inserted(s, Len(s), idx, val)
<1> DEFINE n == Len(s)
           x == SubSeq(s, 1, idx)
           y == SubSeq(s, idx + 1, n)
<1>1. n \in Nat /\ idx \in Nat /\ idx <= n
  OBVIOUS
<1>2. x \in Seq(S) /\ Len(x) = idx /\ \A i \in 1 .. idx : x[i] = s[i]
  BY HeadPart, Zenon
<1>3. y \in Seq(S) /\ Len(y) = n - idx /\ \A i \in 1 .. n - idx : y[i] = s[idx + i]
  BY TailPart, Zenon
<1>4. Arr!AsList!Seqs!InsertAt(s, idx + 1, val) = x \o <<val>> \o y
  <2>1. (idx + 1) - 1 = idx
    OBVIOUS
  <2> QED
    BY <2>1, Zenon DEF Arr!AsList!Seqs!InsertAt
<1>5. <<val>> \in Seq(S) /\ Len(<<val>>) = 1 /\ <<val>>[1] = val
  OBVIOUS
<1> HIDE DEF x, y, n
<1>6. /\ x \o <<val>> \in Seq(S) /\ Len(x \o <<val>>) = idx + 1
      /\ \A i \in 1 .. idx + 1 : (x \o <<val>>)[i] = IF i <= idx THEN s[i] ELSE val
  <2> DEFINE v == <<val>>
  <2> HIDE DEF v
  <2>1. v \in Seq(S) /\ Len(v) = 1 /\ v[1] = val
    BY <1>5 DEF v
  <2>2. /\ x \o v \in Seq(S) /\ Len(x \o v) = idx + 1
        /\ \A i \in 1 .. idx + 1 : (x \o v)[i] = IF i <= idx THEN x[i] ELSE v[i - idx]
    <3>1. /\ x \o v \in Seq(S) /\ Len(x \o v) = Len(x) + Len(v)
          /\ x \o v = [i \in 1 .. Len(x) + Len(v) |-> IF i <= Len(x) THEN x[i] ELSE v[i - Len(x)]]
      BY <1>2, <2>1, Joined, Zenon
    <3> DEFINE u == x \o v
    <3>2. /\ u \in Seq(S) /\ Len(u) = idx + 1
          /\ u = [i \in 1 .. idx + 1 |-> IF i <= idx THEN x[i] ELSE v[i - idx]]
      BY <1>2, <2>1, <3>1, Zenon
    <3> HIDE DEF u
    <3>3. \A i \in 1 .. idx + 1 : u[i] = IF i <= idx THEN x[i] ELSE v[i - idx]
      BY <3>2
    <3> QED
      BY <3>2, <3>3 DEF u
  <2>3. \A i \in 1 .. idx + 1 : (x \o v)[i] = IF i <= idx THEN s[i] ELSE val
    BY <1>1, <1>2, <2>1, <2>2
  <2> QED
    BY <2>2, <2>3 DEF v
<1> DEFINE w == x \o <<val>>
<1> HIDE DEF w
<1>7. /\ w \in Seq(S) /\ Len(w) = idx + 1
      /\ \A i \in 1 .. idx + 1 : w[i] = IF i <= idx THEN s[i] ELSE val
  BY <1>6 DEF w
<1> DEFINE z == w \o y
<1>8. z = [i \in 1 .. (idx + 1) + (n - idx) |-> IF i <= idx + 1 THEN w[i] ELSE y[i - (idx + 1)]]
  <2>1. z = [i \in 1 .. Len(w) + Len(y) |-> IF i <= Len(w) THEN w[i] ELSE y[i - Len(w)]]
    <3>1. w \in Seq(S) /\ y \in Seq(S)
      BY <1>3, <1>7
    <3> QED
      BY <3>1, Joined, Zenon
  <2> QED
    BY <1>3, <1>7, <2>1, Zenon
<1> HIDE DEF z
<1>9. (idx + 1) + (n - idx) = n + 1
  BY <1>1 DEF n
<1>10. z = [i \in 1 .. n + 1 |-> z[i]]
  BY <1>8, <1>9
<1>11. ASSUME NEW i \in 1 .. n + 1
       PROVE  z[i] = IF i <= idx THEN s[i] ELSE IF i = idx + 1 THEN val ELSE s[i - 1]
  <2>1. CASE i <= idx + 1
    BY <1>1, <1>7, <1>8, <1>9, <2>1
  <2>2. CASE i > idx + 1
    <3>1. i - (idx + 1) \in 1 .. n - idx /\ idx + (i - (idx + 1)) = i - 1
      BY <1>1, <2>2
    <3>2. z[i] = y[i - (idx + 1)]
      BY <1>1, <1>8, <1>9, <2>2
    <3> QED
      BY <1>1, <1>3, <2>2, <3>1, <3>2
  <2> QED
    BY <1>1, <2>1, <2>2
<1>12. z = Inserted(s, n, idx, val)
  BY <1>10, <1>11, Zenon DEF Inserted
<1> QED
  BY <1>4, <1>12 DEF w, z, n

\* RemoveAt cuts one element out.
LEMMA RemovedIs ==
    ASSUME NEW S, NEW s \in Seq(S), NEW idx \in 0 .. Len(s) - 1
    PROVE  Arr!AsList!Seqs!RemoveAt(s, idx + 1) = Cut(s, Len(s), idx, 1)
<1>1. (idx + 1) - 1 = idx /\ idx \in 0 .. Len(s) /\ 1 \in 0 .. Len(s) - idx
  OBVIOUS
<1>2. SubSeq(s, 1, idx) \o SubSeq(s, idx + 1 + 1, Len(s)) = Cut(s, Len(s), idx, 1)
  BY <1>1, CutIs
<1> QED
  BY <1>1, <1>2, Zenon DEF Arr!AsList!Seqs!RemoveAt

-----------------------------------------------------------------------------
(***************************************************************************)
(* The mutable array: every call makes the ring that JsonList describes    *)
(***************************************************************************)

IterRecord == [on : BOOLEAN, idx : Nat, max : Nat, cur : Arr!Nodes \cup {0},
               pre : Arr!Nodes \cup {0}, fresh : BOOLEAN]

\* The array closes, its iterator stands where it says, and nothing else is linked but
\* nodes: what every call relies on.
ArrayInv ==
    /\ NODES \in Nat
    /\ aNext \in Link
    /\ Ring(Arr!Nodes, Arr!Listed, aLen, aPtr, aNext)
    /\ aIter \in IterRecord
    /\ ArrayIteratorInv

\* What the invariant says of the list
LEMMA ArrayFacts ==
    ASSUME ArrayInv
    PROVE  /\ aLen \in Nat /\ Arr!Listed \in [1 .. aLen -> Arr!Nodes]
           /\ Arr!Listed \in Seq(Arr!Nodes) /\ Len(Arr!Listed) = aLen
           /\ aLen > 0 => /\ aPtr = Arr!Listed[aLen]
                          /\ \A k \in 0 .. aLen + 1 : /\ Arr!Walk(k) = Arr!Listed[Place(aLen, k)]
                                                      /\ Place(aLen, k) \in 1 .. aLen
                                                      /\ Arr!Walk(k) \in Arr!Nodes
<1> DEFINE s == Arr!Listed
<1>1. Ring(Arr!Nodes, s, aLen, aPtr, aNext)
  BY DEF ArrayInv
<1> HIDE DEF s
<1>2. /\ aLen \in Nat /\ s \in [1 .. aLen -> Arr!Nodes]
      /\ aLen > 0 => aPtr = s[aLen]
  BY <1>1 DEF Ring
<1>3. s \in Seq(Arr!Nodes) /\ Len(s) = aLen
  BY <1>2
<1>4. ASSUME aLen > 0, NEW k \in 0 .. aLen + 1
      PROVE  /\ Arr!Walk(k) = s[Place(aLen, k)] /\ Place(aLen, k) \in 1 .. aLen
             /\ Arr!Walk(k) \in Arr!Nodes
  <2>1. /\ Arr!NodeAt(aPtr, aNext, k) = s[Place(aLen, k)] /\ Place(aLen, k) \in 1 .. aLen
    BY <1>1, <1>4, ListedRing
  <2> QED
    BY <1>2, <2>1 DEF Arr!Walk
<1> QED
  BY <1>2, <1>3, <1>4 DEF s

\* A node that the array may be given is none of its own.
LEMMA UnusedNode ==
    ASSUME ArrayInv, NEW val \in Arr!Unused
    PROVE  val \in Arr!Nodes /\ \A i \in 1 .. aLen : Arr!Listed[i] # val
<1>1. aLen \in Nat /\ Arr!Listed \in [1 .. aLen -> Arr!Nodes]
  BY ArrayFacts
<1>2. val \in Arr!Nodes /\ val \notin {Arr!Listed[i] : i \in DOMAIN Arr!Listed}
  BY DEF Arr!Unused, Arr!Range
<1> HIDE DEF Arr!Listed
<1> QED
  BY <1>1, <1>2

\* A ring in the next state is the next state's list.
LEMMA RingAfter ==
    ASSUME NEW s, Ring(Arr!Nodes, s, aLen', aPtr', aNext')
    PROVE  Arr!Listed' = s /\ Ring(Arr!Nodes, Arr!Listed, aLen, aPtr, aNext)'
<1>1. [i \in 1 .. aLen' |-> Arr!NodeAt(aPtr', aNext', i)] = s
  BY ListedRing
<1>2. Arr!Listed' = s
  BY <1>1 DEF Arr!Listed, Arr!Walk
<1> QED
  BY <1>2

\* A call that changes the array ends the iteration.
LEMMA ModifiedCall ==
    ASSUME ArrayInv, NEW s, Ring(Arr!Nodes, s, aLen', aPtr', aNext'), aNext' \in Link, Arr!Modified
    PROVE  ArrayInv' /\ Arr!AsList!Becomes(s) /\ Arr!Listed' = s
<1>1. Arr!Listed' = s /\ Ring(Arr!Nodes, Arr!Listed, aLen, aPtr, aNext)'
  BY RingAfter
<1>2. aIter' = [on |-> FALSE, idx |-> 0, max |-> 0, cur |-> 0, pre |-> 0, fresh |-> FALSE]
  BY DEF Arr!Modified, Arr!NoIter, Arr!NoNode
<1>3. (aIter \in IterRecord)' /\ ArrayIteratorInv'
  BY <1>2 DEF IterRecord, ArrayIteratorInv, Arr!IteratorInv
<1>4. NODES \in Nat
  BY DEF ArrayInv
<1>5. ArrayInv'
  BY <1>1, <1>3, <1>4 DEF ArrayInv
<1>6. Arr!AsList!Becomes(s)
  BY <1>1, <1>2 DEF Arr!AsList!Becomes, Arr!AsList!NoIter
<1> QED
  BY <1>1, <1>5, <1>6

\* A call that leaves the array and its iterator alone
LEMMA UnchangedCall ==
    ASSUME ArrayInv, UNCHANGED <<aLen, aPtr, aNext, aIter>>
    PROVE  /\ ArrayInv' /\ Arr!Listed' = Arr!Listed
           /\ [on |-> aIter.on, pos |-> aIter.idx, fresh |-> aIter.fresh]'
              = [on |-> aIter.on, pos |-> aIter.idx, fresh |-> aIter.fresh]
BY DEF ArrayInv, ArrayIteratorInv, Arr!IteratorInv, Arr!Listed, Arr!Walk, Ring, Closes

\* A refused call changes neither the ring nor the list.
LEMMA RefusedCall ==
    ASSUME ArrayInv, Arr!Refused
    PROVE  ArrayInv' /\ Arr!AsList!Refused
<1>1. UNCHANGED <<aLen, aPtr, aNext, aIter>> /\ aOut' = [ok |-> FALSE, val |-> Arr!NoNode]
  BY DEF Arr!Refused
<1>2. /\ ArrayInv' /\ Arr!Listed' = Arr!Listed
      /\ [on |-> aIter.on, pos |-> aIter.idx, fresh |-> aIter.fresh]'
         = [on |-> aIter.on, pos |-> aIter.idx, fresh |-> aIter.fresh]
  BY <1>1, UnchangedCall
<1> QED
  BY <1>1, <1>2 DEF Arr!AsList!Refused

\* Linking a new node behind place idx is the insertion at idx.
LEMMA InsertStep ==
    ASSUME ArrayInv, NEW val \in Arr!Unused, NEW idx \in 0 .. aLen, aLen' = aLen + 1,
           aLen = 0 => aNext' = [aNext EXCEPT ![val] = val] /\ aPtr' = val,
           aLen > 0 => /\ aNext' = [aNext EXCEPT ![Arr!Walk(idx)] = val,
                                                 ![val] = aNext[Arr!Walk(idx)]]
                       /\ aPtr' = (IF idx = aLen THEN val ELSE aPtr),
           Arr!Done(Arr!NoNode), Arr!Modified
    PROVE  ArrayInv' /\ Arr!AsList!Insert(val, idx)
<1> DEFINE s == Arr!Listed
           t == Inserted(s, aLen, idx, val)
<1>1. /\ aLen \in Nat /\ s \in Seq(Arr!Nodes) /\ Len(s) = aLen
      /\ Ring(Arr!Nodes, s, aLen, aPtr, aNext) /\ aNext \in Link
  BY ArrayFacts DEF ArrayInv
<1>2. val \in Arr!Nodes /\ \A i \in 1 .. aLen : s[i] # val
  BY UnusedNode
<1>3. aLen > 0 => Arr!Walk(idx) = s[Place(aLen, idx)]
  BY <1>1, ArrayFacts
<1>4. Arr!AsList!Seqs!InsertAt(s, idx + 1, val) = t
  BY <1>1, <1>2, InsertedIs
<1> HIDE DEF s
<1>5. Ring(Arr!Nodes, t, aLen', aPtr', aNext') /\ aNext' \in Link
  <2>1. CASE aLen = 0
    <3>1. t = [i \in 1 .. 1 |-> val]
      BY <1>1, <2>1 DEF Inserted
    <3>2. aNext' = [aNext EXCEPT ![val] = val] /\ aPtr' = val /\ aLen' = 1
      BY <2>1
    <3>3. /\ Ring(Arr!Nodes, [i \in 1 .. 1 |-> val], 1, val, [aNext EXCEPT ![val] = val])
          /\ [aNext EXCEPT ![val] = val] \in Link
      BY <1>1, <1>2, AloneRing, Zenon
    <3> HIDE DEF t
    <3> QED
      BY <3>1, <3>2, <3>3, Zenon
  <2>2. CASE aLen > 0
    <3> DEFINE prev == s[Place(aLen, idx)]
    <3>1. /\ aNext' = [aNext EXCEPT ![prev] = val, ![val] = aNext[prev]]
          /\ aPtr' = (IF idx = aLen THEN val ELSE aPtr) /\ aLen' = aLen + 1
      BY <1>3, <2>2
    <3>2. /\ Ring(Arr!Nodes, t, aLen + 1, IF idx = aLen THEN val ELSE aPtr,
                  [aNext EXCEPT ![prev] = val, ![val] = aNext[prev]])
          /\ [aNext EXCEPT ![prev] = val, ![val] = aNext[prev]] \in Link
      BY <1>1, <1>2, <2>2, InsertedRing, Zenon
    <3> HIDE DEF t, prev
    <3> QED
      BY <3>1, <3>2, Zenon
  <2> QED
    BY <1>1, <2>1, <2>2
<1> HIDE DEF t
<1>6. ArrayInv' /\ Arr!AsList!Becomes(t)
  BY <1>5, ModifiedCall
<1>7. Arr!AsList!Done(Arr!NoNode)
  BY DEF Arr!Done, Arr!AsList!Done
<1>8. ~(idx > Len(s))
  BY <1>1
<1> QED
  BY <1>4, <1>6, <1>7, <1>8, Zenon DEF Arr!AsList!Insert, s

\* yyjson_mut_arr_insert is the insertion of JsonList.
LEMMA InsertCall ==
    ASSUME ArrayInv, NEW val \in Arr!Unused, NEW idx \in 0 .. aLen + 1, Arr!Insert(val, idx)
    PROVE  ArrayInv' /\ Arr!AsList!Insert(val, idx)
<1>1. aLen \in Nat /\ Len(Arr!Listed) = aLen
  BY ArrayFacts
<1>2. CASE idx > aLen
  <2>1. ArrayInv' /\ Arr!AsList!Refused
    BY <1>2, RefusedCall DEF Arr!Insert
  <2> QED
    BY <1>1, <1>2, <2>1 DEF Arr!AsList!Insert
<1>3. CASE ~(idx > aLen)
  <2>1. idx \in 0 .. aLen
    BY <1>1, <1>3
  <2>2. /\ aLen' = aLen + 1 /\ Arr!Done(Arr!NoNode) /\ Arr!Modified
        /\ IF aLen = 0 THEN Arr!LinkAlone(val) /\ aPtr' = val
           ELSE Arr!LinkAfter(Arr!Walk(idx), val) /\ aPtr' = (IF idx = aLen THEN val ELSE aPtr)
    BY <1>3 DEF Arr!Insert
  <2>3. aLen = 0 => aNext' = [aNext EXCEPT ![val] = val] /\ aPtr' = val
    BY <2>2 DEF Arr!LinkAlone
  <2>4. aLen > 0 => /\ aNext' = [aNext EXCEPT ![Arr!Walk(idx)] = val,
                                              ![val] = aNext[Arr!Walk(idx)]]
                    /\ aPtr' = (IF idx = aLen THEN val ELSE aPtr)
    BY <1>1, <2>2 DEF Arr!LinkAfter
  <2> QED
    BY <2>1, <2>2, <2>3, <2>4, InsertStep
<1> QED
  BY <1>2, <1>3

\* The last node is at the places 0 and aLen.
LEMMA LastPlace ==
    ASSUME ArrayInv, aLen > 0
    PROVE  Arr!Walk(0) = aPtr /\ Arr!Walk(aLen) = aPtr /\ aPtr \in Arr!Nodes
<1>1. /\ aLen \in Nat /\ aPtr = Arr!Listed[aLen]
      /\ \A k \in 0 .. aLen + 1 : /\ Arr!Walk(k) = Arr!Listed[Place(aLen, k)]
                                  /\ Arr!Walk(k) \in Arr!Nodes
  BY ArrayFacts
<1>2. Place(aLen, 0) = aLen /\ Place(aLen, aLen) = aLen /\ 0 \in 0 .. aLen + 1 /\ aLen \in 0 .. aLen + 1
  BY <1>1 DEF Place
<1> QED
  BY <1>1, <1>2, Zenon

\* yyjson_mut_arr_append links behind the last node, which is the end of the list.
LEMMA AppendCall ==
    ASSUME ArrayInv, NEW val \in Arr!Unused, Arr!Append_(val)
    PROVE  ArrayInv' /\ Arr!AsList!Append_(val)
<1>1. aLen \in Nat /\ Len(Arr!Listed) = aLen /\ aLen \in 0 .. aLen
  BY ArrayFacts
<1>2. /\ aLen' = aLen + 1 /\ Arr!Done(Arr!NoNode) /\ Arr!Modified /\ aPtr' = val
      /\ IF aLen = 0 THEN Arr!LinkAlone(val) ELSE Arr!LinkAfter(aPtr, val)
  BY DEF Arr!Append_
<1>3. aLen = 0 => aNext' = [aNext EXCEPT ![val] = val] /\ aPtr' = val
  BY <1>2 DEF Arr!LinkAlone
<1>4. aLen > 0 => /\ aNext' = [aNext EXCEPT ![Arr!Walk(aLen)] = val,
                                            ![val] = aNext[Arr!Walk(aLen)]]
                  /\ aPtr' = (IF aLen = aLen THEN val ELSE aPtr)
  <2> SUFFICES ASSUME aLen > 0
               PROVE  /\ aNext' = [aNext EXCEPT ![Arr!Walk(aLen)] = val,
                                                ![val] = aNext[Arr!Walk(aLen)]]
                      /\ aPtr' = val
    OBVIOUS
  <2>1. Arr!Walk(aLen) = aPtr /\ aLen # 0
    BY <1>1, LastPlace
  <2> QED
    BY <1>2, <2>1 DEF Arr!LinkAfter
<1>5. ArrayInv' /\ Arr!AsList!Insert(val, aLen)
  BY <1>1, <1>2, <1>3, <1>4, InsertStep
<1> QED
  BY <1>1, <1>5 DEF Arr!AsList!Append_

\* yyjson_mut_arr_prepend links behind the last node too and keeps the last.
LEMMA PrependCall ==
    ASSUME ArrayInv, NEW val \in Arr!Unused, Arr!Prepend(val)
    PROVE  ArrayInv' /\ Arr!AsList!Prepend(val)
<1>1. aLen \in Nat /\ 0 \in 0 .. aLen
  BY ArrayFacts
<1>2. /\ aLen' = aLen + 1 /\ Arr!Done(Arr!NoNode) /\ Arr!Modified
      /\ IF aLen = 0 THEN Arr!LinkAlone(val) /\ aPtr' = val
         ELSE Arr!LinkAfter(aPtr, val) /\ aPtr' = aPtr
  BY DEF Arr!Prepend
<1>3. aLen = 0 => aNext' = [aNext EXCEPT ![val] = val] /\ aPtr' = val
  BY <1>2 DEF Arr!LinkAlone
<1>4. aLen > 0 => /\ aNext' = [aNext EXCEPT ![Arr!Walk(0)] = val,
                                            ![val] = aNext[Arr!Walk(0)]]
                  /\ aPtr' = (IF 0 = aLen THEN val ELSE aPtr)
  <2> SUFFICES ASSUME aLen > 0
               PROVE  /\ aNext' = [aNext EXCEPT ![Arr!Walk(0)] = val,
                                                ![val] = aNext[Arr!Walk(0)]]
                      /\ aPtr' = (IF 0 = aLen THEN val ELSE aPtr)
    OBVIOUS
  <2>1. Arr!Walk(0) = aPtr /\ aLen # 0
    BY <1>1, LastPlace
  <2> QED
    BY <1>2, <2>1 DEF Arr!LinkAfter
<1>5. ArrayInv' /\ Arr!AsList!Insert(val, 0)
  BY <1>1, <1>2, <1>3, <1>4, InsertStep
<1> QED
  BY <1>5 DEF Arr!AsList!Prepend

\* Linking place idx past k nodes, unless these are none or all, cuts them out.
LEMMA CutStep ==
    ASSUME ArrayInv, NEW idx \in 0 .. aLen, NEW k \in 0 .. aLen - idx, aLen' = aLen - k,
           k = 0 \/ k = aLen => UNCHANGED <<aNext, aPtr>>,
           k # 0 /\ k # aLen =>
               /\ aNext' = [aNext EXCEPT ![Arr!Walk(idx)] = Arr!Walk(idx + k + 1)]
               /\ aPtr' = (IF idx + k = aLen THEN Arr!Walk(idx) ELSE aPtr)
    PROVE  /\ Ring(Arr!Nodes, Cut(Arr!Listed, aLen, idx, k), aLen', aPtr', aNext')
           /\ aNext' \in Link
<1> DEFINE s == Arr!Listed
           t == Cut(s, aLen, idx, k)
<1>1. /\ aLen \in Nat /\ s \in [1 .. aLen -> Arr!Nodes]
      /\ Ring(Arr!Nodes, s, aLen, aPtr, aNext) /\ aNext \in Link
  BY ArrayFacts DEF ArrayInv
<1>2. aLen > 0 => \A j \in 0 .. aLen + 1 : Arr!Walk(j) = s[Place(aLen, j)]
  BY ArrayFacts
<1> HIDE DEF s
<1>3. CASE k = 0
  <2>1. t = s
    BY <1>1, <1>3 DEF Cut
  <2>2. aLen' = aLen /\ aPtr' = aPtr /\ aNext' = aNext
    BY <1>1, <1>3
  <2> HIDE DEF t
  <2> QED
    BY <1>1, <2>1, <2>2 DEF t, s
<1>4. CASE k # 0 /\ k = aLen
  <2>1. aLen' = 0 /\ aNext' = aNext
    BY <1>1, <1>4
  <2>2. t \in [1 .. 0 -> Arr!Nodes]
    BY <1>1, <1>4 DEF Cut
  <2> HIDE DEF t
  <2>3. Ring(Arr!Nodes, t, aLen', aPtr', aNext')
    BY <2>1, <2>2 DEF Ring, Closes
  <2> QED
    BY <1>1, <2>1, <2>3 DEF t, s
<1>5. CASE k # 0 /\ k # aLen
  <2> DEFINE prev == s[Place(aLen, idx)]
             behind == s[Place(aLen, idx + k + 1)]
  <2>1. k \in 1 .. aLen - 1 /\ idx \in 0 .. aLen - k
    BY <1>1, <1>5
  <2>2. idx \in 0 .. aLen + 1 /\ idx + k + 1 \in 0 .. aLen + 1 /\ aLen > 0
    BY <1>1, <1>5
  <2>3. Arr!Walk(idx) = prev /\ Arr!Walk(idx + k + 1) = behind
    BY <1>2, <2>2, Zenon
  <2>4. /\ aNext' = [aNext EXCEPT ![prev] = behind]
        /\ aPtr' = (IF idx + k = aLen THEN prev ELSE aPtr)
    BY <1>5, <2>3, Zenon
  <2>5. /\ Ring(Arr!Nodes, t, aLen - k, IF idx + k = aLen THEN prev ELSE aPtr,
                [aNext EXCEPT ![prev] = behind])
        /\ [aNext EXCEPT ![prev] = behind] \in Link
    BY <1>1, <2>1, CutRing, Zenon
  <2> HIDE DEF t, prev, behind
  <2>6. Ring(Arr!Nodes, t, aLen', aPtr', aNext') /\ aNext' \in Link
    BY <2>4, <2>5, Zenon
  <2> QED
    BY <2>6, Zenon DEF t, s
<1> QED
  BY <1>3, <1>4, <1>5

\* Where place idx + 1 is, and what is linked behind it
LEMMA NodeBehind ==
    ASSUME ArrayInv, NEW idx \in 0 .. aLen - 1
    PROVE  /\ aNext[Arr!Walk(idx)] = Arr!Listed[idx + 1]
           /\ aNext[Arr!Listed[idx + 1]] = Arr!Walk(idx + 2)
           /\ Arr!Listed[idx + 1] \in Arr!Nodes
<1> DEFINE s == Arr!Listed
<1>1. /\ aLen \in Nat /\ aLen > 0 /\ s \in [1 .. aLen -> Arr!Nodes]
      /\ Ring(Arr!Nodes, s, aLen, aPtr, aNext)
      /\ \A j \in 0 .. aLen + 1 : Arr!Walk(j) = s[Place(aLen, j)]
  <2>1. aLen \in Nat /\ Ring(Arr!Nodes, s, aLen, aPtr, aNext) /\ s \in [1 .. aLen -> Arr!Nodes]
    BY ArrayFacts DEF ArrayInv
  <2>2. aLen > 0
    BY <2>1
  <2> QED
    BY <2>1, <2>2, ArrayFacts
<1>2. /\ idx \in 0 .. aLen /\ idx + 1 \in 0 .. aLen /\ idx + 1 \in 1 .. aLen
      /\ idx \in 0 .. aLen + 1 /\ idx + 2 \in 0 .. aLen + 1 /\ (idx + 1) + 1 = idx + 2
  BY <1>1
<1> HIDE DEF s
<1>3. \A k \in 0 .. aLen : aNext[s[Place(aLen, k)]] = s[Place(aLen, k + 1)]
  <2>1. Ring(Arr!Nodes, s, aLen, aPtr, aNext) /\ aLen > 0
    BY <1>1
  <2> SUFFICES ASSUME NEW k \in 0 .. aLen
               PROVE  aNext[s[Place(aLen, k)]] = s[Place(aLen, k + 1)]
    OBVIOUS
  <2> QED
    BY <2>1, NextPlace
<1>4. Place(aLen, idx + 1) = idx + 1
  BY <1>1 DEF Place
<1>5. aNext[s[Place(aLen, idx)]] = s[Place(aLen, idx + 1)]
  BY <1>2, <1>3, Zenon
<1>6. aNext[s[Place(aLen, idx + 1)]] = s[Place(aLen, idx + 2)]
  BY <1>2, <1>3, Zenon
<1>7. aNext[Arr!Walk(idx)] = s[idx + 1] /\ aNext[s[idx + 1]] = Arr!Walk(idx + 2)
  BY <1>1, <1>2, <1>4, <1>5, <1>6, Zenon
<1> QED
  BY <1>1, <1>2, <1>7 DEF s

\* yyjson_mut_arr_remove_range cuts the range of JsonList.
LEMMA RemoveRangeCall ==
    ASSUME ArrayInv, NEW idx \in 0 .. aLen + 1, NEW n \in 0 .. aLen + 1, Arr!RemoveRange(idx, n)
    PROVE  ArrayInv' /\ Arr!AsList!RemoveRange(idx, n)
<1>1. aLen \in Nat /\ Len(Arr!Listed) = aLen /\ Arr!Listed \in Seq(Arr!Nodes)
  BY ArrayFacts
<1>2. CASE idx + n > aLen
  <2>1. ArrayInv' /\ Arr!AsList!Refused
    BY <1>2, RefusedCall DEF Arr!RemoveRange
  <2> QED
    BY <1>1, <1>2, <2>1 DEF Arr!AsList!RemoveRange
<1>3. CASE ~(idx + n > aLen)
  <2>1. idx \in 0 .. aLen /\ n \in 0 .. aLen - idx
    BY <1>1, <1>3
  <2>2. /\ aLen' = aLen - n /\ Arr!Done(Arr!NoNode) /\ Arr!Modified
        /\ IF n = 0 \/ aLen = n THEN UNCHANGED <<aNext, aPtr>>
           ELSE /\ aNext' = [aNext EXCEPT ![Arr!Walk(idx)] = Arr!Walk(idx + n + 1)]
                /\ aPtr' = (IF idx + n = aLen THEN Arr!Walk(idx) ELSE aPtr)
    BY <1>3 DEF Arr!RemoveRange
  <2>3. n = 0 \/ n = aLen => UNCHANGED <<aNext, aPtr>>
    BY <2>2
  <2>4. n # 0 /\ n # aLen =>
            /\ aNext' = [aNext EXCEPT ![Arr!Walk(idx)] = Arr!Walk(idx + n + 1)]
            /\ aPtr' = (IF idx + n = aLen THEN Arr!Walk(idx) ELSE aPtr)
    BY <2>2
  <2> DEFINE t == Cut(Arr!Listed, aLen, idx, n)
  <2>5. Ring(Arr!Nodes, t, aLen', aPtr', aNext') /\ aNext' \in Link
    BY <2>1, <2>2, <2>3, <2>4, CutStep
  <2>6. t = SubSeq(Arr!Listed, 1, idx) \o SubSeq(Arr!Listed, idx + n + 1, Len(Arr!Listed))
    BY <1>1, <2>1, CutIs
  <2> HIDE DEF t
  <2>7. ArrayInv' /\ Arr!AsList!Becomes(t)
    BY <2>2, <2>5, ModifiedCall
  <2>8. Arr!AsList!Done(Arr!NoNode)
    BY <2>2 DEF Arr!Done, Arr!AsList!Done
  <2>9. ~(idx + n > Len(Arr!Listed))
    BY <1>1, <1>3
  <2> QED
    BY <2>6, <2>7, <2>8, <2>9, Zenon DEF Arr!AsList!RemoveRange
<1> QED
  BY <1>2, <1>3

\* Cutting one node out is the removal of JsonList.
LEMMA RemoveStep ==
    ASSUME ArrayInv, NEW idx \in 0 .. aLen - 1, aLen' = aLen - 1,
           aLen > 1 => /\ aNext' = [aNext EXCEPT ![Arr!Walk(idx)] = Arr!Walk(idx + 2)]
                       /\ aPtr' = (IF idx + 1 = aLen THEN Arr!Walk(idx) ELSE aPtr),
           aLen = 1 => UNCHANGED <<aNext, aPtr>>,
           Arr!Done(Arr!Listed[idx + 1]), Arr!Modified
    PROVE  ArrayInv' /\ Arr!AsList!Remove(idx)
<1>1. aLen \in Nat /\ Len(Arr!Listed) = aLen /\ Arr!Listed \in Seq(Arr!Nodes)
  BY ArrayFacts
<1>2. idx \in 0 .. aLen /\ 1 \in 0 .. aLen - idx /\ aLen' = aLen - 1 /\ aLen >= 1
  BY <1>1
<1>3. idx + 1 + 1 = idx + 2
  BY <1>1
<1>4. 1 = 0 \/ 1 = aLen => UNCHANGED <<aNext, aPtr>>
  BY <1>1
<1>5. 1 # 0 /\ 1 # aLen =>
          /\ aNext' = [aNext EXCEPT ![Arr!Walk(idx)] = Arr!Walk(idx + 1 + 1)]
          /\ aPtr' = (IF idx + 1 = aLen THEN Arr!Walk(idx) ELSE aPtr)
  <2>1. aLen # 1 => aLen > 1
    BY <1>1, <1>2
  <2> QED
    BY <1>3, <2>1
<1> DEFINE t == Cut(Arr!Listed, aLen, idx, 1)
<1>6. Ring(Arr!Nodes, t, aLen', aPtr', aNext') /\ aNext' \in Link
  BY <1>2, <1>4, <1>5, CutStep
<1>7. Arr!AsList!Seqs!RemoveAt(Arr!Listed, idx + 1) = t
  BY <1>1, RemovedIs
<1> HIDE DEF t
<1>8. ArrayInv' /\ Arr!AsList!Becomes(t)
  BY <1>6, ModifiedCall
<1>9. Arr!AsList!Done(Arr!Listed[idx + 1])
  BY DEF Arr!Done, Arr!AsList!Done
<1>10. ~(idx >= Len(Arr!Listed))
  BY <1>1
<1> QED
  BY <1>7, <1>8, <1>9, <1>10, Zenon DEF Arr!AsList!Remove

\* The last node is the only one at the last place.
LEMMA OnlyLast ==
    ASSUME ArrayInv, NEW idx \in 0 .. aLen - 1
    PROVE  Arr!Listed[idx + 1] = aPtr <=> idx + 1 = aLen
<1> DEFINE s == Arr!Listed
<1>1. Ring(Arr!Nodes, s, aLen, aPtr, aNext)
  BY DEF ArrayInv
<1> HIDE DEF s
<1>2. s[idx + 1] = aPtr <=> idx + 1 = aLen
  BY <1>1 DEF Ring
<1> QED
  BY <1>2 DEF s

\* yyjson_mut_arr_remove cuts the node behind the one it walked to.
LEMMA RemoveCall ==
    ASSUME ArrayInv, NEW idx \in 0 .. aLen, Arr!Remove(idx)
    PROVE  ArrayInv' /\ Arr!AsList!Remove(idx)
<1>1. aLen \in Nat /\ Len(Arr!Listed) = aLen
  BY ArrayFacts
<1>2. CASE idx >= aLen
  <2>1. ArrayInv' /\ Arr!AsList!Refused
    BY <1>2, RefusedCall DEF Arr!Remove
  <2> QED
    BY <1>1, <1>2, <2>1 DEF Arr!AsList!Remove
<1>3. CASE ~(idx >= aLen)
  <2> DEFINE prev == Arr!Walk(idx)
             old == aNext[prev]
  <2>1. idx \in 0 .. aLen - 1 /\ aLen > 0
    BY <1>1, <1>3
  <2>2. /\ aLen' = aLen - 1
        /\ IF aLen > 1 THEN /\ aNext' = [aNext EXCEPT ![prev] = aNext[old]]
                            /\ aPtr' = (IF old = aPtr THEN prev ELSE aPtr)
           ELSE UNCHANGED <<aNext, aPtr>>
        /\ Arr!Done(IF aLen > 1 THEN old ELSE aPtr) /\ Arr!Modified
    BY <1>3 DEF Arr!Remove
  <2>3. old = Arr!Listed[idx + 1] /\ aNext[old] = Arr!Walk(idx + 2)
    BY <2>1, NodeBehind
  <2>4. old = aPtr <=> idx + 1 = aLen
    BY <2>1, <2>3, OnlyLast
  <2> HIDE DEF old, prev
  <2>5. aLen > 1 => /\ aNext' = [aNext EXCEPT ![prev] = Arr!Walk(idx + 2)]
                    /\ aPtr' = (IF idx + 1 = aLen THEN prev ELSE aPtr)
    BY <2>2, <2>3, <2>4
  <2>6. aLen = 1 => UNCHANGED <<aNext, aPtr>>
    BY <1>1, <2>2
  <2>7. (IF aLen > 1 THEN old ELSE aPtr) = Arr!Listed[idx + 1]
    <3>1. ~(aLen > 1) => idx + 1 = aLen
      BY <1>1, <2>1
    <3> QED
      BY <2>3, <2>4, <3>1
  <2>8. Arr!Done(Arr!Listed[idx + 1])
    BY <2>2, <2>7
  <2> QED
    BY <2>1, <2>2, <2>5, <2>6, <2>8, RemoveStep DEF prev
<1> QED
  BY <1>2, <1>3

\* yyjson_mut_arr_remove_first cuts the node behind the last one.
LEMMA RemoveFirstCall ==
    ASSUME ArrayInv, Arr!RemoveFirst
    PROVE  ArrayInv' /\ Arr!AsList!RemoveFirst
<1>1. aLen \in Nat /\ Len(Arr!Listed) = aLen
  BY ArrayFacts
<1>2. CASE aLen = 0
  <2>1. ArrayInv' /\ Arr!AsList!Refused
    BY <1>2, RefusedCall DEF Arr!RemoveFirst
  <2> QED
    BY <1>1, <1>2, <2>1 DEF Arr!AsList!RemoveFirst, Arr!AsList!Remove
<1>3. CASE aLen # 0
  <2>1. 0 \in 0 .. aLen - 1 /\ aLen > 0 /\ 0 + 1 = 1 /\ 0 + 2 = 2
    BY <1>1, <1>3
  <2>2. /\ aLen' = aLen - 1
        /\ IF aLen > 1 THEN aNext' = [aNext EXCEPT ![aPtr] = aNext[aNext[aPtr]]]
           ELSE aNext' = aNext
        /\ Arr!Done(IF aLen > 1 THEN aNext[aPtr] ELSE aPtr)
        /\ Arr!Modified /\ aPtr' = aPtr
    BY <1>3 DEF Arr!RemoveFirst
  <2>3. Arr!Walk(0) = aPtr
    BY <2>1, LastPlace
  <2>4. aNext[Arr!Walk(0)] = Arr!Listed[0 + 1] /\ aNext[Arr!Listed[0 + 1]] = Arr!Walk(0 + 2)
    BY <2>1, NodeBehind, Zenon
  <2>5. aNext[aPtr] = Arr!Listed[1] /\ aNext[aNext[aPtr]] = Arr!Walk(2)
    BY <2>1, <2>3, <2>4, Zenon
  <2>6. Arr!Listed[0 + 1] = aPtr <=> 0 + 1 = aLen
    BY <2>1, OnlyLast, Zenon
  <2>7. aLen > 1 => /\ aNext' = [aNext EXCEPT ![Arr!Walk(0)] = Arr!Walk(0 + 2)]
                    /\ aPtr' = (IF 0 + 1 = aLen THEN Arr!Walk(0) ELSE aPtr)
    <3>1. aLen > 1 => 0 + 1 # aLen
      BY <1>1
    <3> QED
      BY <2>1, <2>2, <2>3, <2>5, <3>1, Zenon
  <2>8. aLen = 1 => UNCHANGED <<aNext, aPtr>>
    BY <2>2
  <2>9. Arr!Done(Arr!Listed[0 + 1])
    <3>1. ~(aLen > 1) => 0 + 1 = aLen
      BY <1>1, <2>1
    <3>2. (IF aLen > 1 THEN aNext[aPtr] ELSE aPtr) = Arr!Listed[0 + 1]
      BY <2>1, <2>5, <2>6, <3>1, Zenon
    <3> QED
      BY <2>2, <3>2, Zenon
  <2>10. ArrayInv' /\ Arr!AsList!Remove(0)
    BY <2>1, <2>2, <2>7, <2>8, <2>9, RemoveStep
  <2> QED
    BY <2>10 DEF Arr!AsList!RemoveFirst
<1> QED
  BY <1>2, <1>3

\* yyjson_mut_arr_remove_last cuts the last one and moves ptr back.
LEMMA RemoveLastCall ==
    ASSUME ArrayInv, Arr!RemoveLast
    PROVE  ArrayInv' /\ Arr!AsList!RemoveLast
<1>1. aLen \in Nat /\ Len(Arr!Listed) = aLen /\ Arr!Listed \in Seq(Arr!Nodes)
  BY ArrayFacts
<1>2. CASE aLen = 0
  <2>1. ArrayInv' /\ Arr!AsList!Refused
    BY <1>2, RefusedCall DEF Arr!RemoveLast
  <2>2. Arr!Listed = << >>
    BY <1>1, <1>2
  <2> QED
    BY <2>1, <2>2, Zenon DEF Arr!AsList!RemoveLast
<1>3. CASE aLen # 0
  <2> DEFINE idx == aLen - 1
  <2>1. idx \in 0 .. aLen - 1 /\ aLen > 0 /\ idx + 1 = aLen /\ idx + 2 = aLen + 1
    BY <1>1, <1>3
  <2>2. /\ aLen' = aLen - 1
        /\ IF aLen > 1 THEN /\ aNext' = [aNext EXCEPT ![Arr!Walk(idx)] = aNext[aPtr]]
                            /\ aPtr' = Arr!Walk(idx)
           ELSE UNCHANGED <<aNext, aPtr>>
        /\ Arr!Done(aPtr) /\ Arr!Modified
    BY <1>3 DEF Arr!RemoveLast
  <2>3. Arr!Listed # << >> /\ Len(Arr!Listed) - 1 = idx
    BY <1>1, <1>3
  <2> HIDE DEF idx
  <2>4. aNext[Arr!Listed[idx + 1]] = Arr!Walk(idx + 2)
    BY <2>1, NodeBehind
  <2>5. Arr!Listed[idx + 1] = aPtr
    BY <2>1, OnlyLast
  <2>6. aLen > 1 => /\ aNext' = [aNext EXCEPT ![Arr!Walk(idx)] = Arr!Walk(idx + 2)]
                    /\ aPtr' = (IF idx + 1 = aLen THEN Arr!Walk(idx) ELSE aPtr)
    BY <2>1, <2>2, <2>4, <2>5, Zenon
  <2>7. aLen = 1 => UNCHANGED <<aNext, aPtr>>
    BY <2>2
  <2>8. Arr!Done(Arr!Listed[idx + 1])
    BY <2>2, <2>5
  <2>9. ArrayInv' /\ Arr!AsList!Remove(idx)
    BY <2>1, <2>2, <2>6, <2>7, <2>8, RemoveStep
  <2> QED
    BY <2>3, <2>9, Zenon DEF Arr!AsList!RemoveLast
<1> QED
  BY <1>2, <1>3

\* yyjson_mut_arr_replace puts the node where the old one was, as the last one too.
LEMMA ReplaceCall ==
    ASSUME ArrayInv, NEW val \in Arr!Unused, NEW idx \in 0 .. aLen + 1, Arr!Replace(idx, val)
    PROVE  ArrayInv' /\ Arr!AsList!Replace(idx, val)
<1> DEFINE s == Arr!Listed
           t == [s EXCEPT ![idx + 1] = val]
<1>1. /\ aLen \in Nat /\ Len(s) = aLen /\ s \in [1 .. aLen -> Arr!Nodes]
      /\ Ring(Arr!Nodes, s, aLen, aPtr, aNext) /\ aNext \in Link
  BY ArrayFacts DEF ArrayInv
<1>2. CASE idx >= aLen
  <2>1. ArrayInv' /\ Arr!AsList!Refused
    BY <1>2, RefusedCall DEF Arr!Replace
  <2> QED
    BY <1>1, <1>2, <2>1 DEF Arr!AsList!Replace
<1>3. CASE ~(idx >= aLen)
  <2> DEFINE prev == Arr!Walk(idx)
             old == aNext[prev]
  <2>1. idx \in 0 .. aLen - 1 /\ aLen > 0 /\ idx \in 0 .. aLen + 1
    BY <1>1, <1>3
  <2>2. /\ IF aLen > 1 THEN /\ aNext' = [aNext EXCEPT ![prev] = val, ![val] = aNext[old]]
                            /\ aPtr' = (IF old = aPtr THEN val ELSE aPtr)
           ELSE Arr!LinkAlone(val) /\ aPtr' = val
        /\ Arr!Done(IF aLen > 1 THEN old ELSE aPtr) /\ Arr!Modified /\ aLen' = aLen
    BY <1>3 DEF Arr!Replace
  <2>3. old = s[idx + 1]
    BY <2>1, NodeBehind
  <2>4. old = aPtr <=> idx + 1 = aLen
    BY <2>1, <2>3, OnlyLast
  <2>5. prev = s[Place(aLen, idx)]
    BY <2>1, ArrayFacts
  <2>6. val \in Arr!Nodes /\ \A i \in 1 .. aLen : s[i] # val
    BY UnusedNode
  <2> HIDE DEF s, old, prev
  <2>7. Ring(Arr!Nodes, t, aLen', aPtr', aNext') /\ aNext' \in Link
    <3>1. CASE aLen = 1
      <4>1. t = [i \in 1 .. 1 |-> val] /\ aPtr' = val /\ aLen' = 1
        <5>1. idx + 1 = 1 /\ DOMAIN s = 1 .. 1 /\ \A i \in 1 .. 1 : i = 1
          BY <1>1, <2>1, <3>1
        <5>2. t = [i \in 1 .. 1 |-> val]
          BY <5>1, Zenon
        <5> QED
          BY <2>2, <3>1, <5>2
      <4>2. aNext' = [aNext EXCEPT ![val] = val]
        BY <2>2, <3>1 DEF Arr!LinkAlone
      <4>3. /\ Ring(Arr!Nodes, [i \in 1 .. 1 |-> val], 1, val, [aNext EXCEPT ![val] = val])
            /\ [aNext EXCEPT ![val] = val] \in Link
        BY <1>1, <2>6, AloneRing, Zenon
      <4> HIDE DEF t
      <4> QED
        BY <4>1, <4>2, <4>3, Zenon
    <3>2. CASE aLen > 1
      <4> DEFINE p == s[Place(aLen, idx)]
                 o == s[idx + 1]
      <4>1. /\ aNext' = [aNext EXCEPT ![p] = val, ![val] = aNext[o]]
            /\ aPtr' = (IF o = aPtr THEN val ELSE aPtr) /\ aLen' = aLen
        BY <2>2, <2>3, <2>5, <3>2, Zenon
      <4>2. /\ Ring(Arr!Nodes, t, aLen, IF o = aPtr THEN val ELSE aPtr,
                    [aNext EXCEPT ![p] = val, ![val] = aNext[o]])
            /\ [aNext EXCEPT ![p] = val, ![val] = aNext[o]] \in Link
        BY <1>1, <2>1, <2>6, <3>2, ReplacedRing, Zenon
      <4> HIDE DEF t, p, o
      <4> QED
        BY <4>1, <4>2, Zenon
    <3> QED
      BY <1>1, <2>1, <3>1, <3>2
  <2>8. (IF aLen > 1 THEN old ELSE aPtr) = s[idx + 1]
    <3>1. ~(aLen > 1) => idx + 1 = aLen
      BY <1>1, <2>1
    <3> QED
      BY <2>3, <2>4, <3>1
  <2>9. Arr!AsList!Done(s[idx + 1])
    BY <2>2, <2>8 DEF Arr!Done, Arr!AsList!Done
  <2>10. ~(idx >= Len(s))
    BY <1>1, <1>3
  <2> HIDE DEF t
  <2>11. ArrayInv' /\ Arr!AsList!Becomes(t)
    BY <2>2, <2>7, ModifiedCall
  <2> QED
    BY <2>9, <2>10, <2>11, Zenon DEF Arr!AsList!Replace, s, t
<1> QED
  BY <1>2, <1>3

\* yyjson_mut_arr_clear leaves the links behind and no list.
LEMMA ClearCall ==
    ASSUME ArrayInv, Arr!Clear
    PROVE  ArrayInv' /\ Arr!AsList!Clear
<1>1. /\ aLen' = 0 /\ Arr!Done(Arr!NoNode) /\ Arr!Modified /\ aNext' = aNext
  BY DEF Arr!Clear
<1>2. Ring(Arr!Nodes, << >>, aLen', aPtr', aNext') /\ aNext' \in Link
  BY <1>1 DEF Ring, Closes, ArrayInv
<1>3. ArrayInv' /\ Arr!AsList!Becomes(<< >>)
  BY <1>1, <1>2, ModifiedCall
<1>4. Arr!AsList!Done(Arr!NoNode)
  BY <1>1 DEF Arr!Done, Arr!AsList!Done
<1> QED
  BY <1>3, <1>4, Zenon DEF Arr!AsList!Clear

\* yyjson_mut_arr_rotate moves ptr alone, which turns the list.
LEMMA RotateCall ==
    ASSUME ArrayInv, NEW idx \in 0 .. aLen, Arr!Rotate(idx)
    PROVE  ArrayInv' /\ Arr!AsList!Rotate(idx)
<1> DEFINE s == Arr!Listed
           t == Turned(s, aLen, idx)
<1>1. /\ aLen \in Nat /\ Len(s) = aLen /\ s \in Seq(Arr!Nodes)
      /\ Ring(Arr!Nodes, s, aLen, aPtr, aNext) /\ aNext \in Link
  BY ArrayFacts DEF ArrayInv
<1>2. CASE idx >= aLen
  <2>1. ArrayInv' /\ Arr!AsList!Refused
    BY <1>2, RefusedCall DEF Arr!Rotate
  <2> QED
    BY <1>1, <1>2, <2>1 DEF Arr!AsList!Rotate
<1>3. CASE ~(idx >= aLen)
  <2>1. idx \in 0 .. aLen - 1 /\ aLen > 0 /\ idx \in 0 .. aLen + 1
    BY <1>1, <1>3
  <2>2. /\ aPtr' = Arr!Walk(idx) /\ Arr!Done(Arr!NoNode) /\ Arr!Modified
        /\ aLen' = aLen /\ aNext' = aNext
    BY <1>3 DEF Arr!Rotate
  <2>3. Arr!Walk(idx) = s[Place(aLen, idx)]
    BY <2>1, ArrayFacts
  <2>4. t = SubSeq(s, idx + 1, Len(s)) \o SubSeq(s, 1, idx)
    BY <1>1, TurnedIs
  <2> HIDE DEF s
  <2>5. Ring(Arr!Nodes, t, aLen, s[Place(aLen, idx)], aNext)
    BY <1>1, <2>1, TurnedRing, Zenon
  <2> HIDE DEF t
  <2>6. Ring(Arr!Nodes, t, aLen', aPtr', aNext') /\ aNext' \in Link
    BY <1>1, <2>2, <2>3, <2>5, Zenon
  <2>7. ArrayInv' /\ Arr!AsList!Becomes(t)
    BY <2>2, <2>6, ModifiedCall
  <2>8. Arr!AsList!Done(Arr!NoNode)
    BY <2>2 DEF Arr!Done, Arr!AsList!Done
  <2>9. ~(idx >= Len(s))
    BY <1>1, <1>3
  <2> QED
    BY <2>4, <2>7, <2>8, <2>9, Zenon DEF Arr!AsList!Rotate, s
<1> QED
  BY <1>2, <1>3

\* yyjson_mut_arr_with_bool and the others link their block in order.
LEMMA ArrWithCall ==
    ASSUME ArrayInv, NEW n \in 0 .. NODES, Arr!ArrWith(n)
    PROVE  ArrayInv' /\ Arr!AsList!ArrWith(n)
<1> DEFINE t == [i \in 1 .. n |-> i]
<1>1. NODES \in Nat /\ aNext \in Link
  BY DEF ArrayInv
<1>2. /\ aLen' = n /\ aPtr' = (IF n = 0 THEN Arr!NoNode ELSE n)
      /\ aNext' = [k \in Arr!Nodes |-> IF k < n THEN k + 1 ELSE IF k = n THEN 1 ELSE aNext[k]]
      /\ Arr!Done(Arr!NoNode) /\ Arr!Modified
  BY DEF Arr!ArrWith
<1>3. aNext' \in Link
  BY <1>1, <1>2 DEF Link, Arr!Nodes
<1>4. Ring(Arr!Nodes, t, aLen', aPtr', aNext')
  BY <1>1, <1>2 DEF Ring, Closes, Arr!Nodes
<1>5. ArrayInv' /\ Arr!AsList!Becomes(t)
  BY <1>2, <1>3, <1>4, ModifiedCall
<1>6. Arr!AsList!Done(Arr!NoNode)
  BY <1>2 DEF Arr!Done, Arr!AsList!Done
<1> QED
  BY <1>5, <1>6, Zenon DEF Arr!AsList!ArrWith

\* A call that returns the node at an index gets it from the list.
LEMMA FoundCall ==
    ASSUME ArrayInv, NEW idx \in 0 .. aLen - 1, Arr!Found(Arr!Listed[idx + 1])
    PROVE  ArrayInv' /\ Arr!AsList!Get(idx)
<1>1. aLen \in Nat /\ Len(Arr!Listed) = aLen
  BY ArrayFacts
<1>2. /\ UNCHANGED <<aLen, aPtr, aNext, aIter>>
      /\ aOut' = [ok |-> TRUE, val |-> Arr!Listed[idx + 1]]
  BY DEF Arr!Found, Arr!Done
<1>3. /\ ArrayInv' /\ Arr!Listed' = Arr!Listed
      /\ [on |-> aIter.on, pos |-> aIter.idx, fresh |-> aIter.fresh]'
         = [on |-> aIter.on, pos |-> aIter.idx, fresh |-> aIter.fresh]
  BY <1>2, UnchangedCall
<1>4. ~(idx >= Len(Arr!Listed))
  BY <1>1
<1> QED
  BY <1>2, <1>3, <1>4, Zenon DEF Arr!AsList!Get, Arr!AsList!Done

\* yyjson_mut_arr_get gets the node behind the one it walked to.
LEMMA GetCall ==
    ASSUME ArrayInv, NEW idx \in 0 .. aLen, Arr!Get(idx)
    PROVE  ArrayInv' /\ Arr!AsList!Get(idx)
<1>1. aLen \in Nat /\ Len(Arr!Listed) = aLen
  BY ArrayFacts
<1>2. CASE idx >= aLen
  <2>1. ArrayInv' /\ Arr!AsList!Refused
    BY <1>2, RefusedCall DEF Arr!Get
  <2> QED
    BY <1>1, <1>2, <2>1 DEF Arr!AsList!Get
<1>3. CASE ~(idx >= aLen)
  <2>1. idx \in 0 .. aLen - 1
    BY <1>1, <1>3
  <2>2. Arr!Found(aNext[Arr!Walk(idx)])
    BY <1>3 DEF Arr!Get
  <2>3. aNext[Arr!Walk(idx)] = Arr!Listed[idx + 1]
    BY <2>1, NodeBehind
  <2> QED
    BY <2>1, <2>2, <2>3, FoundCall
<1> QED
  BY <1>2, <1>3

\* yyjson_mut_arr_get_first gets the node behind the last one.
LEMMA GetFirstCall ==
    ASSUME ArrayInv, Arr!GetFirst
    PROVE  ArrayInv' /\ Arr!AsList!Get(0)
<1>1. aLen \in Nat /\ Len(Arr!Listed) = aLen
  BY ArrayFacts
<1>2. CASE aLen = 0
  <2>1. ArrayInv' /\ Arr!AsList!Refused
    BY <1>2, RefusedCall DEF Arr!GetFirst
  <2> QED
    BY <1>1, <1>2, <2>1 DEF Arr!AsList!Get
<1>3. CASE aLen # 0
  <2>1. 0 \in 0 .. aLen - 1 /\ aLen > 0
    BY <1>1, <1>3
  <2>2. Arr!Found(aNext[aPtr])
    BY <1>3 DEF Arr!GetFirst
  <2>3. aNext[Arr!Walk(0)] = Arr!Listed[0 + 1] /\ Arr!Walk(0) = aPtr
    BY <2>1, NodeBehind, LastPlace, Zenon
  <2>4. Arr!Found(Arr!Listed[0 + 1])
    BY <2>2, <2>3, Zenon
  <2> QED
    BY <2>1, <2>4, FoundCall, Zenon
<1> QED
  BY <1>2, <1>3

\* yyjson_mut_arr_get_last gets the last one.
LEMMA GetLastCall ==
    ASSUME ArrayInv, Arr!GetLast
    PROVE  /\ ArrayInv'
           /\ IF Arr!Listed = << >> THEN Arr!AsList!Refused
              ELSE Arr!AsList!Get(Len(Arr!Listed) - 1)
<1>1. aLen \in Nat /\ Len(Arr!Listed) = aLen /\ Arr!Listed \in Seq(Arr!Nodes)
  BY ArrayFacts
<1>2. CASE aLen = 0
  <2>1. ArrayInv' /\ Arr!AsList!Refused
    BY <1>2, RefusedCall DEF Arr!GetLast
  <2>2. Arr!Listed = << >>
    BY <1>1, <1>2
  <2> QED
    BY <2>1, <2>2, Zenon
<1>3. CASE aLen # 0
  <2> DEFINE idx == aLen - 1
  <2>1. idx \in 0 .. aLen - 1 /\ idx + 1 = aLen /\ Len(Arr!Listed) - 1 = idx /\ Arr!Listed # << >>
    BY <1>1, <1>3
  <2>2. Arr!Found(aPtr)
    BY <1>3 DEF Arr!GetLast
  <2> HIDE DEF idx
  <2>3. Arr!Listed[idx + 1] = aPtr
    BY <2>1, OnlyLast
  <2>4. ArrayInv' /\ Arr!AsList!Get(idx)
    BY <2>1, <2>2, <2>3, FoundCall
  <2> QED
    BY <2>1, <2>4, Zenon
<1> QED
  BY <1>2, <1>3

\* The array as it was
LEMMA SameRing ==
    ASSUME ArrayInv, UNCHANGED <<aLen, aPtr, aNext>>
    PROVE  /\ Arr!Listed' = Arr!Listed /\ Ring(Arr!Nodes, Arr!Listed, aLen, aPtr, aNext)'
           /\ (aNext \in Link)' /\ (NODES \in Nat)'
           /\ \A k \in Nat : Arr!Walk(k)' = Arr!Walk(k)
BY DEF ArrayInv, Arr!Listed, Arr!Walk, Ring, Closes

\* yyjson_mut_arr_iter_init starts before the first node, at the last one.
LEMMA IterInitCall ==
    ASSUME ArrayInv, Arr!IterInit
    PROVE  ArrayInv' /\ Arr!AsList!IterInit
<1>1. /\ aIter' = [on |-> TRUE, idx |-> 0, max |-> aLen,
                   cur |-> IF aLen > 0 THEN aPtr ELSE 0, pre |-> 0, fresh |-> FALSE]
      /\ aOut' = [ok |-> TRUE, val |-> Arr!NoNode]
      /\ UNCHANGED <<aLen, aPtr, aNext>>
  BY DEF Arr!IterInit, Arr!Done, Arr!NoNode
<1>2. /\ Arr!Listed' = Arr!Listed /\ Ring(Arr!Nodes, Arr!Listed, aLen, aPtr, aNext)'
      /\ (aNext \in Link)' /\ (NODES \in Nat)' /\ Arr!Walk(0)' = Arr!Walk(0)
  BY <1>1, SameRing
<1>3. aLen \in Nat
  BY ArrayFacts
<1>4. aLen > 0 => Arr!Walk(0) = aPtr /\ aPtr \in Arr!Nodes
  BY LastPlace
<1>5. (aIter \in IterRecord)'
  BY <1>1, <1>3, <1>4 DEF IterRecord
<1>6. ArrayIteratorInv'
  BY <1>1, <1>2, <1>3, <1>4 DEF ArrayIteratorInv, Arr!IteratorInv
<1>7. ArrayInv'
  BY <1>2, <1>5, <1>6 DEF ArrayInv
<1>8. Arr!AsList!IterInit
  <2>1. [on |-> aIter.on, pos |-> aIter.idx, fresh |-> aIter.fresh]'
        = [on |-> TRUE, pos |-> 0, fresh |-> FALSE]
    BY <1>1
  <2> QED
    BY <1>1, <1>2, <2>1, Zenon DEF Arr!AsList!IterInit, Arr!AsList!Done
<1> QED
  BY <1>7, <1>8

\* What the iterator says while it is on
LEMMA IteratorFacts ==
    ASSUME ArrayInv, aIter.on
    PROVE  /\ aIter \in IterRecord /\ aIter.max = aLen /\ aIter.idx \in 0 .. aLen
           /\ aLen > 0 => aIter.cur = Arr!Walk(aIter.idx)
           /\ aIter.fresh => aIter.idx > 0 /\ aIter.pre = Arr!Walk(aIter.idx - 1)
BY DEF ArrayInv, ArrayIteratorInv, Arr!IteratorInv

\* yyjson_mut_arr_iter_next visits the list in order and stops at its end.
LEMMA IterNextCall ==
    ASSUME ArrayInv, Arr!IterNext
    PROVE  ArrayInv' /\ Arr!AsList!IterNext
<1>1. aIter.on
  BY DEF Arr!IterNext
<1>0. PICK k : k = aIter.idx
  OBVIOUS
<1>2. /\ aIter \in IterRecord /\ aIter.max = aLen /\ k \in 0 .. aLen
      /\ aLen > 0 => aIter.cur = Arr!Walk(k)
  BY <1>0, <1>1, IteratorFacts
<1>3. aLen \in Nat /\ Len(Arr!Listed) = aLen
  BY ArrayFacts
<1>4. CASE ~(aIter.idx < aIter.max)
  <2>1. ArrayInv' /\ Arr!AsList!Refused
    BY <1>4, RefusedCall DEF Arr!IterNext
  <2>2. k = Len(Arr!Listed)
    BY <1>0, <1>2, <1>3, <1>4
  <2> QED
    BY <1>0, <1>1, <2>1, <2>2 DEF Arr!AsList!IterNext
<1>5. CASE aIter.idx < aIter.max
  <2>1. k \in 0 .. aLen - 1 /\ aLen > 0 /\ k # Len(Arr!Listed) /\ k + 1 \in 0 .. aLen + 1
    BY <1>0, <1>2, <1>3, <1>5
  <2>2. /\ aIter' = [aIter EXCEPT !.idx = @ + 1, !.cur = aNext[@], !.pre = aIter.cur,
                                  !.fresh = TRUE]
        /\ aOut' = [ok |-> TRUE, val |-> aNext[aIter.cur]]
        /\ UNCHANGED <<aLen, aPtr, aNext>>
    BY <1>5 DEF Arr!IterNext, Arr!Done
  <2>3. aNext[Arr!Walk(k)] = Arr!Listed[k + 1] /\ Arr!Listed[k + 1] \in Arr!Nodes
    BY <2>1, NodeBehind
  <2>4. Arr!Walk(k + 1) = Arr!Listed[k + 1]
    <3>1. Arr!Walk(k + 1) = Arr!Listed[Place(aLen, k + 1)]
      BY <2>1, ArrayFacts
    <3>2. Place(aLen, k + 1) = k + 1
      BY <1>3, <2>1 DEF Place
    <3> QED
      BY <3>1, <3>2
  <2>5. aIter' = [on |-> TRUE, idx |-> k + 1, max |-> aLen, cur |-> Arr!Listed[k + 1],
                  pre |-> Arr!Walk(k), fresh |-> TRUE]
    BY <1>0, <1>1, <1>2, <2>1, <2>2, <2>3 DEF IterRecord
  <2>6. /\ Arr!Listed' = Arr!Listed /\ Ring(Arr!Nodes, Arr!Listed, aLen, aPtr, aNext)'
        /\ (aNext \in Link)' /\ (NODES \in Nat)'
        /\ Arr!Walk(k)' = Arr!Walk(k) /\ Arr!Walk(k + 1)' = Arr!Walk(k + 1)
    <3>1. k \in Nat /\ k + 1 \in Nat
      BY <1>2, <1>3
    <3> QED
      BY <2>2, <3>1, SameRing
  <2>7. (aIter \in IterRecord)'
    <3>1. Arr!Walk(k) \in Arr!Nodes
      BY <1>2, <1>3, <2>1, ArrayFacts
    <3> QED
      BY <1>2, <1>3, <2>3, <2>5, <3>1 DEF IterRecord
  <2>8. ArrayIteratorInv'
    <3>1. /\ aIter'.on = TRUE /\ aIter'.max = aLen' /\ aIter'.idx = k + 1
          /\ k + 1 \in 0 .. aLen' /\ k + 1 > 0 /\ (k + 1) - 1 = k
          /\ aIter'.cur = Arr!Walk(k + 1)' /\ aIter'.pre = Arr!Walk(k)'
      <4>1. /\ aLen' = aLen /\ k + 1 \in 0 .. aLen /\ k + 1 > 0 /\ (k + 1) - 1 = k
        BY <1>3, <2>1, <2>2
      <4>2. /\ aIter'.on = TRUE /\ aIter'.max = aLen /\ aIter'.idx = k + 1
            /\ aIter'.cur = Arr!Listed[k + 1] /\ aIter'.pre = Arr!Walk(k)
        BY <2>5
      <4> QED
        BY <2>4, <2>6, <4>1, <4>2, Zenon
    <3>2. Arr!Walk(aIter.idx)' = Arr!Walk(k + 1)'
      BY <3>1 DEF Arr!Walk
    <3>3. Arr!Walk(aIter.idx - 1)' = Arr!Walk(k)'
      BY <3>1 DEF Arr!Walk
    <3> QED
      BY <3>1, <3>2, <3>3 DEF ArrayIteratorInv, Arr!IteratorInv
  <2>9. ArrayInv'
    BY <2>6, <2>7, <2>8 DEF ArrayInv
  <2>10. aOut' = [ok |-> TRUE, val |-> Arr!Listed[k + 1]]
    BY <1>2, <2>1, <2>2, <2>3
  <2>11. Arr!AsList!IterNext
    BY <1>0, <1>1, <2>1, <2>5, <2>6, <2>10 DEF Arr!AsList!IterNext, Arr!AsList!Done
  <2> QED
    BY <2>9, <2>11
<1> QED
  BY <1>4, <1>5

\* yyjson_mut_arr_iter_remove cuts what was just visited and steps back.
LEMMA IterRemoveCall ==
    ASSUME ArrayInv, Arr!IterRemove
    PROVE  ArrayInv' /\ Arr!AsList!IterRemove
<1>1. aIter.on /\ aIter.fresh
  BY DEF Arr!IterRemove
<1>0. PICK k : k = aIter.idx - 1
  OBVIOUS
<1> DEFINE s == Arr!Listed
           t == Cut(s, aLen, k, 1)
<1>2. /\ aIter \in IterRecord /\ aIter.max = aLen /\ k \in 0 .. aLen - 1
      /\ k + 1 = aIter.idx /\ aLen > 0 /\ aLen \in Nat
      /\ aIter.cur = Arr!Walk(k + 1) /\ aIter.pre = Arr!Walk(k)
  <2>1. /\ aIter \in IterRecord /\ aIter.max = aLen /\ aIter.idx \in 0 .. aLen
        /\ aLen > 0 => aIter.cur = Arr!Walk(aIter.idx)
        /\ aIter.idx > 0 /\ aIter.pre = Arr!Walk(k)
    BY <1>0, <1>1, IteratorFacts
  <2>2. aLen \in Nat
    BY ArrayFacts
  <2>3. k + 1 = aIter.idx /\ aLen > 0 /\ k \in 0 .. aLen - 1
    BY <1>0, <2>1, <2>2
  <2> QED
    BY <2>1, <2>2, <2>3
<1>3. /\ aPtr' = (IF aIter.idx = aIter.max THEN aIter.pre ELSE aPtr)
      /\ aLen' = aIter.max - 1
      /\ aNext' = [aNext EXCEPT ![aIter.pre] = aNext[aIter.cur]]
      /\ aIter' = [aIter EXCEPT !.idx = @ - 1, !.max = @ - 1, !.cur = aIter.pre, !.fresh = FALSE]
      /\ aOut' = [ok |-> TRUE, val |-> aIter.cur]
  BY DEF Arr!IterRemove, Arr!Done
<1>4. aIter' = [on |-> TRUE, idx |-> k, max |-> aLen - 1, cur |-> Arr!Walk(k),
                pre |-> aIter.pre, fresh |-> FALSE]
  BY <1>0, <1>1, <1>2, <1>3 DEF IterRecord
<1>5. /\ Len(s) = aLen /\ s \in Seq(Arr!Nodes) /\ aNext \in Link /\ NODES \in Nat
      /\ \A j \in 0 .. aLen + 1 : Arr!Walk(j) = s[Place(aLen, j)] /\ Arr!Walk(j) \in Arr!Nodes
  BY <1>2, ArrayFacts DEF ArrayInv
<1>6. s[k + 1] = Arr!Walk(k + 1) /\ aNext[s[k + 1]] = Arr!Walk(k + 2)
  <2>1. k + 1 \in 0 .. aLen + 1 /\ Place(aLen, k + 1) = k + 1
    BY <1>2 DEF Place
  <2>2. aNext[s[k + 1]] = Arr!Walk(k + 2)
    BY <1>2, NodeBehind
  <2>3. Arr!Walk(k + 1) = s[Place(aLen, k + 1)]
    BY <1>5, <2>1, Zenon
  <2> QED
    BY <2>1, <2>2, <2>3, Zenon
<1>7. /\ aNext' = [aNext EXCEPT ![Arr!Walk(k)] = Arr!Walk(k + 2)]
      /\ aPtr' = (IF k + 1 = aLen THEN Arr!Walk(k) ELSE aPtr)
      /\ aLen' = aLen - 1
  BY <1>2, <1>3, <1>6, Zenon
<1>8. Ring(Arr!Nodes, t, aLen', aPtr', aNext') /\ aNext' \in Link
  <2>1. CASE aLen = 1
    <3>1. aLen' = 0 /\ t \in [1 .. 0 -> Arr!Nodes]
      BY <1>7, <2>1 DEF Cut
    <3>2. Arr!Walk(k + 2) \in Arr!Nodes /\ Arr!Walk(k) \in Arr!Nodes
      <4>1. k \in 0 .. aLen + 1 /\ k + 2 \in 0 .. aLen + 1
        BY <1>2
      <4> QED
        BY <1>5, <4>1, Zenon
    <3>3. aNext' \in Link
      BY <1>5, <1>7, <3>2 DEF Link
    <3> HIDE DEF t
    <3>4. Ring(Arr!Nodes, t, aLen', aPtr', aNext')
      BY <3>1 DEF Ring, Closes
    <3> QED
      BY <3>3, <3>4
  <2>2. CASE aLen # 1
    <3>1. /\ k \in 0 .. aLen /\ 1 \in 0 .. aLen - k /\ k + 1 + 1 = k + 2
          /\ ~(1 = 0 \/ 1 = aLen)
      BY <1>2, <2>2
    <3>2. /\ aNext' = [aNext EXCEPT ![Arr!Walk(k)] = Arr!Walk(k + 1 + 1)]
          /\ aPtr' = (IF k + 1 = aLen THEN Arr!Walk(k) ELSE aPtr)
      BY <1>7, <3>1, Zenon
    <3> QED
      BY <1>7, <3>1, <3>2, CutStep
  <2> QED
    BY <2>1, <2>2
<1>9. s' = t /\ Ring(Arr!Nodes, s, aLen, aPtr, aNext)'
  BY <1>8, RingAfter
<1>10. Arr!AsList!Seqs!RemoveAt(s, k + 1) = t
  BY <1>2, <1>5, RemovedIs
<1>11. aLen' > 0 => Arr!Walk(k)' = Arr!Walk(k)
  <2> SUFFICES ASSUME aLen' > 0 PROVE Arr!Walk(k)' = Arr!Walk(k)
    OBVIOUS
  <2>1. aLen > 1 /\ k \in 0 .. aLen' + 1 /\ aLen' = aLen - 1
    BY <1>2, <1>7
  <2>2. Arr!NodeAt(aPtr', aNext', k) = t[Place(aLen', k)]
    BY <1>8, <2>1, ListedRing
  <2>3. t[Place(aLen', k)] = s[Place(aLen, k)]
    <3>1. CASE k = 0
      BY <1>2, <2>1, <3>1 DEF Place, Cut
    <3>2. CASE k # 0
      BY <1>2, <2>1, <3>2 DEF Place, Cut
    <3> QED
      BY <3>1, <3>2
  <2>4. Arr!Walk(k) = s[Place(aLen, k)]
    <3>1. k \in 0 .. aLen + 1
      BY <1>2
    <3> QED
      BY <1>5, <3>1, Zenon
  <2>5. Arr!Walk(k)' = Arr!NodeAt(aPtr', aNext', k)
    BY DEF Arr!Walk
  <2> QED
    BY <2>2, <2>3, <2>4, <2>5
<1>12. (aIter \in IterRecord)'
  <2>1. Arr!Walk(k) \in Arr!Nodes
    <3>1. k \in 0 .. aLen + 1
      BY <1>2
    <3> QED
      BY <1>5, <3>1, Zenon
  <2>2. aIter.pre \in Arr!Nodes \cup {0} /\ k \in Nat /\ aLen - 1 \in Nat
    BY <1>2 DEF IterRecord
  <2> QED
    BY <1>4, <2>1, <2>2 DEF IterRecord
<1>13. ArrayIteratorInv'
  <2>1. /\ aIter'.max = aLen' /\ aIter'.idx = k /\ k \in 0 .. aLen' /\ aIter'.fresh = FALSE
        /\ aIter'.cur = Arr!Walk(k)
    BY <1>2, <1>4, <1>7
  <2>2. Arr!Walk(aIter.idx)' = Arr!Walk(k)'
    BY <2>1 DEF Arr!Walk
  <2> QED
    BY <1>11, <2>1, <2>2 DEF ArrayIteratorInv, Arr!IteratorInv
<1>14. ArrayInv'
  BY <1>5, <1>8, <1>9, <1>12, <1>13 DEF ArrayInv
<1>15. Arr!AsList!IterRemove
  <2>1. /\ s' = Arr!AsList!Seqs!RemoveAt(s, aIter.idx)
        /\ [on |-> aIter.on, pos |-> aIter.idx, fresh |-> aIter.fresh]'
           = [on |-> TRUE, pos |-> aIter.idx - 1, fresh |-> FALSE]
    BY <1>0, <1>2, <1>4, <1>9, <1>10
  <2>2. aOut' = [ok |-> TRUE, val |-> s[aIter.idx]]
    BY <1>2, <1>3, <1>6
  <2> QED
    BY <1>1, <2>1, <2>2 DEF Arr!AsList!IterRemove, Arr!AsList!Done
<1> QED
  BY <1>14, <1>15

\* A new array is an empty list.
LEMMA InitialArray == Arr!Init => ArrayInv /\ Arr!AsList!Init
<1> SUFFICES ASSUME Arr!Init PROVE ArrayInv /\ Arr!AsList!Init
  OBVIOUS
<1>1. /\ aLen = 0 /\ aPtr = 0 /\ aNext = [n \in Arr!Nodes |-> 0]
      /\ aIter = [on |-> FALSE, idx |-> 0, max |-> 0, cur |-> 0, pre |-> 0, fresh |-> FALSE]
      /\ aCall = <<"new">> /\ aOut = [ok |-> TRUE, val |-> Arr!NoNode]
  BY DEF Arr!Init, Arr!NoIter, Arr!NoNode
<1>2. Arr!Listed = << >>
  BY <1>1 DEF Arr!Listed
<1>3. NODES \in Nat
  BY ArrayAssumption DEF Arr!NodesAssumption
<1>4. Ring(Arr!Nodes, Arr!Listed, aLen, aPtr, aNext)
  <2>1. << >> \in [1 .. 0 -> Arr!Nodes]
    OBVIOUS
  <2> QED
    BY <1>1, <1>2, <2>1 DEF Ring, Closes
<1>5. ArrayInv
  BY <1>1, <1>3, <1>4 DEF ArrayInv, Link, IterRecord, ArrayIteratorInv, Arr!IteratorInv
<1>6. Arr!AsList!Init
  BY <1>1, <1>2 DEF Arr!AsList!Init, Arr!AsList!NoIter
<1> QED
  BY <1>5, <1>6

\* The nodes that are free, and the sizes an array may be made with, are the same for
\* the ring and for the list.
LEMMA SameInputs ==
    ASSUME ArrayInv
    PROVE  /\ Arr!AsList!Unused = Arr!Unused /\ Len(Arr!Listed) = aLen
           /\ 0 .. NODES = Arr!Nodes \cup {0}
<1>1. Arr!AsList!Unused = Arr!Unused
  BY DEF Arr!AsList!Unused, Arr!Unused, Arr!AsList!Range, Arr!Range
<1>2. NODES \in Nat
  BY DEF ArrayInv
<1>3. 0 .. NODES = Arr!Nodes \cup {0}
  BY <1>2 DEF Arr!Nodes
<1> QED
  BY <1>1, <1>3, ArrayFacts

\* Every call keeps the ring closed and is the call of JsonList with its arguments.
LEMMA EveryArrayCall ==
    ArrayInv /\ [Arr!Next]_arrayVars => ArrayInv' /\ [Arr!AsList!Next]_(Arr!AsList!vars)
<1> SUFFICES ASSUME ArrayInv, [Arr!Next]_arrayVars
             PROVE  ArrayInv' /\ [Arr!AsList!Next]_(Arr!AsList!vars)
  OBVIOUS
<1>0. /\ Arr!AsList!Unused = Arr!Unused /\ Len(Arr!Listed) = aLen
      /\ 0 .. NODES = Arr!Nodes \cup {0}
      /\ \A c : Arr!AsList!Called(c) <=> Arr!Called(c)
  BY SameInputs DEF Arr!AsList!Called, Arr!Called
<1>1. ASSUME NEW val \in Arr!Unused, Arr!Called(<<"append", val>>), Arr!Append_(val)
      PROVE  ArrayInv' /\ Arr!AsList!Next
  BY <1>0, <1>1, AppendCall, Zenon DEF Arr!AsList!Next
<1>2. ASSUME NEW val \in Arr!Unused, Arr!Called(<<"add", val>>), Arr!AddNew(val)
      PROVE  ArrayInv' /\ Arr!AsList!Next
  <2>1. ArrayInv' /\ (Arr!AsList!Append_(val) \/ Arr!AsList!Refused)
    BY <1>2, AppendCall, RefusedCall, Zenon DEF Arr!AddNew
  <2> QED
    BY <1>0, <1>2, <2>1, Zenon DEF Arr!AsList!Next
<1>3. ASSUME NEW val \in Arr!Unused, Arr!Called(<<"prepend", val>>), Arr!Prepend(val)
      PROVE  ArrayInv' /\ Arr!AsList!Next
  BY <1>0, <1>3, PrependCall, Zenon DEF Arr!AsList!Next
<1>4. ASSUME NEW val \in Arr!Unused, NEW idx \in 0 .. aLen + 1,
             Arr!Called(<<"insert", val, idx>>), Arr!Insert(val, idx)
      PROVE  ArrayInv' /\ Arr!AsList!Next
  BY <1>0, <1>4, InsertCall, Zenon DEF Arr!AsList!Next
<1>5. ASSUME NEW val \in Arr!Unused, NEW idx \in 0 .. aLen + 1,
             Arr!Called(<<"replace", val, idx>>), Arr!Replace(idx, val)
      PROVE  ArrayInv' /\ Arr!AsList!Next
  BY <1>0, <1>5, ReplaceCall, Zenon DEF Arr!AsList!Next
<1>6. ASSUME NEW idx \in 0 .. aLen, Arr!Called(<<"remove", idx>>), Arr!Remove(idx)
      PROVE  ArrayInv' /\ Arr!AsList!Next
  BY <1>0, <1>6, RemoveCall, Zenon DEF Arr!AsList!Next
<1>7. ASSUME NEW idx \in 0 .. aLen, Arr!Called(<<"rotate", idx>>), Arr!Rotate(idx)
      PROVE  ArrayInv' /\ Arr!AsList!Next
  BY <1>0, <1>7, RotateCall, Zenon DEF Arr!AsList!Next
<1>8. ASSUME NEW idx \in 0 .. aLen, Arr!Called(<<"get", idx>>), Arr!Get(idx)
      PROVE  ArrayInv' /\ Arr!AsList!Next
  BY <1>0, <1>8, GetCall, Zenon DEF Arr!AsList!Next
<1>9. ASSUME NEW idx \in 0 .. aLen + 1, NEW n \in 0 .. aLen + 1,
             Arr!Called(<<"remove_range", idx, n>>), Arr!RemoveRange(idx, n)
      PROVE  ArrayInv' /\ Arr!AsList!Next
  BY <1>0, <1>9, RemoveRangeCall, Zenon DEF Arr!AsList!Next
<1>10. CASE Arr!Called(<<"remove_first">>) /\ Arr!RemoveFirst
  BY <1>0, <1>10, RemoveFirstCall, Zenon DEF Arr!AsList!Next
<1>11. CASE Arr!Called(<<"remove_last">>) /\ Arr!RemoveLast
  BY <1>0, <1>11, RemoveLastCall, Zenon DEF Arr!AsList!Next
<1>12. CASE Arr!Called(<<"clear">>) /\ Arr!Clear
  BY <1>0, <1>12, ClearCall, Zenon DEF Arr!AsList!Next
<1>13. CASE Arr!Called(<<"get_first">>) /\ Arr!GetFirst
  BY <1>0, <1>13, GetFirstCall, Zenon DEF Arr!AsList!Next
<1>14. CASE Arr!Called(<<"get_last">>) /\ Arr!GetLast
  BY <1>0, <1>14, GetLastCall, Zenon DEF Arr!AsList!Next
<1>15. ASSUME NEW n \in 0 .. NODES, Arr!Called(<<"arr_with", n>>), Arr!ArrWith(n)
       PROVE  ArrayInv' /\ Arr!AsList!Next
  BY <1>0, <1>15, ArrWithCall, Zenon DEF Arr!AsList!Next
<1>16. CASE Arr!Called(<<"iter_init">>) /\ Arr!IterInit
  BY <1>0, <1>16, IterInitCall, Zenon DEF Arr!AsList!Next
<1>17. CASE Arr!Called(<<"iter_next">>) /\ Arr!IterNext
  BY <1>0, <1>17, IterNextCall, Zenon DEF Arr!AsList!Next
<1>18. CASE Arr!Called(<<"iter_remove">>) /\ Arr!IterRemove
  BY <1>0, <1>18, IterRemoveCall, Zenon DEF Arr!AsList!Next
<1>19. CASE UNCHANGED arrayVars
  <2>1. /\ UNCHANGED <<aLen, aPtr, aNext, aIter>> /\ aCall' = aCall /\ aOut' = aOut
    BY <1>19 DEF arrayVars
  <2>2. /\ ArrayInv' /\ Arr!Listed' = Arr!Listed
        /\ [on |-> aIter.on, pos |-> aIter.idx, fresh |-> aIter.fresh]'
           = [on |-> aIter.on, pos |-> aIter.idx, fresh |-> aIter.fresh]
    BY <2>1, UnchangedCall
  <2> QED
    BY <2>1, <2>2 DEF Arr!AsList!vars
<1>20. CASE Arr!Next
  <2>1. CASE \E val \in Arr!Unused :
                \/ Arr!Called(<<"append", val>>) /\ Arr!Append_(val)
                \/ Arr!Called(<<"add", val>>) /\ Arr!AddNew(val)
                \/ Arr!Called(<<"prepend", val>>) /\ Arr!Prepend(val)
                \/ \E idx \in 0 .. aLen + 1 :
                      \/ Arr!Called(<<"insert", val, idx>>) /\ Arr!Insert(val, idx)
                      \/ Arr!Called(<<"replace", val, idx>>) /\ Arr!Replace(idx, val)
    BY <1>1, <1>2, <1>3, <1>4, <1>5, <2>1, Zenon
  <2>2. CASE \E idx \in 0 .. aLen :
                \/ Arr!Called(<<"remove", idx>>) /\ Arr!Remove(idx)
                \/ Arr!Called(<<"rotate", idx>>) /\ Arr!Rotate(idx)
                \/ Arr!Called(<<"get", idx>>) /\ Arr!Get(idx)
    BY <1>6, <1>7, <1>8, <2>2, Zenon
  <2>3. CASE \E idx, n \in 0 .. aLen + 1 :
                Arr!Called(<<"remove_range", idx, n>>) /\ Arr!RemoveRange(idx, n)
    BY <1>9, <2>3, Zenon
  <2>4. CASE \E n \in 0 .. NODES : Arr!Called(<<"arr_with", n>>) /\ Arr!ArrWith(n)
    BY <1>15, <2>4, Zenon
  <2> QED
    BY <1>10, <1>11, <1>12, <1>13, <1>14, <1>16, <1>17, <1>18, <1>20,
       <2>1, <2>2, <2>3, <2>4, Zenon DEF Arr!Next
<1> QED
  BY <1>19, <1>20

\* The ring is closed in the sense of its module: it holds no node twice and no more
\* than there are.
LEMMA ArrayCloses == ArrayInv => ArrayRingInv /\ ArrayIteratorInv
<1> SUFFICES ASSUME ArrayInv PROVE ArrayRingInv /\ ArrayIteratorInv
  OBVIOUS
<1>1. /\ Ring(Arr!Nodes, Arr!Listed, aLen, aPtr, aNext) /\ NODES \in Nat
      /\ aLen \in Nat /\ Arr!Listed \in [1 .. aLen -> Arr!Nodes]
  BY ArrayFacts DEF ArrayInv
<1>2. Arr!IsInjective(Arr!Listed) /\ Arr!Range(Arr!Listed) \subseteq Arr!Nodes
  BY <1>1 DEF Ring, Arr!IsInjective, Arr!Range
<1>3. aLen <= NODES
  <2>1. Arr!Listed \in Injection(1 .. aLen, Arr!Nodes)
    BY <1>1 DEF Ring, Injection, IsInjective
  <2>2. IsFiniteSet(Arr!Nodes) /\ Cardinality(Arr!Nodes) = NODES
    BY <1>1, FS_Interval DEF Arr!Nodes
  <2>3. Cardinality(1 .. aLen) = aLen
    BY <1>1, FS_Interval
  <2>4. Cardinality(1 .. aLen) <= Cardinality(Arr!Nodes)
    BY <2>1, <2>2, FS_Injection
  <2> QED
    BY <2>2, <2>3, <2>4
<1>4. aLen > 0 => Arr!Walk(aLen) = aPtr
  BY LastPlace
<1>5. ArrayRingInv
  BY <1>1, <1>2, <1>3, <1>4 DEF ArrayRingInv, Arr!RingInv
<1> QED
  BY <1>5 DEF ArrayInv

\* Whichever container a behaviour calls, the array takes a step of its own or none.
LEMMA ArrayStep == [MCNext]_mcVars => [Arr!Next]_arrayVars
BY DEF MCNext, CallQueue, CallArray, CallObject, MakeValues, UsePool, mcVars, containerVars, arrayVars

\* A mutable array behaves as the sequence of its values, for every number of nodes and
\* every sequence of calls, what they return and where their iterators stand included.
THEOREM ArrayImplementsList == MCSpec => ImplementsList
<1>1. MCInit => ArrayInv /\ Arr!AsList!Init
  BY InitialArray DEF MCInit
<1>2. ArrayInv /\ [MCNext]_mcVars
      => ArrayInv' /\ [Arr!AsList!Next]_(Arr!AsList!vars)
  BY EveryArrayCall, ArrayStep
<1> QED
  BY <1>1, <1>2, PTL DEF MCSpec, ImplementsList, Arr!ImplementsList, Arr!AsList!Spec

-----------------------------------------------------------------------------
(***************************************************************************)
(* The rings of objects: the keys s[1], ..., s[n] are a ring if each is    *)
(* linked to the one behind its value, and v[1], ..., v[n] are the values  *)
(***************************************************************************)

ObjNodes == Obj!Keys \cup Obj!Vals
RingRecord == [len : Nat, ptr : ObjNodes \cup {0}, next : [ObjNodes -> ObjNodes \cup {0}]]
KeyLinks(r) == [key \in Obj!Keys |-> r.next[r.next[key]]]

ObjRing(s, v, r) ==
    /\ r \in RingRecord
    /\ Ring(Obj!Keys, s, r.len, r.ptr, KeyLinks(r))
    /\ v \in [1 .. r.len -> Obj!Vals]
    /\ \A i, j \in 1 .. r.len : v[i] = v[j] => i = j
    /\ \A i \in 1 .. r.len : r.next[s[i]] = v[i]

\* No node is a key and a value.
LEMMA KeyOrValue ==
    ASSUME NEW k \in Obj!Keys, NEW x \in Obj!Vals
    PROVE  k # x /\ k \in Nat /\ x \in Nat /\ k # 0 /\ x # 0 /\ k \in ObjNodes /\ x \in ObjNodes
<1>1. PAIRS \in Nat
  BY ObjectAssumption DEF Obj!PairsAssumption
<1>2. PICK i \in 1 .. PAIRS : k = 2 * i - 1
  BY DEF Obj!Keys
<1>3. PICK j \in 1 .. PAIRS : x = 2 * j
  BY DEF Obj!Vals
<1>4. i \in Nat /\ j \in Nat /\ i >= 1 /\ j >= 1
  BY <1>1
<1> QED
  BY <1>2, <1>3, <1>4 DEF ObjNodes

\* What a ring of an object is, without its definitions
LEMMA ObjRingFacts ==
    ASSUME NEW s, NEW v, NEW r, ObjRing(s, v, r)
    PROVE  /\ r.len \in Nat /\ r.ptr \in ObjNodes \cup {0}
           /\ r.next \in [ObjNodes -> ObjNodes \cup {0}]
           /\ r = [len |-> r.len, ptr |-> r.ptr, next |-> r.next]
           /\ s \in [1 .. r.len -> Obj!Keys] /\ v \in [1 .. r.len -> Obj!Vals]
           /\ \A i, j \in 1 .. r.len : s[i] = s[j] => i = j
           /\ \A i, j \in 1 .. r.len : v[i] = v[j] => i = j
           /\ r.len > 0 => r.ptr = s[r.len]
           /\ \A i \in 1 .. r.len : r.next[s[i]] = v[i]
           /\ \A i \in 1 .. r.len : r.next[v[i]] = s[Place(r.len, i + 1)]
<1>1. /\ r.len \in Nat /\ r.ptr \in ObjNodes \cup {0}
      /\ r.next \in [ObjNodes -> ObjNodes \cup {0}]
      /\ r = [len |-> r.len, ptr |-> r.ptr, next |-> r.next]
  BY DEF ObjRing, RingRecord
<1>2. /\ s \in [1 .. r.len -> Obj!Keys] /\ v \in [1 .. r.len -> Obj!Vals]
      /\ \A i, j \in 1 .. r.len : s[i] = s[j] => i = j
      /\ \A i, j \in 1 .. r.len : v[i] = v[j] => i = j
      /\ r.len > 0 => r.ptr = s[r.len]
      /\ \A i \in 1 .. r.len : r.next[s[i]] = v[i]
  BY DEF ObjRing, Ring
<1>3. ASSUME NEW i \in 1 .. r.len
      PROVE  r.next[v[i]] = s[Place(r.len, i + 1)]
  <2>1. KeyLinks(r)[s[i]] = s[IF i = r.len THEN 1 ELSE i + 1]
    BY DEF ObjRing, Ring, Closes
  <2>2. s[i] \in Obj!Keys /\ r.next[s[i]] = v[i]
    BY <1>2
  <2>3. KeyLinks(r)[s[i]] = r.next[r.next[s[i]]]
    BY <2>2 DEF KeyLinks
  <2>4. Place(r.len, i + 1) = IF i = r.len THEN 1 ELSE i + 1
    BY <1>1 DEF Place
  <2> QED
    BY <2>1, <2>2, <2>3, <2>4
<1> QED
  BY <1>1, <1>2, <1>3

\* The converse
LEMMA ObjRingIs ==
    ASSUME NEW s, NEW v, NEW r, r \in RingRecord,
           s \in [1 .. r.len -> Obj!Keys], v \in [1 .. r.len -> Obj!Vals],
           \A i, j \in 1 .. r.len : s[i] = s[j] => i = j,
           \A i, j \in 1 .. r.len : v[i] = v[j] => i = j,
           r.len > 0 => r.ptr = s[r.len],
           \A i \in 1 .. r.len : r.next[s[i]] = v[i],
           \A i \in 1 .. r.len : r.next[v[i]] = s[Place(r.len, i + 1)]
    PROVE  ObjRing(s, v, r)
<1>1. r.len \in Nat
  BY DEF RingRecord
<1>2. ASSUME NEW i \in 1 .. r.len
      PROVE  KeyLinks(r)[s[i]] = s[IF i = r.len THEN 1 ELSE i + 1]
  <2>1. KeyLinks(r)[s[i]] = r.next[v[i]]
    BY DEF KeyLinks
  <2>2. Place(r.len, i + 1) = IF i = r.len THEN 1 ELSE i + 1
    BY <1>1 DEF Place
  <2> QED
    BY <2>1, <2>2
<1> QED
  BY <1>1, <1>2 DEF ObjRing, Ring, Closes

\* Behind the value of a place is the key of the next.
LEMMA NextKeyPlace ==
    ASSUME NEW s, NEW v, NEW r, ObjRing(s, v, r), r.len > 0, NEW k \in 0 .. r.len
    PROVE  /\ Obj!NextKey(r, s[Place(r.len, k)]) = s[Place(r.len, k + 1)]
           /\ r.next[s[Place(r.len, k)]] = v[Place(r.len, k)]
           /\ Place(r.len, k) \in 1 .. r.len /\ Place(r.len, k + 1) \in 1 .. r.len
<1>1. /\ r.len \in Nat /\ s \in [1 .. r.len -> Obj!Keys]
      /\ Ring(Obj!Keys, s, r.len, r.ptr, KeyLinks(r))
  BY DEF ObjRing, RingRecord, Ring
<1>2. KeyLinks(r)[s[Place(r.len, k)]] = s[Place(r.len, k + 1)]
  BY <1>1, NextPlace
<1>3. Place(r.len, k) \in 1 .. r.len /\ Place(r.len, k + 1) \in 1 .. r.len
  BY <1>1 DEF Place
<1>4. KeyLinks(r)[s[Place(r.len, k)]] = Obj!NextKey(r, s[Place(r.len, k)])
  BY <1>1, <1>3 DEF KeyLinks, Obj!NextKey
<1>5. r.next[s[Place(r.len, k)]] = v[Place(r.len, k)]
  BY <1>3, ObjRingFacts
<1> QED
  BY <1>2, <1>3, <1>4, <1>5

\* Walking k keys behind the last one arrives at place k.
LEMMA KeyAtPlace ==
    ASSUME NEW s, NEW v, NEW r, ObjRing(s, v, r), r.len > 0, NEW k \in 0 .. r.len + 1
    PROVE  Obj!KeyAt(r, k) = s[Place(r.len, k)] /\ Place(r.len, k) \in 1 .. r.len
<1> DEFINE n == r.len
           f == [i \in 0 .. k |-> s[Place(n, i)]]
           F(g) == [i \in 0 .. k |-> IF i = 0 THEN r.ptr ELSE Obj!NextKey(r, g[i - 1])]
           node == CHOOSE g : g = F(g)
<1>0. n \in Nat
  BY ObjRingFacts
<1>1. ASSUME NEW i \in 0 .. k
      PROVE  f[i] = IF i = 0 THEN r.ptr ELSE Obj!NextKey(r, f[i - 1])
  <2>1. CASE i = 0
    <3>1. r.ptr = s[n] /\ Place(n, 0) = n
      BY ObjRingFacts DEF Place
    <3> QED
      BY <2>1, <3>1
  <2>2. CASE i # 0
    <3>1. i - 1 \in 0 .. n /\ i - 1 \in 0 .. k /\ (i - 1) + 1 = i
      BY <1>0, <2>2
    <3>2. Obj!NextKey(r, s[Place(n, i - 1)]) = s[Place(n, (i - 1) + 1)]
      BY <3>1, NextKeyPlace
    <3> QED
      BY <2>2, <3>1, <3>2
  <2> QED
    BY <2>1, <2>2
<1>2. f = F(f)
  BY <1>1, Zenon
<1>3. node = F(node)
  BY <1>2, Zenon
<1>4. Obj!KeyAt(r, k) = node[k]
  BY DEF Obj!KeyAt
<1>5. ASSUME NEW i \in 0 .. k
      PROVE  node[i] = IF i = 0 THEN r.ptr ELSE Obj!NextKey(r, node[i - 1])
  <2> HIDE DEF node
  <2> QED
    BY <1>3, Zenon
<1>6. \A i \in 0 .. k : node[i] = f[i]
  <2>1. node[0] = f[0]
    <3>1. 0 \in 0 .. k
      BY <1>0
    <3> HIDE DEF node, f
    <3> QED
      BY <1>1, <1>5, <3>1
  <2>2. ASSUME NEW i \in 0 + 1 .. k, node[i - 1] = f[i - 1]
        PROVE  node[i] = f[i]
    <3>1. i \in 0 .. k /\ i # 0
      BY <1>0
    <3> HIDE DEF node, f
    <3> QED
      BY <1>1, <1>5, <2>2, <3>1
  <2>3. 0 \in Nat /\ k \in Nat
    BY <1>0
  <2> HIDE DEF node, f
  <2>4. GoOnAlike(node, f, 0, k)
    BY <2>2 DEF GoOnAlike
  <2>5. Alike(node, f, 0, k)
    BY <2>1, <2>3, <2>4, AgreeOn, Zenon
  <2> QED
    BY <2>5 DEF Alike
<1>7. Place(n, k) \in 1 .. n
  BY <1>0 DEF Place
<1> QED
  BY <1>0, <1>4, <1>6, <1>7

\* What the object lists is the ring.
LEMMA ListedObject ==
    ASSUME NEW s, NEW v, ObjRing(s, v, oRing)
    PROVE  Obj!ListedKeys = s /\ Obj!ListedVals = v
<1>1. /\ oRing.len \in Nat /\ s \in [1 .. oRing.len -> Obj!Keys]
      /\ v \in [1 .. oRing.len -> Obj!Vals]
      /\ \A i \in 1 .. oRing.len : oRing.next[s[i]] = v[i]
  BY ObjRingFacts
<1>2. ASSUME NEW i \in 1 .. oRing.len
      PROVE  Obj!KeyAt(oRing, i) = s[i]
  <2>1. i \in 0 .. oRing.len + 1 /\ oRing.len > 0 /\ Place(oRing.len, i) = i
    BY <1>1 DEF Place
  <2> QED
    BY <2>1, KeyAtPlace
<1>3. s = [i \in 1 .. oRing.len |-> s[i]] /\ v = [i \in 1 .. oRing.len |-> v[i]]
  BY <1>1
<1>4. Obj!ListedKeys = s
  BY <1>2, <1>3 DEF Obj!ListedKeys
<1>5. Obj!ListedVals = v
  BY <1>1, <1>2, <1>3 DEF Obj!ListedVals
<1> QED
  BY <1>4, <1>5

\* Adding a pair puts it at the end.
LEMMA AddedObject ==
    ASSUME NEW s, NEW v, NEW r, ObjRing(s, v, r), NEW key \in Obj!Keys, NEW val \in Obj!Vals,
           \A i \in 1 .. r.len : s[i] # key /\ v[i] # val
    PROVE  ObjRing(Inserted(s, r.len, r.len, key), Inserted(v, r.len, r.len, val),
                   Obj!Added(r, key, val))
<1> DEFINE n == r.len
           t == Inserted(s, n, n, key)
           w == Inserted(v, n, n, val)
           q == Obj!Added(r, key, val)
<1>1. /\ n \in Nat /\ r.next \in [ObjNodes -> ObjNodes \cup {0}]
      /\ s \in [1 .. n -> Obj!Keys] /\ v \in [1 .. n -> Obj!Vals]
      /\ \A i, j \in 1 .. n : s[i] = s[j] => i = j
      /\ \A i, j \in 1 .. n : v[i] = v[j] => i = j
      /\ n > 0 => r.ptr = s[n]
      /\ \A i \in 1 .. n : r.next[s[i]] = v[i]
      /\ \A i \in 1 .. n : r.next[v[i]] = s[Place(n, i + 1)]
  BY ObjRingFacts
<1>2. key \in ObjNodes /\ val \in ObjNodes /\ key # val
  BY KeyOrValue
<1>3. /\ q = [len |-> n + 1, ptr |-> key, next |-> q.next]
      /\ q.next \in [ObjNodes -> ObjNodes \cup {0}]
      /\ q.next[val] = IF n > 0 THEN s[1] ELSE key
      /\ q.next[key] = val
      /\ \A x \in ObjNodes : x # val /\ x # key =>
            q.next[x] = IF n > 0 /\ x = v[n] THEN key ELSE r.next[x]
  <2>1. CASE n > 0
    <3>1. r.next[r.ptr] = v[n] /\ Obj!NextKey(r, r.ptr) = s[1]
      <4>1. n \in 1 .. n /\ Place(n, n + 1) = 1
        BY <1>1, <2>1 DEF Place
      <4> QED
        BY <1>1, <2>1, <4>1 DEF Obj!NextKey
    <3>2. q = [len |-> n + 1, ptr |-> key,
               next |-> [r.next EXCEPT ![v[n]] = key, ![val] = s[1], ![key] = val]]
      BY <2>1, <3>1 DEF Obj!Added
    <3>3. s[1] \in ObjNodes /\ v[n] \in ObjNodes
      BY <1>1, <2>1 DEF ObjNodes
    <3> HIDE DEF q
    <3> QED
      BY <1>1, <1>2, <2>1, <3>2, <3>3
  <2>2. CASE ~(n > 0)
    <3>1. q = [len |-> n + 1, ptr |-> key, next |-> [r.next EXCEPT ![val] = key, ![key] = val]]
      BY <2>2 DEF Obj!Added
    <3> HIDE DEF q
    <3> QED
      BY <1>1, <1>2, <2>2, <3>1
  <2> QED
    BY <2>1, <2>2
<1>4. /\ \A i \in 1 .. n + 1 : t[i] = IF i = n + 1 THEN key ELSE s[i]
      /\ \A i \in 1 .. n + 1 : w[i] = IF i = n + 1 THEN val ELSE v[i]
      /\ t \in [1 .. n + 1 -> Obj!Keys] /\ w \in [1 .. n + 1 -> Obj!Vals]
  BY <1>1 DEF Inserted
<1> HIDE DEF t, w, q
<1>5. q \in RingRecord /\ q.len = n + 1 /\ q.ptr = key
  BY <1>1, <1>2, <1>3 DEF RingRecord
<1>6. \A i \in 1 .. n : /\ s[i] \in ObjNodes /\ s[i] # val /\ s[i] # key /\ (n > 0 => s[i] # v[n])
                        /\ v[i] \in ObjNodes /\ v[i] # val /\ v[i] # key
  <2> SUFFICES ASSUME NEW i \in 1 .. n
               PROVE  /\ s[i] \in ObjNodes /\ s[i] # val /\ s[i] # key /\ (n > 0 => s[i] # v[n])
                      /\ v[i] \in ObjNodes /\ v[i] # val /\ v[i] # key
    OBVIOUS
  <2>1. /\ s[i] \in Obj!Keys /\ v[i] \in Obj!Vals /\ n > 0 /\ v[n] \in Obj!Vals
        /\ s[i] # key /\ v[i] # val
    BY <1>1
  <2>2. s[i] \in ObjNodes /\ v[i] \in ObjNodes
    BY <2>1 DEF ObjNodes
  <2>3. s[i] # val /\ v[i] # key /\ s[i] # v[n]
    BY <2>1, KeyOrValue, Zenon
  <2> QED
    BY <2>1, <2>2, <2>3
<1>7. \A i \in 1 .. n + 1 : q.next[t[i]] = w[i]
  BY <1>1, <1>3, <1>4, <1>6
<1>8. ASSUME NEW i \in 1 .. n + 1
      PROVE  q.next[w[i]] = t[Place(n + 1, i + 1)]
  <2>1. CASE i = n + 1
    <3>1. Place(n + 1, i + 1) = 1 /\ w[i] = val
      BY <1>1, <1>4, <2>1 DEF Place
    <3>2. t[1] = IF n > 0 THEN s[1] ELSE key
      BY <1>1, <1>4
    <3> QED
      BY <1>3, <3>1, <3>2
  <2>2. CASE i = n
    <3>1. Place(n + 1, i + 1) = n + 1 /\ w[i] = v[n] /\ n > 0 /\ t[n + 1] = key /\ n \in 1 .. n
      BY <1>1, <1>4, <2>2 DEF Place
    <3> QED
      BY <1>3, <1>6, <3>1
  <2>3. CASE i # n + 1 /\ i # n
    <3>1. /\ Place(n + 1, i + 1) = i + 1 /\ Place(n, i + 1) = i + 1 /\ w[i] = v[i]
          /\ t[i + 1] = s[i + 1] /\ i \in 1 .. n /\ n \in 1 .. n
      BY <1>1, <1>4, <2>3 DEF Place
    <3>2. v[i] # v[n] /\ v[i] \in ObjNodes /\ v[i] # val /\ v[i] # key
      BY <1>1, <1>6, <2>3, <3>1
    <3>3. q.next[v[i]] = r.next[v[i]]
      BY <1>3, <3>2
    <3>4. r.next[v[i]] = s[Place(n, i + 1)]
      BY <1>1, <3>1
    <3> QED
      BY <3>1, <3>3, <3>4
  <2> QED
    BY <2>1, <2>2, <2>3
<1>9. ASSUME NEW i \in 1 .. n + 1, NEW j \in 1 .. n + 1
      PROVE  (t[i] = t[j] => i = j) /\ (w[i] = w[j] => i = j)
  <2>1. \A k \in 1 .. n : s[k] # key /\ v[k] # val
    OBVIOUS
  <2>2. CASE i = n + 1 /\ j = n + 1
    BY <2>2
  <2>3. CASE i = n + 1 /\ j # n + 1
    <3>1. j \in 1 .. n
      BY <1>1, <2>3
    <3> QED
      BY <1>4, <2>1, <2>3, <3>1
  <2>4. CASE i # n + 1 /\ j = n + 1
    <3>1. i \in 1 .. n
      BY <1>1, <2>4
    <3> QED
      BY <1>4, <2>1, <2>4, <3>1
  <2>5. CASE i # n + 1 /\ j # n + 1
    <3>1. i \in 1 .. n /\ j \in 1 .. n
      BY <1>1, <2>5
    <3> QED
      BY <1>1, <1>4, <2>5, <3>1
  <2> QED
    BY <2>2, <2>3, <2>4, <2>5
<1>10. ObjRing(t, w, q)
  <2>1. t \in [1 .. q.len -> Obj!Keys] /\ w \in [1 .. q.len -> Obj!Vals]
    BY <1>4, <1>5
  <2>2. \A i, j \in 1 .. q.len : t[i] = t[j] => i = j
    BY <1>5, <1>9
  <2>3. \A i, j \in 1 .. q.len : w[i] = w[j] => i = j
    BY <1>5, <1>9
  <2>4. q.len > 0 => q.ptr = t[q.len]
    BY <1>1, <1>4, <1>5
  <2>5. \A i \in 1 .. q.len : q.next[t[i]] = w[i]
    BY <1>5, <1>7
  <2>6. \A i \in 1 .. q.len : q.next[w[i]] = t[Place(q.len, i + 1)]
    BY <1>5, <1>8
  <2> QED
    BY <1>5, <2>1, <2>2, <2>3, <2>4, <2>5, <2>6, ObjRingIs, Zenon
<1> QED
  BY <1>10 DEF t, w, q

\* Another key as the last one turns keys and values.
LEMMA TurnedObject ==
    ASSUME NEW s, NEW v, NEW r, ObjRing(s, v, r), NEW idx \in 0 .. r.len - 1,
           NEW q, q = [len |-> r.len, ptr |-> s[Place(r.len, idx)], next |-> r.next]
    PROVE  ObjRing(Turned(s, r.len, idx), Turned(v, r.len, idx), q)
<1> DEFINE n == r.len
           t == Turned(s, n, idx)
           w == Turned(v, n, idx)
<1>1. /\ n \in Nat /\ r.next \in [ObjNodes -> ObjNodes \cup {0}]
      /\ s \in [1 .. n -> Obj!Keys] /\ v \in [1 .. n -> Obj!Vals]
      /\ \A i, j \in 1 .. n : v[i] = v[j] => i = j
      /\ \A i \in 1 .. n : r.next[s[i]] = v[i]
  BY ObjRingFacts
<1>2. Place(n, idx) \in 1 .. n
  BY <1>1 DEF Place
<1>3. q.len = n /\ q.next = r.next /\ q.ptr = s[Place(n, idx)] /\ q \in RingRecord
  BY <1>1, <1>2 DEF RingRecord, ObjNodes
<1>4. Ring(Obj!Keys, t, n, s[Place(n, idx)], KeyLinks(r))
  <2>1. Ring(Obj!Keys, s, n, r.ptr, KeyLinks(r))
    BY DEF ObjRing
  <2> QED
    BY <2>1, TurnedRing
<1>5. KeyLinks(q) = KeyLinks(r)
  BY <1>3 DEF KeyLinks
<1>6. w \in [1 .. n -> Obj!Vals]
  BY <1>1 DEF Turned
<1>7. ASSUME NEW i \in 1 .. n, NEW j \in 1 .. n, w[i] = w[j]
      PROVE  i = j
  <2> DEFINE at(x) == IF x <= n - idx THEN x + idx ELSE x - (n - idx)
  <2>1. \A x \in 1 .. n : w[x] = v[at(x)] /\ at(x) \in 1 .. n
    BY <1>1 DEF Turned
  <2> HIDE DEF w, at
  <2>2. at(i) = at(j)
    BY <1>1, <1>7, <2>1
  <2> USE DEF at
  <2> QED
    BY <1>1, <2>2
<1>8. \A i \in 1 .. n : r.next[t[i]] = w[i]
  BY <1>1 DEF Turned
<1> HIDE DEF t, w
<1> QED
  BY <1>3, <1>4, <1>5, <1>6, <1>7, <1>8 DEF ObjRing, t, w

\* Linking the value of place idx past a pair takes this out.
LEMMA CutObject ==
    ASSUME NEW s, NEW v, NEW r, ObjRing(s, v, r), NEW idx \in 0 .. r.len - 1, NEW q,
           q = [len |-> r.len - 1,
                ptr |-> IF idx + 1 = r.len THEN s[Place(r.len, idx)] ELSE r.ptr,
                next |-> [r.next EXCEPT ![v[Place(r.len, idx)]] = s[Place(r.len, idx + 2)]]]
    PROVE  ObjRing(Cut(s, r.len, idx, 1), Cut(v, r.len, idx, 1), q)
<1> DEFINE n == r.len
           t == Cut(s, n, idx, 1)
           w == Cut(v, n, idx, 1)
           prev == Place(n, idx)
           behind == Place(n, idx + 2)
<1>1. /\ n \in Nat /\ r.next \in [ObjNodes -> ObjNodes \cup {0}] /\ r.ptr \in ObjNodes \cup {0}
      /\ s \in [1 .. n -> Obj!Keys] /\ v \in [1 .. n -> Obj!Vals]
      /\ \A i, j \in 1 .. n : v[i] = v[j] => i = j
      /\ \A i \in 1 .. n : r.next[s[i]] = v[i]
  BY ObjRingFacts
<1>2. prev \in 1 .. n /\ behind \in 1 .. n
  BY <1>1 DEF Place
<1>3. /\ s[prev] \in Obj!Keys /\ v[prev] \in Obj!Vals
      /\ s[prev] \in ObjNodes /\ v[prev] \in ObjNodes /\ s[behind] \in ObjNodes
  BY <1>1, <1>2 DEF ObjNodes
<1>4. /\ q.len = n - 1 /\ q.next \in [ObjNodes -> ObjNodes \cup {0}]
      /\ q.ptr = IF idx + 1 = n THEN s[prev] ELSE r.ptr
      /\ \A x \in ObjNodes : q.next[x] = IF x = v[prev] THEN s[behind] ELSE r.next[x]
  BY <1>1, <1>3
<1>5. q \in RingRecord
  BY <1>1, <1>3, <1>4 DEF RingRecord
<1>6. \A i \in 1 .. n : /\ s[i] \in Obj!Keys /\ v[i] \in Obj!Vals
                        /\ s[i] \in ObjNodes /\ v[i] \in ObjNodes /\ s[i] # v[prev]
  <2> SUFFICES ASSUME NEW i \in 1 .. n
               PROVE  /\ s[i] \in Obj!Keys /\ v[i] \in Obj!Vals
                      /\ s[i] \in ObjNodes /\ v[i] \in ObjNodes /\ s[i] # v[prev]
    OBVIOUS
  <2>1. s[i] \in Obj!Keys /\ v[i] \in Obj!Vals
    BY <1>1
  <2> QED
    BY <1>3, <2>1, KeyOrValue
<1>7. w \in [1 .. n - 1 -> Obj!Vals] /\ t \in [1 .. n - 1 -> Obj!Keys]
  BY <1>1 DEF Cut
<1>8. ASSUME NEW i \in 1 .. n - 1, NEW j \in 1 .. n - 1, w[i] = w[j]
      PROVE  i = j
  BY <1>1, <1>8 DEF Cut
<1>9. \A i \in 1 .. n - 1 : \E j \in 1 .. n : t[i] = s[j] /\ w[i] = v[j]
  <2> SUFFICES ASSUME NEW i \in 1 .. n - 1
               PROVE  \E j \in 1 .. n : t[i] = s[j] /\ w[i] = v[j]
    OBVIOUS
  <2>1. CASE i <= idx
    <3>1. i \in 1 .. n /\ t[i] = s[i] /\ w[i] = v[i]
      BY <1>1, <2>1 DEF Cut
    <3> QED
      BY <3>1
  <2>2. CASE ~(i <= idx)
    <3>1. i + 1 \in 1 .. n /\ t[i] = s[i + 1] /\ w[i] = v[i + 1]
      BY <1>1, <2>2 DEF Cut
    <3> QED
      BY <3>1
  <2> QED
    BY <2>1, <2>2
<1>10. \A i \in 1 .. n - 1 : q.next[t[i]] = w[i]
  BY <1>1, <1>4, <1>6, <1>9
<1>11. Ring(Obj!Keys, t, n - 1, IF idx + 1 = n THEN s[prev] ELSE r.ptr, KeyLinks(q))
  <2>1. CASE n = 1
    BY <1>7, <2>1 DEF Ring, Closes
  <2>2. CASE n # 1
    <3>1. \A i \in 1 .. n : KeyLinks(q)[s[i]] = IF i = Place(n, idx) THEN s[Place(n, idx + 1 + 1)]
                                                ELSE KeyLinks(r)[s[i]]
      <4> SUFFICES ASSUME NEW i \in 1 .. n
                   PROVE  KeyLinks(q)[s[i]] = IF i = prev THEN s[Place(n, idx + 1 + 1)]
                                              ELSE KeyLinks(r)[s[i]]
        OBVIOUS
      <4>1. idx + 1 + 1 = idx + 2
        OBVIOUS
      <4>2. KeyLinks(q)[s[i]] = q.next[q.next[s[i]]] /\ KeyLinks(r)[s[i]] = r.next[r.next[s[i]]]
        BY <1>6 DEF KeyLinks
      <4>3. q.next[s[i]] = v[i] /\ r.next[s[i]] = v[i]
        BY <1>1, <1>4, <1>6
      <4>4. v[i] = v[prev] <=> i = prev
        BY <1>1, <1>2
      <4>5. q.next[v[i]] = IF i = prev THEN s[behind] ELSE r.next[v[i]]
        BY <1>4, <1>6, <4>4
      <4> QED
        BY <4>1, <4>2, <4>3, <4>5
    <3>2. 1 \in 1 .. n - 1 /\ idx \in 0 .. n - 1
      BY <1>1, <2>2
    <3>3. Ring(Obj!Keys, s, n, r.ptr, KeyLinks(r))
      BY DEF ObjRing
    <3> QED
      BY <3>1, <3>2, <3>3, CutLinks
  <2> QED
    BY <2>1, <2>2
<1> HIDE DEF t, w, prev, behind
<1> QED
  BY <1>4, <1>5, <1>7, <1>8, <1>10, <1>11 DEF ObjRing, t, w

\* A key that gets another value keeps its place.
LEMMA GivenObject ==
    ASSUME NEW s, NEW v, NEW r, ObjRing(s, v, r), NEW j \in 1 .. r.len, NEW val \in Obj!Vals,
           \A i \in 1 .. r.len : v[i] # val
    PROVE  ObjRing(s, [v EXCEPT ![j] = val], Obj!Given(r, s[j], val))
<1> DEFINE n == r.len
           w == [v EXCEPT ![j] = val]
           q == Obj!Given(r, s[j], val)
<1>1. /\ n \in Nat /\ r.next \in [ObjNodes -> ObjNodes \cup {0}] /\ r.ptr \in ObjNodes \cup {0}
      /\ s \in [1 .. n -> Obj!Keys] /\ v \in [1 .. n -> Obj!Vals]
      /\ \A i, k \in 1 .. n : s[i] = s[k] => i = k
      /\ \A i, k \in 1 .. n : v[i] = v[k] => i = k
      /\ n > 0 => r.ptr = s[n]
      /\ \A i \in 1 .. n : r.next[s[i]] = v[i]
      /\ \A i \in 1 .. n : r.next[v[i]] = s[Place(n, i + 1)]
  BY ObjRingFacts
<1>2. \A i \in 1 .. n : /\ Place(n, i + 1) \in 1 .. n /\ s[i] \in ObjNodes /\ v[i] \in ObjNodes
                        /\ s[i] # val /\ s[i] # v[i] /\ val \in ObjNodes
                        /\ \A k \in 1 .. n : v[k] # s[i]
  <2> SUFFICES ASSUME NEW i \in 1 .. n
               PROVE  /\ Place(n, i + 1) \in 1 .. n /\ s[i] \in ObjNodes /\ v[i] \in ObjNodes
                      /\ s[i] # val /\ s[i] # v[i] /\ val \in ObjNodes
                      /\ \A k \in 1 .. n : v[k] # s[i]
    OBVIOUS
  <2>1. s[i] \in Obj!Keys /\ \A k \in 1 .. n : v[k] \in Obj!Vals
    BY <1>1
  <2>2. s[i] \in ObjNodes /\ s[i] # val /\ val \in ObjNodes
    BY <2>1, KeyOrValue
  <2>3. \A k \in 1 .. n : v[k] # s[i] /\ v[k] \in ObjNodes
    BY <2>1, KeyOrValue
  <2>4. Place(n, i + 1) \in 1 .. n
    BY <1>1 DEF Place
  <2> QED
    BY <2>2, <2>3, <2>4
<1>3. r.next[r.next[s[j]]] = s[Place(n, j + 1)] /\ s[Place(n, j + 1)] \in ObjNodes
  BY <1>1, <1>2
<1>4. q = [len |-> n, ptr |-> r.ptr,
           next |-> [r.next EXCEPT ![val] = s[Place(n, j + 1)], ![s[j]] = val]]
  BY <1>3 DEF Obj!Given, Obj!NextKey
<1> HIDE DEF q
<1>5. /\ q.len = n /\ q.ptr = r.ptr /\ q.next \in [ObjNodes -> ObjNodes \cup {0}]
      /\ \A x \in ObjNodes : q.next[x] = IF x = s[j] THEN val
                                         ELSE IF x = val THEN s[Place(n, j + 1)] ELSE r.next[x]
  BY <1>1, <1>2, <1>3, <1>4
<1>6. q \in RingRecord
  BY <1>1, <1>4, <1>5 DEF RingRecord
<1>7. w \in [1 .. n -> Obj!Vals] /\ \A i \in 1 .. n : w[i] = IF i = j THEN val ELSE v[i]
  BY <1>1
<1> HIDE DEF w
<1>8. \A i, k \in 1 .. n : w[i] = w[k] => i = k
  BY <1>1, <1>7
<1>9. ASSUME NEW i \in 1 .. n
      PROVE  q.next[s[i]] = w[i] /\ q.next[w[i]] = s[Place(n, i + 1)]
  <2>1. s[i] = s[j] <=> i = j
    BY <1>1
  <2>2. q.next[s[i]] = w[i]
    BY <1>1, <1>2, <1>5, <1>7, <2>1
  <2>3. q.next[w[i]] = s[Place(n, i + 1)]
    <3>1. CASE i = j
      BY <1>2, <1>5, <1>7, <3>1
    <3>2. CASE i # j
      <4>1. w[i] = v[i] /\ v[i] \in ObjNodes /\ v[i] # s[j] /\ v[i] # val
        BY <1>2, <1>7, <3>2
      <4> QED
        BY <1>1, <1>5, <4>1
    <3> QED
      BY <3>1, <3>2
  <2> QED
    BY <2>2, <2>3
<1>10. ObjRing(s, w, q)
  <2>1. s \in [1 .. q.len -> Obj!Keys] /\ w \in [1 .. q.len -> Obj!Vals]
    BY <1>1, <1>5, <1>7
  <2>2. \A i, k \in 1 .. q.len : s[i] = s[k] => i = k
    BY <1>1, <1>5
  <2>3. \A i, k \in 1 .. q.len : w[i] = w[k] => i = k
    BY <1>5, <1>8
  <2>4. q.len > 0 => q.ptr = s[q.len]
    BY <1>1, <1>5
  <2>5. \A i \in 1 .. q.len : q.next[s[i]] = w[i]
    BY <1>5, <1>9
  <2>6. \A i \in 1 .. q.len : q.next[w[i]] = s[Place(q.len, i + 1)]
    BY <1>5, <1>9
  <2> QED
    BY <1>6, <2>1, <2>2, <2>3, <2>4, <2>5, <2>6, ObjRingIs, Zenon
<1> QED
  BY <1>10 DEF w, q

-----------------------------------------------------------------------------
(***************************************************************************)
(* The loops over the keys of an object: c holds the places that were kept *)
(* of the first k, in order, and the ring is theirs and that of the rest   *)
(***************************************************************************)

\* What holds at the beginning of an interval and goes on from each index to the next
\* holds on all of it.
LEMMA IntervalInduction ==
    ASSUME NEW S, NEW n \in Nat, 0 \in S, \A k \in 1 .. n : k - 1 \in S => k \in S
    PROVE  0 .. n \subseteq S
<1> DEFINE Out == {k \in 0 .. n : k \notin S}
<1>1. SUFFICES ASSUME Out # {} PROVE FALSE
  OBVIOUS
<1>2. PICK k \in Out : \A j \in Out : k <= j
  <2>1. Out \subseteq Nat
    OBVIOUS
  <2> HIDE DEF Out
  <2> QED
    BY <1>1, <2>1, LeastExists
<1>3. k \in 1 .. n /\ k - 1 \in 0 .. n /\ ~(k <= k - 1) /\ k \notin S
  BY <1>2
<1>4. k - 1 \in S
  BY <1>2, <1>3
<1> QED
  BY <1>3, <1>4

\* Going on with place k: it is kept, or it is not.
KeepOrNot(S, f, k) == IF k \in S THEN Append(f[k - 1], k) ELSE f[k - 1]
Keeps(S, f, n) == f = [i \in 0 .. n |-> IF i = 0 THEN << >> ELSE KeepOrNot(S, f, i)]

\* The recursive function of InOrder exists.
LEMMA KeepsExists ==
    ASSUME NEW S, NEW n \in Nat
    PROVE  \E f : Keeps(S, f, n)
<1> DEFINE T == {k \in 0 .. n : \E f : Keeps(S, f, k)}
<1>1. 0 \in T
  <2> DEFINE f == [i \in 0 .. 0 |-> << >>]
  <2>1. f = [i \in 0 .. 0 |-> IF i = 0 THEN << >> ELSE KeepOrNot(S, f, i)]
    OBVIOUS
  <2> HIDE DEF f
  <2>2. Keeps(S, f, 0)
    BY <2>1 DEF Keeps
  <2> QED
    BY <2>2
<1>2. ASSUME NEW k \in 1 .. n, k - 1 \in T
      PROVE  k \in T
  <2>1. PICK f : Keeps(S, f, k - 1)
    BY <1>2
  <2>2. PICK a : a = KeepOrNot(S, f, k)
    OBVIOUS
  <2> DEFINE g == [i \in 0 .. k |-> IF i = k THEN a ELSE f[i]]
  <2>3. \A i \in 0 .. k : g[i] = IF i = k THEN a ELSE f[i]
    OBVIOUS
  <2>4. \A i \in 0 .. k - 1 : f[i] = IF i = 0 THEN << >> ELSE KeepOrNot(S, f, i)
    BY <2>1, Zenon DEF Keeps
  <2>5. ASSUME NEW i \in 0 .. k
        PROVE  g[i] = IF i = 0 THEN << >> ELSE KeepOrNot(S, g, i)
    <3> HIDE DEF g
    <3>1. CASE i = 0
      BY <2>3, <2>4, <3>1
    <3>2. CASE i # 0
      <4>1. i - 1 \in 0 .. k /\ i - 1 # k /\ i # 0
        BY <3>2
      <4>2. g[i - 1] = f[i - 1]
        BY <2>3, <4>1
      <4>3. KeepOrNot(S, g, i) = KeepOrNot(S, f, i)
        BY <4>2, Zenon DEF KeepOrNot
      <4>4. CASE i = k
        BY <2>2, <2>3, <4>1, <4>3, <4>4, Zenon
      <4>5. CASE i # k
        <5>1. i \in 0 .. k - 1
          BY <4>5
        <5> QED
          BY <2>3, <2>4, <4>1, <4>3, <4>5, <5>1, Zenon
      <4> QED
        BY <4>4, <4>5
    <3> QED
      BY <3>1, <3>2
  <2>6. g = [i \in 0 .. k |-> g[i]]
    OBVIOUS
  <2> HIDE DEF g
  <2>7. g = [i \in 0 .. k |-> IF i = 0 THEN << >> ELSE KeepOrNot(S, g, i)]
    BY <2>5, <2>6, Zenon
  <2>8. Keeps(S, g, k) /\ k \in 0 .. n
    BY <2>7 DEF Keeps
  <2> QED
    BY <2>8
<1>3. n \in 0 .. n
  OBVIOUS
<1>4. 0 .. n \subseteq T
  <2> HIDE DEF T
  <2> QED
    BY <1>1, <1>2, IntervalInduction
<1> QED
  BY <1>3, <1>4

\* The places in order, from one to the next
LEMMA InOrderNext ==
    ASSUME NEW S, NEW k \in Nat
    PROVE  /\ Obj!AsMap!InOrder(S, 0) = << >>
           /\ k > 0 => Obj!AsMap!InOrder(S, k) = IF k \in S
                                                 THEN Append(Obj!AsMap!InOrder(S, k - 1), k)
                                                 ELSE Obj!AsMap!InOrder(S, k - 1)
<1> DEFINE UpTo(n) == CHOOSE f : Keeps(S, f, n)
<1>1. ASSUME NEW n \in Nat
      PROVE  /\ Obj!AsMap!InOrder(S, n) = UpTo(n)[n]
             /\ \A i \in 0 .. n : UpTo(n)[i] = IF i = 0 THEN << >> ELSE KeepOrNot(S, UpTo(n), i)
  <2>1. PICK g : g = UpTo(n)
    OBVIOUS
  <2>2. Keeps(S, g, n)
    BY <2>1, KeepsExists, Zenon
  <2>3. \A i \in 0 .. n : g[i] = IF i = 0 THEN << >> ELSE KeepOrNot(S, g, i)
    BY <2>2, Zenon DEF Keeps
  <2>4. Obj!AsMap!InOrder(S, n) = UpTo(n)[n]
    BY Zenon DEF Obj!AsMap!InOrder, Keeps, KeepOrNot
  <2> HIDE DEF UpTo
  <2> QED
    BY <2>1, <2>3, <2>4
<1> HIDE DEF UpTo
<1>2. Obj!AsMap!InOrder(S, 0) = << >>
  <2>1. 0 \in 0 .. 0
    OBVIOUS
  <2> QED
    BY <1>1, <2>1, Zenon
<1>3. ASSUME k > 0
      PROVE  Obj!AsMap!InOrder(S, k) = IF k \in S THEN Append(Obj!AsMap!InOrder(S, k - 1), k)
                                       ELSE Obj!AsMap!InOrder(S, k - 1)
  <2> DEFINE f == UpTo(k)
             g == UpTo(k - 1)
  <2>1. k - 1 \in Nat /\ k \in 0 .. k /\ k # 0 /\ k - 1 \in 0 .. k - 1 /\ 0 \in 0 .. k /\ 0 \in 0 .. k - 1
    BY <1>3
  <2>2. \A i \in 0 .. k : f[i] = IF i = 0 THEN << >> ELSE KeepOrNot(S, f, i)
    BY <1>1, Zenon
  <2>3. \A i \in 0 .. k - 1 : g[i] = IF i = 0 THEN << >> ELSE KeepOrNot(S, g, i)
    BY <1>1, <2>1, Zenon
  <2>4. Obj!AsMap!InOrder(S, k) = f[k] /\ Obj!AsMap!InOrder(S, k - 1) = g[k - 1]
    BY <1>1, <2>1, Zenon
  <2> HIDE DEF f, g
  <2>5. f[k - 1] = g[k - 1]
    <3>1. f[0] = g[0]
      BY <2>1, <2>2, <2>3
    <3>2. ASSUME NEW i \in 0 + 1 .. k - 1, f[i - 1] = g[i - 1]
          PROVE  f[i] = g[i]
      <4>1. i \in 0 .. k /\ i \in 0 .. k - 1 /\ i # 0
        OBVIOUS
      <4>2. KeepOrNot(S, f, i) = KeepOrNot(S, g, i)
        BY <3>2, Zenon DEF KeepOrNot
      <4> QED
        BY <2>2, <2>3, <4>1, <4>2, Zenon
    <3>3. GoOnAlike(f, g, 0, k - 1)
      BY <3>2 DEF GoOnAlike
    <3>4. 0 \in Nat
      OBVIOUS
    <3>5. Alike(f, g, 0, k - 1)
      BY <2>1, <3>1, <3>3, <3>4, AgreeOn, Zenon
    <3> QED
      BY <2>1, <3>5, Zenon DEF Alike
  <2>6. f[k] = KeepOrNot(S, f, k)
    BY <2>1, <2>2, Zenon
  <2> QED
    BY <2>4, <2>5, <2>6, Zenon DEF KeepOrNot
<1> QED
  BY <1>2, <1>3

\* The kept places are among the first k.
LEMMA InOrderIs ==
    ASSUME NEW S, NEW n \in Nat, NEW k \in 0 .. n
    PROVE  Obj!AsMap!InOrder(S, k) \in Seq(1 .. k) /\ Len(Obj!AsMap!InOrder(S, k)) <= k
<1> DEFINE c(j) == Obj!AsMap!InOrder(S, j)
           T == {j \in 0 .. n : c(j) \in Seq(1 .. j) /\ Len(c(j)) <= j}
<1>1. 0 \in T
  <2>1. c(0) = << >>
    BY InOrderNext
  <2>2. << >> \in Seq(1 .. 0) /\ Len(<< >>) <= 0
    OBVIOUS
  <2>3. 0 \in 0 .. n
    OBVIOUS
  <2>4. c(0) \in Seq(1 .. 0) /\ Len(c(0)) <= 0 /\ 0 \in 0 .. n
    BY <2>1, <2>2, <2>3, Zenon
  <2> HIDE DEF c
  <2> QED
    BY <2>4, Zenon
<1>2. ASSUME NEW j \in 1 .. n, j - 1 \in T
      PROVE  j \in T
  <2>1. j \in Nat /\ j > 0
    OBVIOUS
  <2>2. c(j) = IF j \in S THEN Append(c(j - 1), j) ELSE c(j - 1)
    BY <2>1, InOrderNext
  <2>3. PICK d : d = c(j - 1)
    OBVIOUS
  <2> HIDE DEF c
  <2>4. d \in Seq(1 .. j - 1) /\ Len(d) <= j - 1
    BY <1>2, <2>3
  <2>5. d \in Seq(1 .. j) /\ Len(d) \in Nat
    BY <2>4
  <2>6. Append(d, j) \in Seq(1 .. j) /\ Len(Append(d, j)) = Len(d) + 1
    BY <2>5
  <2>7. PICK e : e = c(j)
    OBVIOUS
  <2>8. e = IF j \in S THEN Append(d, j) ELSE d
    BY <2>2, <2>3, <2>7, Zenon
  <2>9. e \in Seq(1 .. j) /\ Len(e) <= j /\ j \in 0 .. n
    <3>1. Len(Append(d, j)) <= j /\ Len(d) <= j /\ j \in 0 .. n
      BY <2>4, <2>5, <2>6
    <3>2. CASE j \in S
      <4>1. e = Append(d, j)
        BY <2>8, <3>2
      <4> QED
        BY <2>6, <3>1, <4>1, Zenon
    <3>3. CASE j \notin S
      <4>1. e = d
        BY <2>8, <3>3
      <4> QED
        BY <2>5, <3>1, <4>1, Zenon
    <3> QED
      BY <3>2, <3>3
  <2> QED
    BY <2>7, <2>9, Zenon
<1>3. 0 .. n \subseteq T
  <2> HIDE DEF T
  <2> QED
    BY <1>1, <1>2, IntervalInduction
<1> QED
  BY <1>3

\* What a ring of n places holds after the first k of s: the kept ones, and the rest
Merged(s, c, k, n) ==
    [j \in 1 .. Len(c) + (n - k) |-> IF j <= Len(c) THEN s[c[j]] ELSE s[j - Len(c) + k]]

\* One step at place k, from what was kept of those before it: the place is kept, or cut,
\* or gets another element.
StepsOn(s, n, k, c, x) ==
    /\ Len(c) \in Nat /\ Len(c) + (n - (k - 1)) \in Nat
    /\ Len(c) \in 0 .. (Len(c) + (n - (k - 1))) - 1
    /\ Merged(s, c, k - 1, n)[Len(c) + 1] = s[k]
    /\ Merged(s, Append(c, k), k, n) = Merged(s, c, k - 1, n)
    /\ Merged(s, c, k, n) = Cut(Merged(s, c, k - 1, n), Len(c) + (n - (k - 1)), Len(c), 1)
    /\ s = [i \in 1 .. n |-> s[i]] =>
          Merged([s EXCEPT ![k] = x], c, k - 1, n)
          = [Merged(s, c, k - 1, n) EXCEPT ![Len(c) + 1] = x]

\* What one step of a loop does to the ring
LEMMA MergedStep ==
    ASSUME NEW s, NEW n \in Nat, NEW k \in 1 .. n, NEW c \in Seq(1 .. k - 1), NEW x
    PROVE  StepsOn(s, n, k, c, x)
<1> DEFINE m == Len(c)
           N == m + (n - (k - 1))
           d == Append(c, k)
<1>1. m \in Nat /\ \A j \in 1 .. m : c[j] \in 1 .. k - 1
  OBVIOUS
<1>2. Len(d) = m + 1 /\ \A j \in 1 .. m + 1 : d[j] = IF j = m + 1 THEN k ELSE c[j]
  OBVIOUS
<1> HIDE DEF d, m
<1>3. N \in Nat /\ m \in 0 .. N - 1 /\ m + 1 \in 1 .. N /\ m + (n - k) = N - 1
  BY <1>1
<1>4. /\ Merged(s, c, k - 1, n) = [j \in 1 .. N |-> IF j <= m THEN s[c[j]] ELSE s[j - m + (k - 1)]]
      /\ Merged(s, c, k, n) = [j \in 1 .. m + (n - k) |-> IF j <= m THEN s[c[j]] ELSE s[j - m + k]]
      /\ Merged(s, d, k, n) = [j \in 1 .. (m + 1) + (n - k) |->
                                  IF j <= m + 1 THEN s[d[j]] ELSE s[j - (m + 1) + k]]
  BY <1>2 DEF Merged, m
<1>5. Merged(s, c, k - 1, n)[m + 1] = s[k]
  <2>1. ~(m + 1 <= m) /\ (m + 1) - m + (k - 1) = k
    BY <1>1
  <2> QED
    BY <1>3, <1>4, <2>1
<1>6. Merged(s, d, k, n) = Merged(s, c, k - 1, n)
  <2>1. (m + 1) + (n - k) = N
    BY <1>1
  <2>2. ASSUME NEW j \in 1 .. N
        PROVE  (IF j <= m + 1 THEN s[d[j]] ELSE s[j - (m + 1) + k])
               = IF j <= m THEN s[c[j]] ELSE s[j - m + (k - 1)]
    <3>1. CASE j <= m
      <4>1. j \in 1 .. m + 1 /\ j # m + 1 /\ j <= m + 1
        BY <1>1, <3>1
      <4> QED
        BY <1>2, <3>1, <4>1
    <3>2. CASE j = m + 1
      <4>1. j \in 1 .. m + 1 /\ ~(j <= m) /\ j <= m + 1 /\ j - m + (k - 1) = k
        BY <1>1, <3>2
      <4> QED
        BY <1>2, <3>2, <4>1
    <3>3. CASE j > m + 1
      <4>1. ~(j <= m) /\ ~(j <= m + 1) /\ j - (m + 1) + k = j - m + (k - 1)
        BY <1>1, <3>3
      <4> QED
        BY <4>1
    <3>4. j \in Int
      OBVIOUS
    <3> QED
      BY <1>1, <3>1, <3>2, <3>3, <3>4
  <2> HIDE DEF N
  <2> QED
    BY <1>4, <2>1, <2>2, Zenon
<1>7. Merged(s, c, k, n) = Cut(Merged(s, c, k - 1, n), N, m, 1)
  <2> DEFINE t == Merged(s, c, k - 1, n)
  <2>1. \A j \in 1 .. N : t[j] = IF j <= m THEN s[c[j]] ELSE s[j - m + (k - 1)]
    BY <1>4
  <2> HIDE DEF t
  <2>2. ASSUME NEW j \in 1 .. N - 1
        PROVE  (IF j <= m THEN s[c[j]] ELSE s[j - m + k]) = IF j <= m THEN t[j] ELSE t[j + 1]
    <3>1. CASE j <= m
      <4>1. j \in 1 .. N
        BY <1>3
      <4> QED
        BY <2>1, <3>1, <4>1
    <3>2. CASE ~(j <= m)
      <4>1. j + 1 \in 1 .. N /\ ~(j + 1 <= m) /\ (j + 1) - m + (k - 1) = j - m + k
        BY <1>1, <1>3, <3>2
      <4>2. t[j + 1] = s[(j + 1) - m + (k - 1)]
        BY <2>1, <4>1, Zenon
      <4> QED
        BY <3>2, <4>1, <4>2
    <3> QED
      BY <3>1, <3>2
  <2> HIDE DEF N
  <2> QED
    BY <1>3, <1>4, <2>2, Zenon DEF Cut, t
<1>8. ASSUME s = [i \in 1 .. n |-> s[i]]
      PROVE  Merged([s EXCEPT ![k] = x], c, k - 1, n) = [Merged(s, c, k - 1, n) EXCEPT ![m + 1] = x]
  <2> DEFINE u == [s EXCEPT ![k] = x]
             t == Merged(s, c, k - 1, n)
  <2>1. \A i \in 1 .. n : u[i] = IF i = k THEN x ELSE s[i]
    BY <1>8
  <2>2. t = [j \in 1 .. N |-> t[j]] /\ \A j \in 1 .. N : t[j] = IF j <= m THEN s[c[j]] ELSE s[j - m + (k - 1)]
    BY <1>4
  <2> HIDE DEF t, u
  <2>3. [t EXCEPT ![m + 1] = x] = [j \in 1 .. N |-> IF j = m + 1 THEN x ELSE t[j]]
    <3> HIDE DEF N
    <3> QED
      BY <1>3, <2>2
  <2>4. Merged(u, c, k - 1, n) = [j \in 1 .. N |-> IF j <= m THEN u[c[j]] ELSE u[j - m + (k - 1)]]
    BY DEF Merged, m
  <2>5. ASSUME NEW j \in 1 .. N
        PROVE  (IF j <= m THEN u[c[j]] ELSE u[j - m + (k - 1)]) = IF j = m + 1 THEN x ELSE t[j]
    <3>1. CASE j <= m
      <4>1. j \in 1 .. m /\ j # m + 1
        BY <1>1, <3>1
      <4>2. c[j] \in 1 .. n /\ c[j] # k
        BY <1>1, <4>1
      <4> QED
        BY <2>1, <2>2, <3>1, <4>1, <4>2
    <3>2. CASE ~(j <= m)
      <4>1. j - m + (k - 1) \in 1 .. n /\ (j - m + (k - 1) = k <=> j = m + 1)
        BY <1>1, <3>2
      <4>2. u[j - m + (k - 1)] = IF j - m + (k - 1) = k THEN x ELSE s[j - m + (k - 1)]
        BY <2>1, <4>1, Zenon
      <4>3. t[j] = s[j - m + (k - 1)]
        BY <2>2, <3>2
      <4> QED
        BY <3>2, <4>1, <4>2, <4>3
    <3> QED
      BY <3>1, <3>2
  <2> HIDE DEF N
  <2> QED
    BY <2>3, <2>4, <2>5, Zenon DEF t, u
<1> QED
  BY <1>1, <1>3, <1>5, <1>6, <1>7, <1>8 DEF m, d, N, StepsOn

\* Before the first place nothing was kept.
LEMMA MergedFirst ==
    ASSUME NEW s, NEW n \in Nat, s = [i \in 1 .. n |-> s[i]]
    PROVE  Merged(s, << >>, 0, n) = s
<1>1. Merged(s, << >>, 0, n) = [j \in 1 .. 0 + (n - 0) |-> IF j <= 0 THEN s[<< >>[j]] ELSE s[j - 0 + 0]]
  BY DEF Merged
<1>2. 0 + (n - 0) = n /\ \A j \in 1 .. n : ~(j <= 0) /\ j - 0 + 0 = j
  OBVIOUS
<1>3. \A j \in 1 .. n : (IF j <= 0 THEN s[<< >>[j]] ELSE s[j - 0 + 0]) = s[j]
  BY <1>2
<1> QED
  BY <1>1, <1>2, <1>3, Zenon

\* After the last place nothing is left.
LEMMA MergedLast ==
    ASSUME NEW s, NEW n \in Nat, NEW c \in Seq(1 .. n)
    PROVE  Merged(s, c, n, n) = [j \in 1 .. Len(c) |-> s[c[j]]]
<1>1. PICK m : m = Len(c)
  OBVIOUS
<1>2. m \in Nat /\ m + (n - n) = m /\ \A j \in 1 .. m : j <= m
  BY <1>1
<1>3. Merged(s, c, n, n) = [j \in 1 .. m + (n - n) |-> IF j <= m THEN s[c[j]] ELSE s[j - m + n]]
  BY <1>1, Zenon DEF Merged
<1> QED
  BY <1>1, <1>2, <1>3, Zenon

\* When every place is kept, the sequence is as it was.
LEMMA MergedAll ==
    ASSUME NEW s, NEW n \in Nat, NEW c, c = [i \in 1 .. n |-> i], Len(c) = n,
           s = [i \in 1 .. n |-> s[i]]
    PROVE  Merged(s, c, n, n) = s
<1>1. n + (n - n) = n /\ \A j \in 1 .. n : j <= n /\ c[j] = j
  OBVIOUS
<1>2. Merged(s, c, n, n) = [j \in 1 .. n |-> IF j <= n THEN s[c[j]] ELSE s[j - n + n]]
  BY <1>1 DEF Merged
<1>3. \A j \in 1 .. n : (IF j <= n THEN s[c[j]] ELSE s[j - n + n]) = s[j]
  BY <1>1
<1>4. Merged(s, c, n, n) = [j \in 1 .. n |-> s[j]]
  BY <1>2, <1>3
<1> QED
  BY <1>4

\* The places next to one that is cut out are where they were.
LEMMA CutPlaces ==
    ASSUME NEW s, NEW n \in Nat, n > 1, NEW idx \in 0 .. n - 1
    PROVE  /\ Cut(s, n, idx, 1)[Place(n - 1, idx)] = s[Place(n, idx)]
           /\ Cut(s, n, idx, 1)[Place(n - 1, idx + 1)] = s[Place(n, idx + 2)]
<1>1. \A i \in 1 .. n - 1 : Cut(s, n, idx, 1)[i] = IF i <= idx THEN s[i] ELSE s[i + 1]
  BY DEF Cut
<1>2. Cut(s, n, idx, 1)[Place(n - 1, idx)] = s[Place(n, idx)]
  <2>1. CASE idx = 0
    <3>1. Place(n - 1, idx) = n - 1 /\ Place(n, idx) = n /\ (n - 1) + 1 = n
      BY <2>1 DEF Place
    <3> QED
      BY <1>1, <2>1, <3>1
  <2>2. CASE idx # 0
    <3>1. Place(n - 1, idx) = idx /\ Place(n, idx) = idx /\ idx \in 1 .. n - 1
      BY <2>2 DEF Place
    <3> QED
      BY <1>1, <3>1
  <2> QED
    BY <2>1, <2>2
<1>3. Cut(s, n, idx, 1)[Place(n - 1, idx + 1)] = s[Place(n, idx + 2)]
  <2>1. CASE idx = n - 1
    <3>1. Place(n - 1, idx + 1) = 1 /\ Place(n, idx + 2) = 1 /\ 1 <= idx
      BY <2>1 DEF Place
    <3> QED
      BY <1>1, <3>1
  <2>2. CASE idx # n - 1
    <3>1. /\ Place(n - 1, idx + 1) = idx + 1 /\ Place(n, idx + 2) = idx + 2
          /\ idx + 1 \in 1 .. n - 1 /\ ~(idx + 1 <= idx) /\ (idx + 1) + 1 = idx + 2
      BY <2>2 DEF Place
    <3> QED
      BY <1>1, <3>1
  <2> QED
    BY <2>1, <2>2
<1> QED
  BY <1>2, <1>3

Among(t, w, m, s, v, n) == \A j \in 1 .. m : \E i \in 1 .. n : t[j] = s[i] /\ w[j] = v[i]

\* What is in the ring is from s, and the values are those of the keys.
LEMMA MergedFrom ==
    ASSUME NEW s, NEW v, NEW n \in Nat, NEW k \in 0 .. n, NEW c \in Seq(1 .. k)
    PROVE  Among(Merged(s, c, k, n), Merged(v, c, k, n), Len(c) + (n - k), s, v, n)
<1> SUFFICES ASSUME NEW j \in 1 .. Len(c) + (n - k)
             PROVE  \E i \in 1 .. n : /\ Merged(s, c, k, n)[j] = s[i]
                                      /\ Merged(v, c, k, n)[j] = v[i]
  BY DEF Among
<1> DEFINE m == Len(c)
<1>1. m \in Nat /\ \A i \in 1 .. m : c[i] \in 1 .. k
  OBVIOUS
<1>2. /\ Merged(s, c, k, n)[j] = IF j <= m THEN s[c[j]] ELSE s[j - m + k]
      /\ Merged(v, c, k, n)[j] = IF j <= m THEN v[c[j]] ELSE v[j - m + k]
  BY DEF Merged
<1>3. j \in 1 .. m + (n - k)
  OBVIOUS
<1> HIDE DEF m
<1>4. CASE j <= m
  <2>1. c[j] \in 1 .. n
    BY <1>1, <1>4
  <2> QED
    BY <1>2, <1>4, <2>1
<1>5. CASE ~(j <= m)
  <2>1. j - m + k \in 1 .. n
    BY <1>1, <1>3, <1>5
  <2> QED
    BY <1>2, <1>5, <2>1
<1> QED
  BY <1>4, <1>5

ObjIter == [on : BOOLEAN, idx : Nat, max : Nat, cur : ObjNodes \cup {0},
            pre : ObjNodes \cup {0}, fresh : BOOLEAN, exact : BOOLEAN]

\* f is the place, if any, that yyjson_mut_obj_put gives the value; S are those it keeps.
PutKeeps(s, nm, val, f, S) ==
    /\ f \in 0 .. oRing.len
    /\ f # 0 => /\ val # 0 /\ oName[s[f]] = nm
                /\ \A i \in 1 .. oRing.len : oName[s[i]] = nm => f <= i
    /\ f = 0 => val = 0 \/ \A i \in 1 .. oRing.len : oName[s[i]] # nm
    /\ \A i \in 1 .. oRing.len : i \in S <=> oName[s[i]] # nm \/ i = f

Given(v, f, val, k) == IF f # 0 /\ f <= k THEN [v EXCEPT ![f] = val] ELSE v

\* The loop of yyjson_mut_obj_put after k keys
PutAfter(s, v, f, val, S, k, st) ==
    LET n == oRing.len
        c == Obj!AsMap!InOrder(S, k)
    IN  /\ ObjRing(Merged(s, c, k, n), Merged(Given(v, f, val, k), c, k, n), st.r)
        /\ st.r.len = Len(c) + (n - k)
        /\ st.it \in ObjIter /\ st.it.idx = Len(c) /\ st.it.max = st.r.len
        /\ st.r.len > 0 => st.it.cur = Merged(s, c, k, n)[Place(st.r.len, Len(c))]
        /\ st.replaced = IF f # 0 /\ f <= k THEN TRUE ELSE FALSE
\* One turn of the loop
LEMMA PutTurn ==
    ASSUME NEW s, NEW v, ObjRing(s, v, oRing), NEW nm, NEW val \in Obj!Vals \cup {0},
           \A i \in 1 .. oRing.len : v[i] # val,
           NEW f, NEW S, PutKeeps(s, nm, val, f, S), NEW k \in 1 .. oRing.len,
           NEW st, PutAfter(s, v, f, val, S, k - 1, st)
    PROVE  PutAfter(s, v, f, val, S, k, Obj!PutStep(nm, val, st))
<1> DEFINE n == oRing.len
           c == Obj!AsMap!InOrder(S, k - 1)
           d == Obj!AsMap!InOrder(S, k)
           m == Len(c)
           N == m + (n - (k - 1))
           a == Given(v, f, val, k - 1)
           M == Merged(s, c, k - 1, n)
           W == Merged(a, c, k - 1, n)
           r == st.r
           it == Obj!Advanced(st.r, st.it)
           next == Obj!PutStep(nm, val, st)
<1>1. /\ n \in Nat /\ s \in [1 .. n -> Obj!Keys] /\ v \in [1 .. n -> Obj!Vals]
      /\ s = [i \in 1 .. n |-> s[i]]
  BY ObjRingFacts
<1>2. /\ ObjRing(M, W, r) /\ r.len = N /\ st.it \in ObjIter /\ st.it.idx = m /\ st.it.max = N
      /\ N > 0 => st.it.cur = M[Place(N, m)]
      /\ st.replaced = IF f # 0 /\ f <= k - 1 THEN TRUE ELSE FALSE
  BY DEF PutAfter
<1>3. /\ c \in Seq(1 .. k - 1)
      /\ d = IF k \in S THEN Append(c, k) ELSE c
  <2>1. k \in Nat /\ k > 0 /\ k - 1 \in 0 .. n
    BY <1>1
  <2> QED
    BY <1>1, <2>1, InOrderIs, InOrderNext
<1> HIDE DEF c, d
<1>4. f \in 0 .. n /\ k \in 1 .. n
  BY DEF PutKeeps
<1>5. a = [i \in 1 .. n |-> a[i]]
  BY <1>1, <1>4 DEF Given
<1>6. /\ m \in Nat /\ N \in Nat /\ m \in 0 .. N - 1 /\ M[m + 1] = s[k]
      /\ Merged(s, Append(c, k), k, n) = M /\ Merged(a, Append(c, k), k, n) = W
      /\ Merged(s, c, k, n) = Cut(M, N, m, 1) /\ Merged(a, c, k, n) = Cut(W, N, m, 1)
      /\ Merged([a EXCEPT ![k] = val], c, k - 1, n) = [W EXCEPT ![m + 1] = val]
      /\ Merged([a EXCEPT ![k] = val], Append(c, k), k, n)
         = Merged([a EXCEPT ![k] = val], c, k - 1, n)
  <2>1. /\ m \in Nat /\ N \in Nat /\ m \in 0 .. N - 1 /\ M[m + 1] = s[k]
        /\ Merged(s, Append(c, k), k, n) = M /\ Merged(s, c, k, n) = Cut(M, N, m, 1)
    <3>1. StepsOn(s, n, k, c, val)
      BY <1>1, <1>3, <1>4, MergedStep, Zenon
    <3> QED
      BY <3>1, Zenon DEF StepsOn
  <2>2. /\ Merged(a, Append(c, k), k, n) = W /\ Merged(a, c, k, n) = Cut(W, N, m, 1)
        /\ Merged([a EXCEPT ![k] = val], c, k - 1, n) = [W EXCEPT ![m + 1] = val]
    <3> HIDE DEF a
    <3>1. StepsOn(a, n, k, c, val)
      BY <1>1, <1>3, <1>4, MergedStep, Zenon
    <3> QED
      BY <1>5, <3>1, Zenon DEF StepsOn
  <2>3. Merged([a EXCEPT ![k] = val], Append(c, k), k, n)
        = Merged([a EXCEPT ![k] = val], c, k - 1, n)
    <3> DEFINE b == [a EXCEPT ![k] = val]
    <3> HIDE DEF a, b
    <3>1. StepsOn(b, n, k, c, val)
      BY <1>1, <1>3, <1>4, MergedStep, Zenon
    <3>2. Merged(b, Append(c, k), k, n) = Merged(b, c, k - 1, n)
      BY <3>1, Zenon DEF StepsOn
    <3> QED
      BY <3>2 DEF b
  <2> QED
    BY <2>1, <2>2, <2>3, Zenon
<1>7. /\ N > 0 /\ m \in 0 .. N /\ Place(N, m + 1) = m + 1 /\ m + 1 \in 1 .. N
      /\ Place(N, m) \in 1 .. N /\ Len(Append(c, k)) = m + 1 /\ (m + 1) + (n - k) = N
      /\ m + (n - k) = N - 1
  <2>1. Len(Append(c, k)) = m + 1
    BY <1>3
  <2>2. m \in Nat /\ N = m + (n - (k - 1)) /\ n \in Nat /\ k \in 1 .. n
    BY <1>1, <1>4, <1>6
  <2> HIDE DEF m, N
  <2>3. /\ N > 0 /\ m \in 0 .. N /\ m + 1 \in 1 .. N /\ (m + 1) + (n - k) = N /\ m + (n - k) = N - 1
        /\ m + 1 # N + 1 /\ m # N + 1 /\ m + 1 # 0
    BY <2>2
  <2>4. Place(N, m + 1) = m + 1 /\ Place(N, m) \in 1 .. N
    BY <2>2, <2>3 DEF Place
  <2> QED
    BY <2>1, <2>3, <2>4
<1> HIDE DEF m, N, M, W, a
<1>0. ASSUME NEW j \in 0 .. N
      PROVE  /\ Obj!NextKey(r, M[Place(N, j)]) = M[Place(N, j + 1)]
             /\ r.next[M[Place(N, j)]] = W[Place(N, j)]
  <2>1. r.len = N /\ r.len > 0 /\ ObjRing(M, W, r) /\ j \in 0 .. r.len
    BY <1>2, <1>7
  <2>2. r.len > 0 /\ ObjRing(M, W, r) /\ j \in 0 .. r.len
    BY <2>1
  <2> HIDE DEF r
  <2>3. /\ Obj!NextKey(r, M[Place(r.len, j)]) = M[Place(r.len, j + 1)]
        /\ r.next[M[Place(r.len, j)]] = W[Place(r.len, j)]
    BY <2>2, NextKeyPlace
  <2> QED
    BY <2>1, <2>3, Zenon
<1>8. /\ Obj!NextKey(r, M[Place(N, m)]) = s[k]
      /\ r.next[M[Place(N, m)]] = W[Place(N, m)]
  BY <1>0, <1>6, <1>7, Zenon
<1>9. st.it.cur = M[Place(N, m)]
  BY <1>2, <1>7
<1>10. it = [st.it EXCEPT !.idx = m + 1, !.pre = M[Place(N, m)], !.cur = s[k], !.fresh = TRUE]
  BY <1>2, <1>8, <1>9 DEF Obj!Advanced
<1>11. M[Place(N, m)] \in ObjNodes /\ s[k] \in ObjNodes
  <2>1. M \in [1 .. N -> Obj!Keys]
    BY <1>2, ObjRingFacts
  <2> QED
    BY <1>1, <1>4, <1>7, <2>1 DEF ObjNodes
<1> HIDE DEF it
<1>12. /\ it \in ObjIter /\ it.idx = m + 1 /\ it.max = N /\ it.cur = s[k]
       /\ it.pre = M[Place(N, m)]
  <2>1. st.it \in ObjIter /\ st.it.max = N /\ m + 1 \in Nat
    BY <1>2, <1>6
  <2> QED
    BY <1>10, <1>11, <2>1 DEF ObjIter
<1>13. next = CASE oName[s[k]] # nm -> [r |-> r, it |-> it, replaced |-> st.replaced]
                [] oName[s[k]] = nm /\ ~st.replaced /\ val # 0 ->
                     [r |-> Obj!Given(r, s[k], val), it |-> it, replaced |-> TRUE]
                [] OTHER -> [r |-> Obj!CutRing(r, it), it |-> Obj!CutIter(it),
                             replaced |-> st.replaced]
  BY <1>12, Zenon DEF Obj!PutStep, Obj!NoNode, it
<1> HIDE DEF r, next
<1>14. ASSUME k # f
       PROVE  /\ Given(v, f, val, k) = a
              /\ st.replaced = IF f # 0 /\ f <= k THEN TRUE ELSE FALSE
  <2>1. f <= k <=> f <= k - 1
    BY <1>4, <1>14
  <2> QED
    BY <1>2, <2>1 DEF Given, a
<1>15. CASE oName[s[k]] # nm
  <2>1. k \in S /\ k # f
    BY <1>4, <1>15 DEF PutKeeps
  <2>2. next.r = r /\ next.it = it /\ next.replaced = st.replaced
    BY <1>13, <1>15
  <2>3. d = Append(c, k)
    BY <1>3, <2>1
  <2>4. ObjRing(Merged(s, d, k, n), Merged(Given(v, f, val, k), d, k, n), next.r)
    BY <1>2, <1>6, <1>14, <2>1, <2>2, <2>3, Zenon
  <2>5. /\ next.r.len = Len(d) + (n - k) /\ next.it.idx = Len(d) /\ next.it.max = next.r.len
        /\ next.it \in ObjIter
    BY <1>2, <1>7, <1>12, <2>2, <2>3
  <2>6. next.it.cur = Merged(s, d, k, n)[Place(next.r.len, Len(d))]
    BY <1>2, <1>6, <1>7, <1>12, <2>2, <2>3
  <2> QED
    BY <1>14, <2>1, <2>2, <2>4, <2>5, <2>6 DEF PutAfter, d, next
<1>16. CASE oName[s[k]] = nm /\ ~st.replaced /\ val # 0
  <2>1. k = f
    <3>1. f # 0 /\ f <= k
      BY <1>4, <1>16 DEF PutKeeps
    <3>2. ~(f <= k - 1)
      BY <1>2, <1>16, <3>1
    <3> QED
      BY <1>4, <3>1, <3>2
  <2>2. k \in S /\ a = v /\ Given(v, f, val, k) = [v EXCEPT ![k] = val] /\ f # 0 /\ f <= k
    <3>1. ~(f <= k - 1) /\ f <= k /\ f # 0
      BY <1>4, <2>1
    <3> QED
      BY <1>4, <2>1, <3>1 DEF PutKeeps, Given, a
  <2>3. next.r = Obj!Given(r, s[k], val) /\ next.it = it /\ next.replaced = TRUE
    BY <1>13, <1>16
  <2>4. d = Append(c, k)
    BY <1>3, <2>2
  <2>5. \A i \in 1 .. N : W[i] # val
    <3> SUFFICES ASSUME NEW i \in 1 .. N PROVE W[i] # val
      OBVIOUS
    <3>1. k - 1 \in 0 .. n /\ i \in 1 .. Len(c) + (n - (k - 1))
      BY <1>1, <1>4 DEF N, m
    <3>2. \E j \in 1 .. n : W[i] = v[j]
      <4>1. Among(Merged(s, c, k - 1, n), Merged(v, c, k - 1, n), Len(c) + (n - (k - 1)), s, v, n)
        BY <1>1, <1>3, <3>1, MergedFrom, Zenon
      <4>2. \E j \in 1 .. n : /\ Merged(s, c, k - 1, n)[i] = s[j]
                              /\ Merged(v, c, k - 1, n)[i] = v[j]
        BY <3>1, <4>1, Zenon DEF Among
      <4> QED
        BY <2>2, <4>2 DEF W
    <3> QED
      BY <3>2
  <2>6. ObjRing(M, [W EXCEPT ![m + 1] = val], Obj!Given(r, s[k], val))
    <3>1. m + 1 \in 1 .. r.len /\ \A i \in 1 .. r.len : W[i] # val
      BY <1>2, <1>7, <2>5 DEF r
    <3>2. val \in Obj!Vals /\ ObjRing(M, W, r)
      BY <1>2, <1>16 DEF r
    <3> QED
      BY <1>6, <3>1, <3>2, GivenObject
  <2>7. ObjRing(Merged(s, d, k, n), Merged(Given(v, f, val, k), d, k, n), next.r)
    BY <1>6, <2>2, <2>3, <2>4, <2>6, Zenon
  <2>8. next.r.len = N
    BY <1>2, <2>3 DEF Obj!Given, r
  <2>9. /\ next.r.len = Len(d) + (n - k) /\ next.it.idx = Len(d) /\ next.it.max = next.r.len
        /\ next.it \in ObjIter
    BY <1>7, <1>12, <2>3, <2>4, <2>8
  <2>10. next.it.cur = Merged(s, d, k, n)[Place(next.r.len, Len(d))]
    BY <1>6, <1>7, <1>12, <2>3, <2>4, <2>8
  <2> QED
    BY <2>2, <2>3, <2>7, <2>9, <2>10 DEF PutAfter, d, next
<1>17. CASE oName[s[k]] = nm /\ ~(~st.replaced /\ val # 0)
  <2>1. k # f /\ k \notin S
    <3>1. k # f
      <4> SUFFICES ASSUME k = f PROVE FALSE
        OBVIOUS
      <4>1. val # 0 /\ ~(f <= k - 1)
        BY <1>4 DEF PutKeeps
      <4> QED
        BY <1>2, <1>17, <4>1
    <3> QED
      BY <1>4, <1>17, <3>1 DEF PutKeeps
  <2>2. next.r = Obj!CutRing(r, it) /\ next.it = Obj!CutIter(it) /\ next.replaced = st.replaced
    BY <1>13, <1>17
  <2>3. d = c
    BY <1>3, <2>1
  <2>4. next.r = [len |-> N - 1, ptr |-> IF m + 1 = N THEN M[Place(N, m)] ELSE r.ptr,
                  next |-> [r.next EXCEPT ![W[Place(N, m)]] = M[Place(N, m + 2)]]]
    <3>1. Obj!NextKey(r, s[k]) = M[Place(N, m + 2)]
      <4>1. m + 1 \in 0 .. N /\ (m + 1) + 1 = m + 2
        BY <1>7
      <4>2. Obj!NextKey(r, M[Place(N, m + 1)]) = M[Place(N, (m + 1) + 1)]
        BY <1>0, <4>1, Zenon
      <4> QED
        BY <1>6, <1>7, <4>1, <4>2
    <3> QED
      BY <1>8, <1>12, <2>2, <3>1 DEF Obj!CutRing, r
  <2>5. ObjRing(Cut(M, N, m, 1), Cut(W, N, m, 1), next.r)
    <3>1. r.len = N /\ ObjRing(M, W, r)
      BY <1>2 DEF r
    <3> HIDE DEF r
    <3> QED
      BY <1>6, <2>4, <3>1, CutObject
  <2>6. ObjRing(Merged(s, d, k, n), Merged(Given(v, f, val, k), d, k, n), next.r)
    BY <1>6, <1>14, <2>1, <2>3, <2>5, Zenon
  <2>7. next.it = [it EXCEPT !.idx = m, !.max = N - 1, !.cur = M[Place(N, m)], !.fresh = FALSE]
    <3>1. (m + 1) - 1 = m
      BY <1>6
    <3> QED
      BY <1>12, <2>2, <3>1 DEF Obj!CutIter
  <2>8. next.it \in ObjIter /\ next.it.idx = m /\ next.it.max = N - 1 /\ next.it.cur = M[Place(N, m)]
    <3>1. it \in ObjIter /\ m \in Nat /\ N - 1 \in Nat
      BY <1>6, <1>7, <1>12
    <3> QED
      BY <1>11, <2>7, <3>1 DEF ObjIter
  <2>9. /\ next.r.len = N - 1 /\ next.r.len = Len(d) + (n - k) /\ next.it.idx = Len(d)
        /\ next.it.max = next.r.len
    BY <1>7, <2>3, <2>4, <2>8 DEF m
  <2>10. next.r.len > 0 => next.it.cur = Merged(s, d, k, n)[Place(next.r.len, Len(d))]
    <3> SUFFICES ASSUME N > 1
                 PROVE  next.it.cur = Merged(s, d, k, n)[Place(N - 1, m)]
      BY <1>6, <2>3, <2>9 DEF m
    <3>1. Cut(M, N, m, 1)[Place(N - 1, m)] = M[Place(N, m)]
      BY <1>6, CutPlaces
    <3> QED
      BY <1>6, <2>3, <2>8, <3>1
  <2> QED
    BY <1>14, <2>1, <2>2, <2>6, <2>8, <2>9, <2>10 DEF PutAfter, d, next
<1> QED
  BY <1>15, <1>16, <1>17 DEF next

\* The states of the loop of yyjson_mut_obj_put, key by key
PutBegins == [r |-> oRing, it |-> Obj!Started(oRing), replaced |-> FALSE]
Puts(nm, val, f, n) ==
    f = [i \in 0 .. n |-> IF i = 0 THEN PutBegins ELSE Obj!PutStep(nm, val, f[i - 1])]

\* The recursive function of PutLoop exists.
LEMMA PutsExists ==
    ASSUME NEW nm, NEW val, NEW n \in Nat
    PROVE  \E f : Puts(nm, val, f, n)
<1> DEFINE T == {k \in 0 .. n : \E f : Puts(nm, val, f, k)}
           Step(x) == Obj!PutStep(nm, val, x)
<1>1. 0 \in T
  <2> DEFINE f == [i \in 0 .. 0 |-> PutBegins]
  <2>1. f = [i \in 0 .. 0 |-> IF i = 0 THEN PutBegins ELSE Step(f[i - 1])]
    <3> HIDE DEF Step
    <3> QED
      OBVIOUS
  <2> HIDE DEF f
  <2>2. Puts(nm, val, f, 0)
    BY <2>1 DEF Puts
  <2> QED
    BY <2>2
<1>2. ASSUME NEW k \in 1 .. n, k - 1 \in T
      PROVE  k \in T
  <2>1. PICK f : Puts(nm, val, f, k - 1)
    BY <1>2
  <2>2. PICK a : a = Step(f[k - 1])
    OBVIOUS
  <2> DEFINE g == [i \in 0 .. k |-> IF i = k THEN a ELSE f[i]]
  <2>3. \A i \in 0 .. k : g[i] = IF i = k THEN a ELSE f[i]
    OBVIOUS
  <2>4. \A i \in 0 .. k - 1 : f[i] = IF i = 0 THEN PutBegins ELSE Step(f[i - 1])
    BY <2>1, Zenon DEF Puts
  <2>5. ASSUME NEW i \in 0 .. k
        PROVE  g[i] = IF i = 0 THEN PutBegins ELSE Step(g[i - 1])
    <3> HIDE DEF g, Step
    <3>1. CASE i = 0
      BY <2>3, <2>4, <3>1
    <3>2. CASE i # 0
      <4>1. i - 1 \in 0 .. k /\ i - 1 # k /\ i # 0
        BY <3>2
      <4>2. g[i - 1] = f[i - 1]
        BY <2>3, <4>1
      <4>3. CASE i = k
        BY <2>2, <2>3, <4>1, <4>2, <4>3, Zenon
      <4>4. CASE i # k
        <5>1. i \in 0 .. k - 1
          BY <4>4
        <5> QED
          BY <2>3, <2>4, <4>1, <4>2, <4>4, <5>1, Zenon
      <4> QED
        BY <4>3, <4>4
    <3> QED
      BY <3>1, <3>2
  <2>6. g = [i \in 0 .. k |-> g[i]]
    OBVIOUS
  <2> HIDE DEF g
  <2>7. g = [i \in 0 .. k |-> IF i = 0 THEN PutBegins ELSE Step(g[i - 1])]
    BY <2>5, <2>6, Zenon
  <2>8. Puts(nm, val, g, k) /\ k \in 0 .. n
    BY <2>7 DEF Puts
  <2> QED
    BY <2>8
<1>3. n \in 0 .. n
  OBVIOUS
<1>4. 0 .. n \subseteq T
  <2> HIDE DEF T
  <2> QED
    BY <1>1, <1>2, IntervalInduction
<1> QED
  BY <1>3, <1>4

\* The loop of yyjson_mut_obj_put keeps the places of S and gives place f the value.
LEMMA PutRun ==
    ASSUME NEW s, NEW v, ObjRing(s, v, oRing), NEW nm, NEW val \in Obj!Vals \cup {0},
           \A i \in 1 .. oRing.len : v[i] # val,
           NEW f, NEW S, PutKeeps(s, nm, val, f, S)
    PROVE  PutAfter(s, v, f, val, S, oRing.len, Obj!PutLoop(nm, val))
<1>1. PICK n : n = oRing.len
  OBVIOUS
<1>2. PICK at : at = CHOOSE g : Puts(nm, val, g, n)
  OBVIOUS
<1>3. n \in Nat /\ s = [i \in 1 .. n |-> s[i]] /\ v = [i \in 1 .. n |-> v[i]]
  BY <1>1, ObjRingFacts
<1>4. \A i \in 0 .. n : at[i] = IF i = 0 THEN PutBegins ELSE Obj!PutStep(nm, val, at[i - 1])
  <2>1. Puts(nm, val, at, n)
    BY <1>2, <1>3, PutsExists, Zenon
  <2> QED
    BY <2>1, Zenon DEF Puts
<1>5. Obj!PutLoop(nm, val) = at[n]
  BY <1>1, <1>2, Zenon DEF Obj!PutLoop, Puts, PutBegins
<1> DEFINE T == {k \in 0 .. n : PutAfter(s, v, f, val, S, k, at[k])}
<1>6. 0 \in T
  <2>1. at[0] = PutBegins
    BY <1>3, <1>4
  <2>2. Obj!AsMap!InOrder(S, 0) = << >>
    BY InOrderNext
  <2>3. Given(v, f, val, 0) = v /\ ~(f # 0 /\ f <= 0)
    BY <1>1, <1>3 DEF Given, PutKeeps
  <2>4. Merged(s, << >>, 0, n) = s /\ Merged(v, << >>, 0, n) = v
    BY <1>3, MergedFirst
  <2>5. PutAfter(s, v, f, val, S, 0, PutBegins)
    <3>1. Len(<< >>) = 0 /\ 0 + (n - 0) = n /\ Place(n, 0) = n
      BY <1>3 DEF Place
    <3>2. /\ PutBegins.r = oRing /\ PutBegins.it = Obj!Started(oRing) /\ PutBegins.replaced = FALSE
      BY DEF PutBegins
    <3>3. Obj!Started(oRing) = [on |-> TRUE, idx |-> 0, max |-> n,
                                cur |-> IF n > 0 THEN oRing.ptr ELSE 0,
                                pre |-> 0, fresh |-> FALSE, exact |-> TRUE]
      <4> DEFINE first == IF oRing.len > 0 THEN oRing.ptr ELSE 0
      <4>1. Obj!Started(oRing) = [Obj!NoIter EXCEPT !.on = TRUE, !.max = oRing.len, !.cur = first]
        BY DEF Obj!Started, Obj!NoNode
      <4>2. Obj!NoIter = [on |-> FALSE, idx |-> 0, max |-> 0, cur |-> 0, pre |-> 0,
                          fresh |-> FALSE, exact |-> TRUE]
        BY DEF Obj!NoIter, Obj!NoNode
      <4> HIDE DEF first
      <4>3. Obj!Started(oRing) = [on |-> TRUE, idx |-> 0, max |-> oRing.len, cur |-> first,
                                  pre |-> 0, fresh |-> FALSE, exact |-> TRUE]
        BY <4>1, <4>2
      <4> QED
        BY <1>1, <4>3 DEF first
    <3>4. oRing.ptr \in ObjNodes \cup {0} /\ (n > 0 => oRing.ptr = s[n])
      BY <1>1, ObjRingFacts
    <3>5. Obj!Started(oRing) \in ObjIter
      BY <1>3, <3>3, <3>4 DEF ObjIter
    <3>6. ObjRing(Merged(s, << >>, 0, oRing.len), Merged(Given(v, f, val, 0), << >>, 0, oRing.len),
                  PutBegins.r)
      BY <1>1, <2>3, <2>4, <3>2, Zenon
    <3>7. /\ PutBegins.r.len = Len(<< >>) + (oRing.len - 0) /\ PutBegins.it \in ObjIter
          /\ PutBegins.it.idx = Len(<< >>) /\ PutBegins.it.max = PutBegins.r.len
      BY <1>1, <1>3, <3>1, <3>2, <3>3, <3>5
    <3>8. PutBegins.r.len > 0 =>
             PutBegins.it.cur = Merged(s, << >>, 0, oRing.len)[Place(PutBegins.r.len, Len(<< >>))]
      BY <1>1, <2>4, <3>1, <3>2, <3>3, <3>4
    <3>9. PutBegins.replaced = IF f # 0 /\ f <= 0 THEN TRUE ELSE FALSE
      BY <2>3, <3>2
    <3> HIDE DEF PutBegins
    <3> QED
      BY <2>2, <3>6, <3>7, <3>8, <3>9, Zenon DEF PutAfter
  <2> QED
    BY <1>3, <2>1, <2>5
<1>7. ASSUME NEW k \in 1 .. n, k - 1 \in T
      PROVE  k \in T
  <2>1. PutAfter(s, v, f, val, S, k - 1, at[k - 1]) /\ k \in 1 .. oRing.len /\ k \in 0 .. n
    BY <1>1, <1>7
  <2>2. at[k] = Obj!PutStep(nm, val, at[k - 1])
    BY <1>4, <2>1
  <2>3. PutAfter(s, v, f, val, S, k, at[k])
    BY <2>1, <2>2, PutTurn
  <2> QED
    BY <2>1, <2>3
<1>8. n \in T
  <2>1. n \in 0 .. n
    BY <1>3
  <2> HIDE DEF T
  <2> QED
    BY <1>3, <1>6, <1>7, <2>1, IntervalInduction
<1> QED
  BY <1>1, <1>5, <1>8

\* x is the value of the first place among k that is not kept, if there is one.
FirstGone(v, S, k, x) ==
    /\ (\A i \in 1 .. k : i \in S) => x = 0
    /\ \A j \in 1 .. k : j \notin S /\ (\A i \in 1 .. j - 1 : i \in S) => x = v[j]

\* The loop of unsafe_yyjson_mut_obj_remove after k keys
RemoveAfter(s, v, S, k, st) ==
    LET n == oRing.len
        c == Obj!AsMap!InOrder(S, k)
    IN  /\ ObjRing(Merged(s, c, k, n), Merged(v, c, k, n), st.r)
        /\ st.r.len = Len(c) + (n - k) /\ st.i = Len(c)
        /\ st.r.len > 0 => /\ st.pre = Merged(s, c, k, n)[Place(st.r.len, Len(c))]
                           /\ st.cur = Merged(s, c, k, n)[Place(st.r.len, Len(c) + 1)]
        /\ FirstGone(v, S, k, st.removed)

\* One turn of the loop
LEMMA RemoveTurn ==
    ASSUME NEW s, NEW v, ObjRing(s, v, oRing), NEW nm,
           NEW S, \A i \in 1 .. oRing.len : i \in S <=> oName[s[i]] # nm,
           NEW k \in 1 .. oRing.len, NEW st, RemoveAfter(s, v, S, k - 1, st)
    PROVE  RemoveAfter(s, v, S, k, Obj!RemoveStep(nm, st))
<1> DEFINE n == oRing.len
           c == Obj!AsMap!InOrder(S, k - 1)
           d == Obj!AsMap!InOrder(S, k)
           m == Len(c)
           N == m + (n - (k - 1))
           M == Merged(s, c, k - 1, n)
           W == Merged(v, c, k - 1, n)
           r == st.r
           next == Obj!RemoveStep(nm, st)
<1>1. /\ n \in Nat /\ s \in [1 .. n -> Obj!Keys] /\ v \in [1 .. n -> Obj!Vals]
      /\ s = [i \in 1 .. n |-> s[i]] /\ v = [i \in 1 .. n |-> v[i]]
  BY ObjRingFacts
<1>2. /\ ObjRing(M, W, r) /\ r.len = N /\ st.i = m
      /\ N > 0 => st.pre = M[Place(N, m)] /\ st.cur = M[Place(N, m + 1)]
      /\ FirstGone(v, S, k - 1, st.removed)
  BY DEF RemoveAfter
<1>3. /\ c \in Seq(1 .. k - 1)
      /\ d = IF k \in S THEN Append(c, k) ELSE c
  <2>1. k \in Nat /\ k > 0 /\ k - 1 \in 0 .. n
    BY <1>1
  <2> QED
    BY <1>1, <2>1, InOrderIs, InOrderNext
<1> HIDE DEF c, d
<1>4. k \in 1 .. n
  OBVIOUS
<1>6. /\ m \in Nat /\ N \in Nat /\ m \in 0 .. N - 1 /\ M[m + 1] = s[k] /\ W[m + 1] = v[k]
      /\ Merged(s, Append(c, k), k, n) = M /\ Merged(v, Append(c, k), k, n) = W
      /\ Merged(s, c, k, n) = Cut(M, N, m, 1) /\ Merged(v, c, k, n) = Cut(W, N, m, 1)
  <2>1. StepsOn(s, n, k, c, 0) /\ StepsOn(v, n, k, c, 0)
    BY <1>1, <1>3, <1>4, MergedStep, Zenon
  <2> QED
    BY <2>1, Zenon DEF StepsOn
<1>7. /\ N > 0 /\ Place(N, m + 1) = m + 1 /\ m + 1 \in 1 .. N /\ m \in 0 .. N /\ m + 1 \in 0 .. N
      /\ Place(N, m) \in 1 .. N /\ Len(Append(c, k)) = m + 1 /\ (m + 1) + (n - k) = N
      /\ m + (n - k) = N - 1 /\ (m + 1) + 1 = m + 2
  <2>1. Len(Append(c, k)) = m + 1
    BY <1>3
  <2>2. m \in Nat /\ N = m + (n - (k - 1)) /\ n \in Nat /\ k \in 1 .. n
    BY <1>1, <1>4, <1>6
  <2> HIDE DEF m, N
  <2>3. /\ N > 0 /\ m \in 0 .. N /\ m + 1 \in 1 .. N /\ (m + 1) + (n - k) = N /\ m + (n - k) = N - 1
        /\ m + 1 # N + 1 /\ m # N + 1 /\ m + 1 # 0 /\ m + 1 \in 0 .. N /\ (m + 1) + 1 = m + 2
    BY <2>2
  <2>4. Place(N, m + 1) = m + 1 /\ Place(N, m) \in 1 .. N
    BY <2>2, <2>3 DEF Place
  <2> QED
    BY <2>1, <2>3, <2>4
<1> HIDE DEF m, N, M, W
<1>8. ASSUME NEW j \in 0 .. N
      PROVE  /\ Obj!NextKey(r, M[Place(N, j)]) = M[Place(N, j + 1)]
             /\ r.next[M[Place(N, j)]] = W[Place(N, j)]
  <2>1. r.len = N /\ r.len > 0 /\ ObjRing(M, W, r) /\ j \in 0 .. r.len
    BY <1>2, <1>7
  <2>2. r.len > 0 /\ ObjRing(M, W, r) /\ j \in 0 .. r.len
    BY <2>1
  <2> HIDE DEF r
  <2>3. /\ Obj!NextKey(r, M[Place(r.len, j)]) = M[Place(r.len, j + 1)]
        /\ r.next[M[Place(r.len, j)]] = W[Place(r.len, j)]
    BY <2>2, NextKeyPlace
  <2> QED
    BY <2>1, <2>3, Zenon
<1>9. /\ st.cur = s[k] /\ st.pre = M[Place(N, m)]
      /\ r.next[st.cur] = v[k] /\ r.next[st.pre] = W[Place(N, m)]
      /\ Obj!NextKey(r, st.cur) = M[Place(N, m + 2)]
  BY <1>2, <1>6, <1>7, <1>8, Zenon
<1>10. /\ oName[s[k]] = nm =>
             next = [r |-> [len |-> N - 1, ptr |-> IF m + 1 = N THEN M[Place(N, m)] ELSE r.ptr,
                            next |-> [r.next EXCEPT ![W[Place(N, m)]] = M[Place(N, m + 2)]]],
                     pre |-> M[Place(N, m)], cur |-> M[Place(N, m + 2)], i |-> m,
                     removed |-> IF st.removed = 0 THEN v[k] ELSE st.removed]
       /\ oName[s[k]] # nm =>
             next = [r |-> r, pre |-> s[k], cur |-> M[Place(N, m + 2)], i |-> m + 1,
                     removed |-> st.removed]
  BY <1>2, <1>9 DEF Obj!RemoveStep, Obj!NoNode
<1> HIDE DEF next
<1>11. CASE oName[s[k]] # nm
  <2>1. k \in S /\ d = Append(c, k)
    BY <1>3, <1>4, <1>11
  <2>2. /\ next.r = r /\ next.pre = s[k] /\ next.cur = M[Place(N, m + 2)] /\ next.i = m + 1
        /\ next.removed = st.removed
    BY <1>10, <1>11
  <2>3. FirstGone(v, S, k, st.removed)
    <3>1. \A i \in 1 .. k : i = k \/ i \in 1 .. k - 1
      BY <1>1, <1>4
    <3>2. \A i \in 1 .. k - 1 : i \in 1 .. k
      BY <1>1, <1>4
    <3> QED
      BY <1>2, <2>1, <3>1, <3>2 DEF FirstGone
  <2>4. ObjRing(Merged(s, d, k, n), Merged(v, d, k, n), next.r)
    BY <1>2, <1>6, <2>1, <2>2, Zenon
  <2>5. next.r.len = Len(d) + (n - k) /\ next.i = Len(d) /\ next.r.len = N
    BY <1>2, <1>7, <2>1, <2>2
  <2>6. /\ next.pre = Merged(s, d, k, n)[Place(next.r.len, Len(d))]
        /\ next.cur = Merged(s, d, k, n)[Place(next.r.len, Len(d) + 1)]
    BY <1>6, <1>7, <2>1, <2>2, <2>5
  <2> QED
    BY <2>2, <2>3, <2>4, <2>5, <2>6 DEF RemoveAfter, d, next
<1>12. CASE oName[s[k]] = nm
  <2>1. k \notin S /\ d = c
    BY <1>3, <1>4, <1>12
  <2>2. /\ next.r = [len |-> N - 1, ptr |-> IF m + 1 = N THEN M[Place(N, m)] ELSE r.ptr,
                     next |-> [r.next EXCEPT ![W[Place(N, m)]] = M[Place(N, m + 2)]]]
        /\ next.pre = M[Place(N, m)] /\ next.cur = M[Place(N, m + 2)] /\ next.i = m
        /\ next.removed = IF st.removed = 0 THEN v[k] ELSE st.removed
    BY <1>10, <1>12
  <2>3. FirstGone(v, S, k, next.removed)
    <3>1. \A i \in 1 .. k - 1 : i \in 1 .. k /\ i \in 1 .. n
      BY <1>1, <1>4
    <3>2. CASE \A i \in 1 .. k - 1 : i \in S
      <4>1. st.removed = 0 /\ next.removed = v[k]
        BY <1>2, <2>2, <3>2 DEF FirstGone
      <4>2. \A j \in 1 .. k : j \notin S => j = k
        BY <1>1, <1>4, <3>2
      <4> QED
        BY <1>4, <2>1, <4>1, <4>2 DEF FirstGone
    <3>3. CASE ~(\A i \in 1 .. k - 1 : i \in S)
      <4>1. PICK j \in {i \in 1 .. k - 1 : i \notin S} : \A i \in {h \in 1 .. k - 1 : h \notin S} : j <= i
        <5> DEFINE Gone == {i \in 1 .. k - 1 : i \notin S}
        <5>1. Gone \subseteq 1 .. k - 1 /\ Gone # {}
          BY <3>3, Zenon
        <5> HIDE DEF Gone
        <5>2. Gone \subseteq Nat
          BY <5>1
        <5>3. \E j \in Gone : \A i \in Gone : j <= i
          BY <5>1, <5>2, LeastExists, Zenon
        <5> QED
          BY <5>3 DEF Gone
      <4>2. j \in 1 .. k - 1 /\ j \notin S /\ \A i \in 1 .. j - 1 : i \in S
        BY <1>1, <1>4, <4>1
      <4>3. st.removed = v[j]
        BY <1>2, <4>2 DEF FirstGone
      <4>4. v[j] # 0
        <5>1. v[j] \in Obj!Vals
          BY <1>1, <3>1, <4>2
        <5> QED
          BY <1>1, <1>4, <5>1, KeyOrValue
      <4>5. next.removed = v[j]
        BY <2>2, <4>3, <4>4
      <4>6. ASSUME NEW i \in 1 .. k, i \notin S, \A h \in 1 .. i - 1 : h \in S
            PROVE  i = j
        <5>1. ~(j < i)
          <6> SUFFICES ASSUME j < i PROVE FALSE
            OBVIOUS
          <6>1. j \in 1 .. i - 1
            BY <1>1, <1>4, <4>2
          <6> QED
            BY <4>2, <4>6, <6>1
        <5>2. ~(i < j)
          <6> SUFFICES ASSUME i < j PROVE FALSE
            OBVIOUS
          <6>1. i \in 1 .. j - 1
            BY <1>1, <1>4, <4>2
          <6> QED
            BY <4>2, <4>6, <6>1
        <5> QED
          BY <1>1, <1>4, <4>2, <5>1, <5>2
      <4> QED
        BY <1>4, <2>1, <4>5, <4>6 DEF FirstGone
    <3> QED
      BY <3>2, <3>3
  <2>4. ObjRing(Cut(M, N, m, 1), Cut(W, N, m, 1), next.r)
    <3>1. r.len = N /\ ObjRing(M, W, r)
      BY <1>2
    <3> HIDE DEF r
    <3> QED
      BY <1>6, <2>2, <3>1, CutObject
  <2>5. ObjRing(Merged(s, d, k, n), Merged(v, d, k, n), next.r)
    BY <1>6, <2>1, <2>4, Zenon
  <2>6. next.r.len = Len(d) + (n - k) /\ next.i = Len(d) /\ next.r.len = N - 1
    BY <1>7, <2>1, <2>2 DEF m
  <2>7. next.r.len > 0 =>
           /\ next.pre = Merged(s, d, k, n)[Place(next.r.len, Len(d))]
           /\ next.cur = Merged(s, d, k, n)[Place(next.r.len, Len(d) + 1)]
    <3> SUFFICES ASSUME N > 1
                 PROVE  /\ next.pre = Merged(s, c, k, n)[Place(N - 1, m)]
                        /\ next.cur = Merged(s, c, k, n)[Place(N - 1, m + 1)]
      BY <1>6, <2>1, <2>6 DEF m
    <3>1. /\ Cut(M, N, m, 1)[Place(N - 1, m)] = M[Place(N, m)]
          /\ Cut(M, N, m, 1)[Place(N - 1, m + 1)] = M[Place(N, m + 2)]
      BY <1>6, CutPlaces
    <3> QED
      BY <1>6, <2>2, <3>1
  <2> QED
    BY <2>3, <2>5, <2>6, <2>7 DEF RemoveAfter, d, next
<1> QED
  BY <1>11, <1>12

\* The states of the loop of unsafe_yyjson_mut_obj_remove, key by key
RemoveBegins ==
    [r |-> oRing, pre |-> oRing.ptr, cur |-> Obj!NextKey(oRing, oRing.ptr), i |-> 0, removed |-> 0]
Removes(nm, f, n) ==
    f = [i \in 0 .. n |-> IF i = 0 THEN RemoveBegins ELSE Obj!RemoveStep(nm, f[i - 1])]

\* The recursive function of RemoveLoop exists.
LEMMA RemovesExists ==
    ASSUME NEW nm, NEW n \in Nat
    PROVE  \E f : Removes(nm, f, n)
<1> DEFINE T == {k \in 0 .. n : \E f : Removes(nm, f, k)}
           Step(x) == Obj!RemoveStep(nm, x)
<1>1. 0 \in T
  <2> DEFINE f == [i \in 0 .. 0 |-> RemoveBegins]
  <2>1. f = [i \in 0 .. 0 |-> IF i = 0 THEN RemoveBegins ELSE Step(f[i - 1])]
    <3> HIDE DEF Step
    <3> QED
      OBVIOUS
  <2> HIDE DEF f
  <2>2. Removes(nm, f, 0)
    BY <2>1 DEF Removes
  <2> QED
    BY <2>2
<1>2. ASSUME NEW k \in 1 .. n, k - 1 \in T
      PROVE  k \in T
  <2>1. PICK f : Removes(nm, f, k - 1)
    BY <1>2
  <2>2. PICK a : a = Step(f[k - 1])
    OBVIOUS
  <2> DEFINE g == [i \in 0 .. k |-> IF i = k THEN a ELSE f[i]]
  <2>3. \A i \in 0 .. k : g[i] = IF i = k THEN a ELSE f[i]
    OBVIOUS
  <2>4. \A i \in 0 .. k - 1 : f[i] = IF i = 0 THEN RemoveBegins ELSE Step(f[i - 1])
    BY <2>1, Zenon DEF Removes
  <2>5. ASSUME NEW i \in 0 .. k
        PROVE  g[i] = IF i = 0 THEN RemoveBegins ELSE Step(g[i - 1])
    <3> HIDE DEF g, Step
    <3>1. CASE i = 0
      BY <2>3, <2>4, <3>1
    <3>2. CASE i # 0
      <4>1. i - 1 \in 0 .. k /\ i - 1 # k /\ i # 0
        BY <3>2
      <4>2. g[i - 1] = f[i - 1]
        BY <2>3, <4>1
      <4>3. CASE i = k
        BY <2>2, <2>3, <4>1, <4>2, <4>3, Zenon
      <4>4. CASE i # k
        <5>1. i \in 0 .. k - 1
          BY <4>4
        <5> QED
          BY <2>3, <2>4, <4>1, <4>2, <4>4, <5>1, Zenon
      <4> QED
        BY <4>3, <4>4
    <3> QED
      BY <3>1, <3>2
  <2>6. g = [i \in 0 .. k |-> g[i]]
    OBVIOUS
  <2> HIDE DEF g
  <2>7. g = [i \in 0 .. k |-> IF i = 0 THEN RemoveBegins ELSE Step(g[i - 1])]
    BY <2>5, <2>6, Zenon
  <2>8. Removes(nm, g, k) /\ k \in 0 .. n
    BY <2>7 DEF Removes
  <2> QED
    BY <2>8
<1>3. n \in 0 .. n
  OBVIOUS
<1>4. 0 .. n \subseteq T
  <2> HIDE DEF T
  <2> QED
    BY <1>1, <1>2, IntervalInduction
<1> QED
  BY <1>3, <1>4

\* The loop of unsafe_yyjson_mut_obj_remove keeps the places of S and returns the value of
\* the first that it cuts.
LEMMA RemoveRun ==
    ASSUME NEW s, NEW v, ObjRing(s, v, oRing), NEW nm, oRing.len > 0,
           NEW S, \A i \in 1 .. oRing.len : i \in S <=> oName[s[i]] # nm
    PROVE  RemoveAfter(s, v, S, oRing.len, Obj!RemoveLoop(nm))
<1>1. PICK n : n = oRing.len
  OBVIOUS
<1>2. PICK at : at = CHOOSE g : Removes(nm, g, n)
  OBVIOUS
<1>3. n \in Nat /\ n > 0 /\ s = [i \in 1 .. n |-> s[i]] /\ v = [i \in 1 .. n |-> v[i]]
  BY <1>1, ObjRingFacts
<1>4. \A i \in 0 .. n : at[i] = IF i = 0 THEN RemoveBegins ELSE Obj!RemoveStep(nm, at[i - 1])
  <2>1. Removes(nm, at, n)
    BY <1>2, <1>3, RemovesExists, Zenon
  <2> QED
    BY <2>1, Zenon DEF Removes
<1>5. Obj!RemoveLoop(nm) = at[n]
  BY <1>1, <1>2, Zenon DEF Obj!RemoveLoop, Removes, RemoveBegins, Obj!NoNode
<1> DEFINE T == {k \in 0 .. n : RemoveAfter(s, v, S, k, at[k])}
<1>6. 0 \in T
  <2>1. at[0] = RemoveBegins
    BY <1>3, <1>4
  <2>2. Obj!AsMap!InOrder(S, 0) = << >>
    BY InOrderNext
  <2>3. FirstGone(v, S, 0, 0)
    BY DEF FirstGone
  <2>4. Merged(s, << >>, 0, n) = s /\ Merged(v, << >>, 0, n) = v
    BY <1>3, MergedFirst
  <2>5. RemoveAfter(s, v, S, 0, RemoveBegins)
    <3>1. Len(<< >>) = 0 /\ 0 + (n - 0) = n /\ Place(n, 0) = n /\ 0 + 1 = 1 /\ 0 \in 0 .. n
      BY <1>3 DEF Place
    <3>2. /\ RemoveBegins.r = oRing /\ RemoveBegins.pre = oRing.ptr
          /\ RemoveBegins.cur = Obj!NextKey(oRing, oRing.ptr)
          /\ RemoveBegins.i = 0 /\ RemoveBegins.removed = 0
      BY DEF RemoveBegins
    <3>3. oRing.ptr = s[n]
      BY <1>1, <1>3, ObjRingFacts
    <3>4. Obj!NextKey(oRing, s[Place(n, 0)]) = s[Place(n, 0 + 1)]
      <4>1. 0 \in 0 .. oRing.len
        BY <1>1, <1>3
      <4>2. Obj!NextKey(oRing, s[Place(oRing.len, 0)]) = s[Place(oRing.len, 0 + 1)]
        BY <4>1, NextKeyPlace
      <4> QED
        BY <1>1, <4>2
    <3>5. ObjRing(Merged(s, << >>, 0, oRing.len), Merged(v, << >>, 0, oRing.len), RemoveBegins.r)
      BY <1>1, <2>4, <3>2, Zenon
    <3>6. RemoveBegins.r.len = Len(<< >>) + (oRing.len - 0) /\ RemoveBegins.i = Len(<< >>)
      BY <1>1, <1>3, <3>1, <3>2
    <3>7. /\ RemoveBegins.pre = Merged(s, << >>, 0, oRing.len)[Place(RemoveBegins.r.len, Len(<< >>))]
          /\ RemoveBegins.cur
             = Merged(s, << >>, 0, oRing.len)[Place(RemoveBegins.r.len, Len(<< >>) + 1)]
      BY <1>1, <2>4, <3>1, <3>2, <3>3, <3>4
    <3>8. FirstGone(v, S, 0, RemoveBegins.removed)
      BY <2>3, <3>2
    <3> HIDE DEF RemoveBegins
    <3> QED
      BY <2>2, <3>5, <3>6, <3>7, <3>8, Zenon DEF RemoveAfter
  <2> QED
    BY <1>3, <2>1, <2>5
<1>7. ASSUME NEW k \in 1 .. n, k - 1 \in T
      PROVE  k \in T
  <2>1. RemoveAfter(s, v, S, k - 1, at[k - 1]) /\ k \in 1 .. oRing.len /\ k \in 0 .. n
    BY <1>1, <1>7
  <2>2. at[k] = Obj!RemoveStep(nm, at[k - 1])
    BY <1>4, <2>1
  <2>3. RemoveAfter(s, v, S, k, at[k])
    BY <2>1, <2>2, RemoveTurn
  <2> QED
    BY <2>1, <2>3
<1>8. n \in T
  <2>1. n \in 0 .. n
    BY <1>3
  <2> HIDE DEF T
  <2> QED
    BY <1>3, <1>6, <1>7, <2>1, IntervalInduction
<1> QED
  BY <1>1, <1>5, <1>8

-----------------------------------------------------------------------------
(***************************************************************************)
(* The mutable object: every call makes the ring that JsonMap describes    *)
(***************************************************************************)

MemberType == [name : Names, data : Data]
Members(s, v, nmOf, dataOf, n) == [i \in 1 .. n |-> [name |-> nmOf[s[i]], data |-> dataOf[v[i]]]]
MapIter == [on |-> oIter.on, pos |-> Obj!Position, fresh |-> oIter.fresh, exact |-> oIter.exact]

\* Where an iterator of the keys s stands: at place idx, unless a search went round, with
\* the key before it in pre while it may remove.
Stands(s, n, it) ==
    it.on =>
        /\ it.max = n /\ it.idx \in 0 .. n
        /\ it.fresh => n > 0 /\ (it.exact => it.idx > 0)
        /\ n > 0 => \E j \in 1 .. n : /\ it.cur = s[j]
                                      /\ it.exact => j = Place(n, it.idx)
                                      /\ it.fresh => it.pre = s[Place(n, j - 1)]

\* The object closes, its names and data are such, and its iterator stands where it says:
\* what every call relies on.
ObjInv ==
    /\ ObjRing(Obj!ListedKeys, Obj!ListedVals, oRing)
    /\ oName \in [Obj!Keys -> Names] /\ oData \in [Obj!Vals -> Data]
    /\ oIter \in ObjIter
    /\ Stands(Obj!ListedKeys, oRing.len, oIter)

\* What the invariant says of the members
LEMMA ObjectFacts ==
    ASSUME ObjInv
    PROVE  /\ oRing.len \in Nat
           /\ Obj!ListedKeys \in [1 .. oRing.len -> Obj!Keys]
           /\ Obj!ListedVals \in [1 .. oRing.len -> Obj!Vals]
           /\ \A i, j \in 1 .. oRing.len : Obj!ListedKeys[i] = Obj!ListedKeys[j] => i = j
           /\ \A i, j \in 1 .. oRing.len : Obj!ListedVals[i] = Obj!ListedVals[j] => i = j
           /\ oName \in [Obj!Keys -> Names] /\ oData \in [Obj!Vals -> Data]
           /\ Obj!Contents = Members(Obj!ListedKeys, Obj!ListedVals, oName, oData, oRing.len)
           /\ Obj!Contents \in Seq(MemberType) /\ Len(Obj!Contents) = oRing.len
           /\ DOMAIN Obj!Contents = 1 .. oRing.len
           /\ \A i \in 1 .. oRing.len :
                 Obj!Contents[i] = [name |-> oName[Obj!ListedKeys[i]], data |-> oData[Obj!ListedVals[i]]]
<1> DEFINE s == Obj!ListedKeys
           v == Obj!ListedVals
           n == oRing.len
           list == Obj!Contents
<1>1. ObjRing(s, v, oRing) /\ oName \in [Obj!Keys -> Names] /\ oData \in [Obj!Vals -> Data]
  BY DEF ObjInv
<1>2. list = Members(s, v, oName, oData, n)
  BY DEF Obj!Contents, Members
<1> HIDE DEF s, v, list
<1>3. /\ n \in Nat /\ s \in [1 .. n -> Obj!Keys] /\ v \in [1 .. n -> Obj!Vals]
      /\ \A i, j \in 1 .. n : s[i] = s[j] => i = j
      /\ \A i, j \in 1 .. n : v[i] = v[j] => i = j
  BY <1>1, ObjRingFacts
<1>4. list \in [1 .. n -> MemberType]
  BY <1>1, <1>2, <1>3 DEF Members, MemberType
<1>5. list \in Seq(MemberType) /\ Len(list) = n /\ DOMAIN list = 1 .. n
  BY <1>3, <1>4
<1>6. \A i \in 1 .. n : list[i] = [name |-> oName[s[i]], data |-> oData[v[i]]]
  BY <1>2 DEF Members
<1> QED
  BY <1>1, <1>2, <1>3, <1>5, <1>6 DEF s, v, list

\* The name and the data of the member at a place
LEMMA MemberAt ==
    ASSUME ObjInv, NEW i \in 1 .. oRing.len
    PROVE  /\ Obj!Contents[i].name = oName[Obj!ListedKeys[i]]
           /\ Obj!Contents[i].data = oData[Obj!ListedVals[i]]
<1>1. PICK m : m = Obj!Contents[i]
  OBVIOUS
<1>2. m = [name |-> oName[Obj!ListedKeys[i]], data |-> oData[Obj!ListedVals[i]]]
  BY <1>1, ObjectFacts, Zenon
<1>3. \A x, y : [name |-> x, data |-> y].name = x /\ [name |-> x, data |-> y].data = y
  OBVIOUS
<1>4. m.name = oName[Obj!ListedKeys[i]] /\ m.data = oData[Obj!ListedVals[i]]
  BY <1>2, <1>3, Zenon
<1> QED
  BY <1>1, <1>4, Zenon

\* The members with a name are at the places whose keys have it.
LEMMA PlacesOf ==
    ASSUME ObjInv, NEW nm
    PROVE  /\ Obj!AsMap!Places(nm) = {i \in 1 .. oRing.len : oName[Obj!ListedKeys[i]] = nm}
           /\ {i \in 1 .. oRing.len : oName[Obj!KeyAt(oRing, i)] = nm}
              = {i \in 1 .. oRing.len : oName[Obj!ListedKeys[i]] = nm}
<1>1. \A i \in 1 .. oRing.len : Obj!Contents[i].name = oName[Obj!ListedKeys[i]]
  BY MemberAt
<1>2. DOMAIN Obj!Contents = 1 .. oRing.len
  BY ObjectFacts
<1>3. \A i \in 1 .. oRing.len : Obj!ListedKeys[i] = Obj!KeyAt(oRing, i)
  BY DEF Obj!ListedKeys
<1>4. Obj!AsMap!Places(nm) = {i \in 1 .. oRing.len : oName[Obj!ListedKeys[i]] = nm}
  BY <1>1, <1>2, Zenon DEF Obj!AsMap!Places
<1> HIDE DEF Obj!ListedKeys
<1> QED
  BY <1>3, <1>4

\* A ring of an object lists its keys and values.
LEMMA ObjectLists ==
    ASSUME NEW s, NEW v, NEW r, ObjRing(s, v, r)
    PROVE  /\ [i \in 1 .. r.len |-> Obj!KeyAt(r, i)] = s
           /\ [i \in 1 .. r.len |-> r.next[Obj!KeyAt(r, i)]] = v
<1>1. /\ r.len \in Nat /\ s \in [1 .. r.len -> Obj!Keys]
      /\ v \in [1 .. r.len -> Obj!Vals]
      /\ \A i \in 1 .. r.len : r.next[s[i]] = v[i]
  BY ObjRingFacts
<1>2. ASSUME NEW i \in 1 .. r.len
      PROVE  Obj!KeyAt(r, i) = s[i]
  <2>1. i \in 0 .. r.len + 1 /\ r.len > 0 /\ Place(r.len, i) = i
    BY <1>1 DEF Place
  <2> QED
    BY <2>1, KeyAtPlace
<1>3. s = [i \in 1 .. r.len |-> s[i]] /\ v = [i \in 1 .. r.len |-> v[i]]
  BY <1>1
<1> QED
  BY <1>1, <1>2, <1>3

\* A ring in the next state is what the next state's object lists.
LEMMA ObjectAfter ==
    ASSUME NEW s, NEW v, ObjRing(s, v, oRing')
    PROVE  Obj!ListedKeys' = s /\ Obj!ListedVals' = v
BY ObjectLists DEF Obj!ListedKeys, Obj!ListedVals

\* A call that changes the object ends the iteration.
LEMMA ModifiedObject ==
    ASSUME ObjInv, NEW s, NEW v, ObjRing(s, v, oRing'), Obj!Modified,
           oName' \in [Obj!Keys -> Names], oData' \in [Obj!Vals -> Data]
    PROVE  ObjInv' /\ Obj!AsMap!Becomes(Members(s, v, oName', oData', oRing'.len))
<1>1. Obj!ListedKeys' = s /\ Obj!ListedVals' = v
  BY ObjectAfter
<1>2. oIter' = [on |-> FALSE, idx |-> 0, max |-> 0, cur |-> 0, pre |-> 0, fresh |-> FALSE,
                exact |-> TRUE]
  BY DEF Obj!Modified, Obj!NoIter, Obj!NoNode
<1>3. (oIter \in ObjIter)' /\ Stands(s, oRing'.len, oIter')
  BY <1>2 DEF ObjIter, Stands
<1>4. ObjRing(Obj!ListedKeys, Obj!ListedVals, oRing)'
  BY <1>1
<1>5. Stands(Obj!ListedKeys, oRing.len, oIter)'
  BY <1>1, <1>3
<1>6. ObjInv'
  BY <1>3, <1>4, <1>5 DEF ObjInv
<1>7. Obj!Contents' = Members(s, v, oName', oData', oRing'.len)
  BY <1>1 DEF Obj!Contents, Members
<1>8. Obj!Position' = 0
  BY <1>2 DEF Obj!Position
<1>9. [on |-> oIter.on, pos |-> Obj!Position, fresh |-> oIter.fresh, exact |-> oIter.exact]'
      = [on |-> FALSE, pos |-> 0, fresh |-> FALSE, exact |-> TRUE]
  BY <1>2, <1>8
<1> QED
  BY <1>6, <1>7, <1>9, Zenon DEF Obj!AsMap!Becomes, Obj!AsMap!NoIter

\* A call that leaves the object and its iterator alone
LEMMA UnchangedObject ==
    ASSUME ObjInv, UNCHANGED <<oRing, oName, oData, oIter>>
    PROVE  ObjInv' /\ Obj!Contents' = Obj!Contents /\ MapIter' = MapIter
<1>1. oRing' = oRing /\ oName' = oName /\ oData' = oData /\ oIter' = oIter
  OBVIOUS
<1>2. ObjRing(Obj!ListedKeys, Obj!ListedVals, oRing')
  BY <1>1 DEF ObjInv
<1>3. Obj!ListedKeys' = Obj!ListedKeys /\ Obj!ListedVals' = Obj!ListedVals
  BY <1>2, ObjectAfter
<1>4. ObjInv'
  <2>1. ObjRing(Obj!ListedKeys, Obj!ListedVals, oRing)'
    BY <1>2, <1>3
  <2>2. Stands(Obj!ListedKeys, oRing.len, oIter)'
    BY <1>1, <1>3 DEF ObjInv, Stands
  <2> QED
    BY <1>1, <2>1, <2>2 DEF ObjInv
<1>5. Obj!Contents' = Obj!Contents
  BY <1>1, <1>3 DEF Obj!Contents
<1>6. Obj!Position' = Obj!Position
  BY <1>1, <1>3 DEF Obj!Position
<1> QED
  BY <1>1, <1>4, <1>5, <1>6 DEF MapIter

\* A refused call changes neither the ring nor the members.
LEMMA RefusedObject ==
    ASSUME ObjInv, Obj!Refused
    PROVE  ObjInv' /\ Obj!AsMap!Refused
<1>1. UNCHANGED <<oRing, oName, oData, oIter>> /\ oOut' = [ok |-> FALSE, val |-> NoData]
  BY DEF Obj!Refused
<1>2. ObjInv' /\ Obj!Contents' = Obj!Contents /\ MapIter' = MapIter
  BY <1>1, UnchangedObject
<1> QED
  BY <1>1, <1>2 DEF Obj!AsMap!Refused, MapIter

\* The next nodes of the pool are none of the object's own.
LEMMA NewNodes ==
    ASSUME ObjInv, Obj!RoomForPair
    PROVE  /\ Obj!NewKey \in Obj!Keys /\ \A i \in 1 .. oRing.len : Obj!ListedKeys[i] # Obj!NewKey
           /\ Obj!NewVal \in Obj!Vals /\ \A i \in 1 .. oRing.len : Obj!ListedVals[i] # Obj!NewVal
<1>1. /\ Obj!ListedKeys \in [1 .. oRing.len -> Obj!Keys]
      /\ Obj!ListedVals \in [1 .. oRing.len -> Obj!Vals]
  BY ObjectFacts
<1>2. Obj!Keys \subseteq Nat /\ Obj!Vals \subseteq Nat
  <2>1. \A k \in 1 .. PAIRS : 2 * k - 1 \in Nat /\ 2 * k \in Nat
    BY ObjectAssumption DEF Obj!PairsAssumption
  <2> QED
    BY <2>1 DEF Obj!Keys, Obj!Vals
<1>3. ASSUME NEW F, F # {}, F \subseteq Nat
      PROVE  Obj!Least(F) \in F
  <2>1. \E n \in F : \A m \in F : n <= m
    BY <1>3, LeastExists
  <2> QED
    BY <2>1, Zenon DEF Obj!Least
<1>4. Obj!NewKey \in Obj!FreeKeys /\ Obj!NewVal \in Obj!FreeVals
  <2>1. Obj!FreeKeys \subseteq Nat /\ Obj!FreeVals \subseteq Nat
    BY <1>2, Zenon DEF Obj!FreeKeys, Obj!FreeVals
  <2>2. Obj!FreeKeys # {} /\ Obj!FreeVals # {}
    BY DEF Obj!RoomForPair
  <2> QED
    BY <1>3, <2>1, <2>2, Zenon DEF Obj!NewKey, Obj!NewVal
<1>5. /\ Obj!FreeKeys = Obj!Keys \ {Obj!ListedKeys[i] : i \in 1 .. oRing.len}
      /\ Obj!FreeVals = Obj!Vals \ {Obj!ListedVals[i] : i \in 1 .. oRing.len}
  <2> HIDE DEF Obj!ListedKeys, Obj!ListedVals
  <2> QED
    BY <1>1 DEF Obj!FreeKeys, Obj!FreeVals, Obj!Range
<1> HIDE DEF Obj!NewKey, Obj!NewVal, Obj!ListedKeys, Obj!ListedVals
<1> QED
  BY <1>4, <1>5

\* What InsertAt returns, in JsonMap
LEMMA MembersInserted ==
    ASSUME NEW S, NEW s \in Seq(S), NEW val \in S, NEW idx \in 0 .. Len(s)
    PROVE  Obj!AsMap!Seqs!InsertAt(s, idx + 1, val) = Inserted(s, Len(s), idx, val)
<1>1. Obj!AsMap!Seqs!InsertAt(s, idx + 1, val) = Arr!AsList!Seqs!InsertAt(s, idx + 1, val)
  BY Zenon DEF Obj!AsMap!Seqs!InsertAt, Arr!AsList!Seqs!InsertAt
<1> QED
  BY <1>1, InsertedIs

\* What RemoveAt returns, in JsonMap
LEMMA MembersRemoved ==
    ASSUME NEW S, NEW s \in Seq(S), NEW idx \in 0 .. Len(s) - 1
    PROVE  Obj!AsMap!Seqs!RemoveAt(s, idx + 1) = Cut(s, Len(s), idx, 1)
<1>1. Obj!AsMap!Seqs!RemoveAt(s, idx + 1) = Arr!AsList!Seqs!RemoveAt(s, idx + 1)
  BY Zenon DEF Obj!AsMap!Seqs!RemoveAt, Arr!AsList!Seqs!RemoveAt
<1> QED
  BY <1>1, RemovedIs

\* A new pair is named and filled, and no other is.
LEMMA MadePair ==
    ASSUME ObjInv, Obj!RoomForPair, NEW nm \in Names, NEW d \in Data, Obj!Make(nm, d)
    PROVE  /\ oName' \in [Obj!Keys -> Names] /\ oData' \in [Obj!Vals -> Data]
           /\ oName'[Obj!NewKey] = nm /\ oData'[Obj!NewVal] = d
           /\ \A i \in 1 .. oRing.len : /\ oName'[Obj!ListedKeys[i]] = oName[Obj!ListedKeys[i]]
                                        /\ oData'[Obj!ListedVals[i]] = oData[Obj!ListedVals[i]]
<1> DEFINE s == Obj!ListedKeys
           v == Obj!ListedVals
           key == Obj!NewKey
           val == Obj!NewVal
<1>1. /\ s \in [1 .. oRing.len -> Obj!Keys] /\ v \in [1 .. oRing.len -> Obj!Vals]
      /\ oName \in [Obj!Keys -> Names] /\ oData \in [Obj!Vals -> Data]
  BY ObjectFacts
<1>2. /\ key \in Obj!Keys /\ \A i \in 1 .. oRing.len : s[i] # key
      /\ val \in Obj!Vals /\ \A i \in 1 .. oRing.len : v[i] # val
  BY NewNodes
<1>3. oName' = [oName EXCEPT ![key] = nm] /\ oData' = [oData EXCEPT ![val] = d]
  BY DEF Obj!Make
<1> HIDE DEF s, v, key, val
<1>4. /\ oName' \in [Obj!Keys -> Names] /\ oData' \in [Obj!Vals -> Data]
      /\ oName'[key] = nm /\ oData'[val] = d
      /\ \A i \in 1 .. oRing.len : oName'[s[i]] = oName[s[i]] /\ oData'[v[i]] = oData[v[i]]
  BY <1>1, <1>2, <1>3
<1> QED
  BY <1>4 DEF s, v, key, val

\* A new pair at place idx + 1 of the ring is the insertion at idx.
LEMMA InsertPair ==
    ASSUME ObjInv, Obj!RoomForPair, NEW nm \in Names, NEW d \in Data, Obj!Make(nm, d),
           NEW idx \in 0 .. oRing.len, oRing'.len = oRing.len + 1,
           ObjRing(Inserted(Obj!ListedKeys, oRing.len, idx, Obj!NewKey),
                   Inserted(Obj!ListedVals, oRing.len, idx, Obj!NewVal), oRing'),
           Obj!Done(NoData), Obj!Modified
    PROVE  ObjInv' /\ Obj!AsMap!Insert(nm, d, idx)
<1> DEFINE s == Obj!ListedKeys
           v == Obj!ListedVals
           n == oRing.len
           list == Obj!Contents
           key == Obj!NewKey
           val == Obj!NewVal
           member == [name |-> nm, data |-> d]
           t == Inserted(s, n, idx, key)
           w == Inserted(v, n, idx, val)
<1>1. /\ oName' \in [Obj!Keys -> Names] /\ oData' \in [Obj!Vals -> Data]
      /\ oName'[key] = nm /\ oData'[val] = d
      /\ \A i \in 1 .. n : oName'[s[i]] = oName[s[i]] /\ oData'[v[i]] = oData[v[i]]
  BY MadePair
<1>2. /\ n \in Nat /\ list \in Seq(MemberType) /\ Len(list) = n
      /\ \A i \in 1 .. n : list[i] = [name |-> oName[s[i]], data |-> oData[v[i]]]
  BY ObjectFacts
<1>3. member \in MemberType
  BY DEF MemberType
<1>4. Obj!AsMap!Seqs!InsertAt(list, idx + 1, member) = Inserted(list, n, idx, member)
  BY <1>2, <1>3, MembersInserted
<1>5. ObjInv' /\ Obj!AsMap!Becomes(Members(t, w, oName', oData', n + 1))
  <2>1. ObjInv' /\ Obj!AsMap!Becomes(Members(t, w, oName', oData', oRing'.len))
    BY <1>1, ModifiedObject, Zenon
  <2> QED
    BY <2>1
<1> HIDE DEF s, v, list, key, val
<1>6. Members(t, w, oName', oData', n + 1) = Inserted(list, n, idx, member)
  <2>1. ASSUME NEW i \in 1 .. n + 1
        PROVE  [name |-> oName'[t[i]], data |-> oData'[w[i]]]
               = IF i <= idx THEN list[i] ELSE IF i = idx + 1 THEN member ELSE list[i - 1]
    <3>1. /\ t[i] = IF i <= idx THEN s[i] ELSE IF i = idx + 1 THEN key ELSE s[i - 1]
          /\ w[i] = IF i <= idx THEN v[i] ELSE IF i = idx + 1 THEN val ELSE v[i - 1]
      BY DEF Inserted
    <3> HIDE DEF t, w
    <3>2. CASE i <= idx
      <4>1. i \in 1 .. n
        BY <1>2, <3>2
      <4>2. t[i] = s[i] /\ w[i] = v[i]
        BY <3>1, <3>2
      <4> QED
        BY <1>1, <1>2, <3>2, <4>1, <4>2
    <3>3. CASE i = idx + 1
      <4>1. ~(i <= idx)
        BY <1>2, <3>3
      <4>2. t[i] = key /\ w[i] = val
        BY <3>1, <3>3, <4>1
      <4> QED
        BY <1>1, <3>3, <4>1, <4>2
    <3>4. CASE i > idx + 1
      <4>1. i - 1 \in 1 .. n /\ ~(i <= idx) /\ i # idx + 1
        BY <1>2, <3>4
      <4>2. t[i] = s[i - 1] /\ w[i] = v[i - 1]
        BY <3>1, <4>1
      <4> QED
        BY <1>1, <1>2, <4>1, <4>2
    <3> QED
      BY <1>2, <3>2, <3>3, <3>4
  <2> QED
    BY <2>1, Zenon DEF Members, Inserted
<1>7. Obj!AsMap!Done(NoData)
  BY DEF Obj!Done, Obj!AsMap!Done
<1>8. ~(idx > Len(list))
  BY <1>2
<1> HIDE DEF t, w, member
<1>9. Obj!AsMap!Becomes(Obj!AsMap!Seqs!InsertAt(list, idx + 1, member))
  BY <1>4, <1>5, <1>6, Zenon
<1> QED
  BY <1>5, <1>7, <1>8, <1>9, Zenon DEF Obj!AsMap!Insert, Obj!AsMap!Member, list, member

\* Another key as the last one, in yyjson_mut_obj_rotate and in the insertion
LEMMA RotatedObject ==
    ASSUME NEW s, NEW v, NEW r, ObjRing(s, v, r), NEW idx \in 0 .. r.len - 1
    PROVE  /\ ObjRing(Turned(s, r.len, idx), Turned(v, r.len, idx), Obj!Rotated(r, idx))
           /\ Obj!Rotated(r, idx).len = r.len
<1>1. r.len \in Nat /\ r = [len |-> r.len, ptr |-> r.ptr, next |-> r.next]
  BY ObjRingFacts
<1>2. Obj!KeyAt(r, idx) = s[Place(r.len, idx)]
  <2>1. r.len > 0 /\ idx \in 0 .. r.len + 1
    BY <1>1
  <2> QED
    BY <2>1, KeyAtPlace
<1>3. Obj!Rotated(r, idx) = [len |-> r.len, ptr |-> s[Place(r.len, idx)], next |-> r.next]
  BY <1>1, <1>2 DEF Obj!Rotated
<1>4. Obj!Rotated(r, idx).len = r.len
  BY <1>3
<1> QED
  BY <1>3, <1>4, TurnedObject, Zenon

\* Turned to place idx, with an element at the end, and turned back: the element is
\* behind place idx.
LEMMA TurnedBack ==
    ASSUME NEW s, NEW n \in Nat, NEW idx \in 0 .. n - 1, NEW val
    PROVE  /\ Turned(Inserted(Turned(s, n, idx), n, n, val), n + 1, n - idx)
              = Inserted(s, n, idx, val)
           /\ Inserted(Turned(s, n, idx), n, n, val)[Place(n + 1, n - idx)] = s[n]
<1> DEFINE t == Turned(s, n, idx)
           u == Inserted(t, n, n, val)
           w == Turned(u, n + 1, n - idx)
<1>1. \A i \in 1 .. n : t[i] = IF i <= n - idx THEN s[i + idx] ELSE s[i - (n - idx)]
  BY DEF Turned
<1>2. \A i \in 1 .. n + 1 : u[i] = IF i <= n THEN t[i] ELSE IF i = n + 1 THEN val ELSE t[i - 1]
  BY DEF Inserted
<1>3. w = [i \in 1 .. n + 1 |-> IF i <= (n + 1) - (n - idx) THEN u[i + (n - idx)]
                                ELSE u[i - ((n + 1) - (n - idx))]]
  BY DEF Turned
<1> HIDE DEF t, u, w
<1>4. ASSUME NEW i \in 1 .. n + 1
      PROVE  (IF i <= (n + 1) - (n - idx) THEN u[i + (n - idx)] ELSE u[i - ((n + 1) - (n - idx))])
             = IF i <= idx THEN s[i] ELSE IF i = idx + 1 THEN val ELSE s[i - 1]
  <2>1. CASE i <= idx
    <3>1. /\ i <= (n + 1) - (n - idx) /\ i + (n - idx) \in 1 .. n /\ i + (n - idx) \in 1 .. n + 1
          /\ i + (n - idx) <= n /\ ~(i + (n - idx) <= n - idx) /\ (i + (n - idx)) - (n - idx) = i
      BY <2>1
    <3> QED
      BY <1>1, <1>2, <2>1, <3>1
  <2>2. CASE i = idx + 1
    <3>1. i <= (n + 1) - (n - idx) /\ i + (n - idx) = n + 1 /\ ~(n + 1 <= n) /\ n + 1 \in 1 .. n + 1
          /\ ~(i <= idx)
      BY <2>2
    <3> QED
      BY <1>2, <2>2, <3>1
  <2>3. CASE i > idx + 1
    <3>1. ~(i <= (n + 1) - (n - idx)) /\ i - ((n + 1) - (n - idx)) = i - (idx + 1)
      BY <2>3
    <3>2. /\ i - (idx + 1) \in 1 .. n /\ i - (idx + 1) \in 1 .. n + 1 /\ i - (idx + 1) <= n
          /\ i - (idx + 1) <= n - idx /\ (i - (idx + 1)) + idx = i - 1
          /\ ~(i <= idx) /\ i # idx + 1
      BY <2>3
    <3>3. u[i - (idx + 1)] = t[i - (idx + 1)] /\ t[i - (idx + 1)] = s[i - 1]
      BY <1>1, <1>2, <3>2
    <3> QED
      BY <3>1, <3>2, <3>3
  <2> QED
    BY <2>1, <2>2, <2>3
<1>5. w = Inserted(s, n, idx, val)
  BY <1>3, <1>4, Zenon DEF Inserted
<1>6. u[Place(n + 1, n - idx)] = s[n]
  <2>1. Place(n + 1, n - idx) = n - idx /\ n - idx \in 1 .. n /\ n - idx \in 1 .. n + 1
        /\ n - idx <= n /\ (n - idx) + idx = n
    BY DEF Place
  <2> QED
    BY <1>1, <1>2, <2>1
<1> QED
  BY <1>5, <1>6 DEF t, u, w

\* yyjson_mut_obj_add links the pair behind the last key.
LEMMA AddPairCall ==
    ASSUME ObjInv, NEW nm \in Names, NEW d \in Data, Obj!Add(nm, d)
    PROVE  ObjInv' /\ Obj!AsMap!Add(nm, d)
<1> DEFINE s == Obj!ListedKeys
           v == Obj!ListedVals
<1>1. /\ Obj!RoomForPair /\ Obj!Make(nm, d) /\ oRing' = Obj!Added(oRing, Obj!NewKey, Obj!NewVal)
      /\ Obj!Done(NoData) /\ Obj!Modified
  BY DEF Obj!Add
<1>2. oRing.len \in Nat /\ Len(Obj!Contents) = oRing.len /\ oRing.len \in 0 .. oRing.len
  BY ObjectFacts
<1>3. /\ Obj!NewKey \in Obj!Keys /\ Obj!NewVal \in Obj!Vals
      /\ \A i \in 1 .. oRing.len : s[i] # Obj!NewKey /\ v[i] # Obj!NewVal
  BY <1>1, NewNodes
<1>4. ObjRing(s, v, oRing)
  BY DEF ObjInv
<1>5. oRing'.len = oRing.len + 1
  BY <1>1 DEF Obj!Added
<1> HIDE DEF s, v
<1>6. ObjRing(Inserted(s, oRing.len, oRing.len, Obj!NewKey),
              Inserted(v, oRing.len, oRing.len, Obj!NewVal), oRing')
  <2>1. ObjRing(Inserted(s, oRing.len, oRing.len, Obj!NewKey),
                Inserted(v, oRing.len, oRing.len, Obj!NewVal),
                Obj!Added(oRing, Obj!NewKey, Obj!NewVal))
    BY <1>3, <1>4, AddedObject, Zenon
  <2> QED
    BY <1>1, <2>1, Zenon
<1>7. ObjInv' /\ Obj!AsMap!Insert(nm, d, oRing.len)
  BY <1>1, <1>2, <1>5, <1>6, InsertPair, Zenon DEF s, v
<1> QED
  BY <1>2, <1>7 DEF Obj!AsMap!Add

\* yyjson_mut_obj_insert turns the ring, adds the pair and turns it back.
LEMMA InsertPairCall ==
    ASSUME ObjInv, NEW nm \in Names, NEW d \in Data, NEW idx \in 0 .. oRing.len + 1,
           Obj!Insert(nm, d, idx)
    PROVE  ObjInv' /\ Obj!AsMap!Insert(nm, d, idx)
<1> DEFINE s == Obj!ListedKeys
           v == Obj!ListedVals
           n == oRing.len
           key == Obj!NewKey
           val == Obj!NewVal
<1>1. n \in Nat /\ Len(Obj!Contents) = n /\ ObjRing(s, v, oRing)
  BY ObjectFacts DEF ObjInv
<1>2. CASE idx > n
  <2>1. ObjInv' /\ Obj!AsMap!Refused
    BY <1>2, RefusedObject DEF Obj!Insert
  <2> QED
    BY <1>1, <1>2, <2>1 DEF Obj!AsMap!Insert
<1>3. CASE idx = n
  <2>1. Obj!Add(nm, d)
    BY <1>1, <1>3 DEF Obj!Insert, Obj!Add
  <2>2. ObjInv' /\ Obj!AsMap!Add(nm, d)
    BY <2>1, AddPairCall
  <2> QED
    BY <1>1, <1>3, <2>2 DEF Obj!AsMap!Add
<1>4. CASE idx < n
  <2> DEFINE q1 == Obj!Rotated(oRing, idx)
             q2 == Obj!Added(q1, key, val)
             t1 == Turned(s, n, idx)
             w1 == Turned(v, n, idx)
             t2 == Inserted(t1, n, n, key)
             w2 == Inserted(w1, n, n, val)
  <2>1. idx \in 0 .. n /\ idx \in 0 .. oRing.len - 1 /\ n > 0 /\ n - idx \in 0 .. (n + 1) - 1
    BY <1>1, <1>4
  <2>2. /\ Obj!RoomForPair /\ Obj!Make(nm, d) /\ oRing' = [q2 EXCEPT !.ptr = oRing.ptr]
        /\ Obj!Done(NoData) /\ Obj!Modified
    BY <1>1, <1>4 DEF Obj!Insert
  <2>3. /\ key \in Obj!Keys /\ val \in Obj!Vals /\ \A i \in 1 .. n : s[i] # key /\ v[i] # val
    BY <2>2, NewNodes
  <2>4. oRing.ptr = s[n]
    BY <1>1, <2>1, ObjRingFacts
  <2> HIDE DEF s, v, key, val
  <2>5. ObjRing(t1, w1, q1) /\ q1.len = n
    BY <1>1, <2>1, RotatedObject, Zenon
  <2>6. ASSUME NEW i \in 1 .. n
        PROVE  t1[i] # key /\ w1[i] # val
    <3>1. PICK j \in 1 .. n : j = IF i <= n - idx THEN i + idx ELSE i - (n - idx)
      <4>1. n \in Nat /\ idx \in 0 .. n /\ i \in 1 .. n
        BY <1>1, <2>1
      <4> HIDE DEF n
      <4>2. i <= n - idx => i + idx \in 1 .. n
        BY <4>1
      <4>3. ~(i <= n - idx) => i - (n - idx) \in 1 .. n
        BY <4>1
      <4> QED
        BY <4>2, <4>3, Zenon
    <3>2. t1[i] = s[j] /\ w1[i] = v[j]
      BY <3>1 DEF Turned
    <3> HIDE DEF t1, w1
    <3> QED
      BY <2>3, <3>2
  <2>7. q2.len = n + 1
    BY <2>5 DEF Obj!Added
  <2> HIDE DEF q1, t1, w1
  <2>8. ObjRing(t2, w2, q2)
    <3>1. \A i \in 1 .. q1.len : t1[i] # key /\ w1[i] # val
      BY <2>5, <2>6
    <3>2. ObjRing(Inserted(t1, q1.len, q1.len, key), Inserted(w1, q1.len, q1.len, val), q2)
      BY <2>3, <2>5, <3>1, AddedObject, Zenon
    <3> QED
      BY <2>5, <3>2, Zenon
  <2>9. /\ Turned(t2, n + 1, n - idx) = Inserted(s, n, idx, key)
        /\ Turned(w2, n + 1, n - idx) = Inserted(v, n, idx, val)
        /\ t2[Place(n + 1, n - idx)] = s[n]
    BY <1>1, <2>1, TurnedBack, Zenon DEF t1, w1
  <2> HIDE DEF q2, t2, w2
  <2>10. oRing' = [len |-> q2.len, ptr |-> t2[Place(q2.len, n - idx)], next |-> q2.next]
    <3>1. q2 = [len |-> q2.len, ptr |-> q2.ptr, next |-> q2.next]
      BY <2>8, ObjRingFacts
    <3>2. oRing' = [len |-> q2.len, ptr |-> s[n], next |-> q2.next]
      BY <2>2, <2>4, <3>1
    <3> QED
      BY <2>7, <2>9, <3>2
  <2>11. ObjRing(Inserted(s, n, idx, key), Inserted(v, n, idx, val), oRing')
    <3>1. n - idx \in 0 .. q2.len - 1
      BY <1>1, <2>1, <2>7
    <3>2. ObjRing(Turned(t2, q2.len, n - idx), Turned(w2, q2.len, n - idx), oRing')
      BY <2>8, <2>10, <3>1, TurnedObject, Zenon
    <3> QED
      BY <2>7, <2>9, <3>2, Zenon
  <2>12. oRing'.len = oRing.len + 1
    BY <2>7, <2>10
  <2> QED
    BY <2>1, <2>2, <2>11, <2>12, InsertPair, Zenon DEF s, v, key, val
<1> QED
  BY <1>1, <1>2, <1>3, <1>4

Leaves(s, v, nmOf, dataOf, n, S) ==
    LET c == Obj!AsMap!InOrder(S, n)
    IN  /\ Obj!AsMap!Only(Members(s, v, nmOf, dataOf, n), S)
           = Members(Merged(s, c, n, n), Merged(v, c, n, n), nmOf, dataOf, Len(c))
        /\ Len(c) \in Nat

\* The members at the kept places are what Only returns.
LEMMA KeptMembers ==
    ASSUME NEW s, NEW v, NEW nmOf, NEW dataOf, NEW n \in Nat, NEW S
    PROVE  Leaves(s, v, nmOf, dataOf, n, S)
<1> DEFINE L == Members(s, v, nmOf, dataOf, n)
           c == Obj!AsMap!InOrder(S, n)
<1>0. c = Obj!AsMap!InOrder(S, n)
  OBVIOUS
<1> HIDE DEF c
<1>1. c \in Seq(1 .. n) /\ Len(c) \in Nat /\ Len(c) + (n - n) = Len(c)
  <2>1. n \in 0 .. n
    OBVIOUS
  <2>2. c \in Seq(1 .. n)
    BY <1>0, <2>1, InOrderIs
  <2>3. Len(c) \in Nat
    BY <2>2
  <2> QED
    BY <2>2, <2>3
<1>2. \A j \in 1 .. Len(c) : c[j] \in 1 .. n
  BY <1>1
<1>3. /\ Merged(s, c, n, n) = [j \in 1 .. Len(c) |-> s[c[j]]]
      /\ Merged(v, c, n, n) = [j \in 1 .. Len(c) |-> v[c[j]]]
  <2>1. c \in Seq(1 .. n)
    BY <1>1
  <2>2. Merged(s, c, n, n) = [j \in 1 .. Len(c) |-> s[c[j]]]
    BY <2>1, MergedLast, Zenon
  <2>3. Merged(v, c, n, n) = [j \in 1 .. Len(c) |-> v[c[j]]]
    BY <2>1, MergedLast, Zenon
  <2> QED
    BY <2>2, <2>3
<1>4. Len(L) = n /\ \A i \in 1 .. n : L[i] = [name |-> nmOf[s[i]], data |-> dataOf[v[i]]]
  BY DEF Members
<1> HIDE DEF L
<1>5. Obj!AsMap!Only(L, S) = [j \in 1 .. Len(c) |-> L[c[j]]]
  BY <1>0, <1>4, Zenon DEF Obj!AsMap!Only
<1>6. \A j \in 1 .. Len(c) :
         L[c[j]] = [name |-> nmOf[Merged(s, c, n, n)[j]], data |-> dataOf[Merged(v, c, n, n)[j]]]
  BY <1>2, <1>3, <1>4
<1>7. Obj!AsMap!Only(L, S)
      = [j \in 1 .. Len(c) |-> [name |-> nmOf[Merged(s, c, n, n)[j]],
                                data |-> dataOf[Merged(v, c, n, n)[j]]]]
  BY <1>5, <1>6, Zenon
<1>8. Obj!AsMap!Only(L, S) = Members(Merged(s, c, n, n), Merged(v, c, n, n), nmOf, dataOf, Len(c))
  BY <1>7, Zenon DEF Members
<1> QED
  BY <1>1, <1>8, Zenon DEF L, c, Leaves

\* If every place is kept, so is the order.
LEMMA InOrderAll ==
    ASSUME NEW n \in Nat, NEW S, \A i \in 1 .. n : i \in S
    PROVE  Obj!AsMap!InOrder(S, n) = [i \in 1 .. n |-> i]
<1> DEFINE c(k) == Obj!AsMap!InOrder(S, k)
           T == {k \in 0 .. n : c(k) = [i \in 1 .. k |-> i]}
<1>1. 0 \in T
  <2>1. c(0) = << >> /\ 0 \in 0 .. n
    BY InOrderNext
  <2>2. << >> = [i \in 1 .. 0 |-> i]
    OBVIOUS
  <2> HIDE DEF c
  <2> QED
    BY <2>1, <2>2, Zenon
<1>2. ASSUME NEW k \in 1 .. n, k - 1 \in T
      PROVE  k \in T
  <2>1. k \in Nat /\ k > 0 /\ k \in S /\ k \in 0 .. n /\ k - 1 \in Nat
    OBVIOUS
  <2>2. c(k) = Append(c(k - 1), k)
    BY <2>1, InOrderNext
  <2>3. c(k - 1) = [i \in 1 .. k - 1 |-> i]
    BY <1>2
  <2> HIDE DEF c
  <2>4. Append([i \in 1 .. k - 1 |-> i], k) = [i \in 1 .. k |-> i]
    BY <2>1
  <2>5. c(k) = [i \in 1 .. k |-> i]
    BY <2>2, <2>3, <2>4, Zenon
  <2> QED
    BY <2>1, <2>5, Zenon
<1>3. 0 .. n \subseteq T
  <2> HIDE DEF T
  <2> QED
    BY <1>1, <1>2, IntervalInduction
<1> QED
  BY <1>3

\* The first member with a name, in the object and in JsonMap
LEMMA FirstPlace ==
    ASSUME ObjInv, NEW nm, Obj!AsMap!Places(nm) # {}
    PROVE  /\ Obj!AsMap!First(nm) \in 1 .. oRing.len
           /\ Obj!AsMap!First(nm) \in Obj!AsMap!Places(nm)
           /\ oName[Obj!ListedKeys[Obj!AsMap!First(nm)]] = nm
           /\ \A i \in 1 .. oRing.len : oName[Obj!ListedKeys[i]] = nm => Obj!AsMap!First(nm) <= i
           /\ Obj!Least(Obj!AsMap!Places(nm)) = Obj!AsMap!First(nm)
<1> DEFINE P == Obj!AsMap!Places(nm)
           f == Obj!AsMap!First(nm)
<1>1. P = {i \in 1 .. oRing.len : oName[Obj!ListedKeys[i]] = nm}
  BY PlacesOf
<1>2. f \in P /\ \A j \in P : f <= j
  <2>1. P \subseteq Nat
    BY <1>1
  <2>2. \E i \in P : \A j \in P : i <= j
    BY <2>1, LeastExists
  <2> HIDE DEF P
  <2>3. f = CHOOSE i \in P : \A j \in P : i <= j
    BY Zenon DEF Obj!AsMap!First, P
  <2> HIDE DEF f
  <2> QED
    BY <2>2, <2>3, Zenon
<1>3. Obj!Least(P) = f
  BY Zenon DEF Obj!Least, Obj!AsMap!First
<1> HIDE DEF P, f
<1>4. /\ f \in 1 .. oRing.len /\ oName[Obj!ListedKeys[f]] = nm
      /\ \A i \in 1 .. oRing.len : oName[Obj!ListedKeys[i]] = nm => f <= i
  BY <1>1, <1>2, Zenon
<1> QED
  BY <1>2, <1>3, <1>4 DEF P, f

\* An element behind the last one
LEMMA AppendIs ==
    ASSUME NEW S, NEW s \in Seq(S), NEW x \in S
    PROVE  Append(s, x) = Inserted(s, Len(s), Len(s), x)
<1> DEFINE n == Len(s)
           t == Append(s, x)
<1>1. /\ n \in Nat /\ t = [i \in 1 .. n + 1 |-> t[i]]
      /\ \A i \in 1 .. n + 1 : t[i] = IF i = n + 1 THEN x ELSE s[i]
  <2>1. /\ t \in Seq(S) /\ Len(t) = n + 1 /\ t[n + 1] = x
        /\ \A i \in 1 .. n : t[i] = s[i]
    BY AppendProperties
  <2> HIDE DEF t
  <2>2. t = [i \in 1 .. n + 1 |-> t[i]] /\ n \in Nat
    BY <2>1
  <2> QED
    BY <2>1, <2>2
<1> HIDE DEF n, t
<1>2. ASSUME NEW i \in 1 .. n + 1
      PROVE  t[i] = IF i <= n THEN s[i] ELSE IF i = n + 1 THEN x ELSE s[i - 1]
  BY <1>1
<1> QED
  BY <1>1, <1>2, Zenon DEF Inserted, n, t

Left(nm) == 1 .. oRing.len \ Obj!AsMap!Places(nm)

\* The places without a name, and the members that are left without it
LEMMA WithoutNameIs ==
    ASSUME ObjInv, NEW nm
    PROVE  LET c == Obj!AsMap!InOrder(Left(nm), oRing.len)
           IN  /\ \A i \in 1 .. oRing.len : i \in Left(nm) <=> oName[Obj!ListedKeys[i]] # nm
               /\ Len(c) + (oRing.len - oRing.len) = Len(c)
               /\ Obj!AsMap!WithoutName(nm)
                  = Members(Merged(Obj!ListedKeys, c, oRing.len, oRing.len),
                            Merged(Obj!ListedVals, c, oRing.len, oRing.len), oName, oData, Len(c))
<1> DEFINE s == Obj!ListedKeys
           v == Obj!ListedVals
           n == oRing.len
           S == Left(nm)
           c == Obj!AsMap!InOrder(S, n)
<1>1. /\ n \in Nat /\ Obj!Contents = Members(s, v, oName, oData, n)
      /\ DOMAIN Obj!Contents = 1 .. n
  BY ObjectFacts
<1>2. Obj!AsMap!Places(nm) = {i \in 1 .. n : oName[s[i]] = nm}
  BY PlacesOf
<1>3. Obj!AsMap!WithoutName(nm) = Obj!AsMap!Only(Obj!Contents, S)
  BY <1>1, Zenon DEF Obj!AsMap!WithoutName, Left
<1> HIDE DEF s, v
<1>4. /\ Obj!AsMap!Only(Members(s, v, oName, oData, n), S)
         = Members(Merged(s, c, n, n), Merged(v, c, n, n), oName, oData, Len(c))
      /\ Len(c) \in Nat
  <2>1. n \in Nat
    BY <1>1
  <2>2. Leaves(s, v, oName, oData, n, S)
    BY <2>1, KeptMembers, Zenon
  <2> QED
    BY <2>2, Zenon DEF Leaves
<1>6. Len(c) + (n - n) = Len(c)
  <2> HIDE DEF c
  <2> QED
    BY <1>1, <1>4
<1>5. \A i \in 1 .. n : i \in S <=> oName[s[i]] # nm
  BY <1>2, Zenon DEF Left
<1> QED
  BY <1>1, <1>3, <1>4, <1>5, <1>6, Zenon DEF s, v

\* What is left of the ring without a name is what JsonMap says.
LEMMA CutNameStep ==
    ASSUME ObjInv, NEW nm,
           ObjRing(Merged(Obj!ListedKeys, Obj!AsMap!InOrder(Left(nm), oRing.len),
                          oRing.len, oRing.len),
                   Merged(Obj!ListedVals, Obj!AsMap!InOrder(Left(nm), oRing.len),
                          oRing.len, oRing.len), oRing'),
           oRing'.len = Len(Obj!AsMap!InOrder(Left(nm), oRing.len)),
           Obj!Modified, Obj!SameContent
    PROVE  ObjInv' /\ Obj!AsMap!Becomes(Obj!AsMap!WithoutName(nm))
<1> DEFINE c == Obj!AsMap!InOrder(Left(nm), oRing.len)
           t == Merged(Obj!ListedKeys, c, oRing.len, oRing.len)
           w == Merged(Obj!ListedVals, c, oRing.len, oRing.len)
<1>1. oName' = oName /\ oData' = oData
  BY DEF Obj!SameContent
<1>2. oName' \in [Obj!Keys -> Names] /\ oData' \in [Obj!Vals -> Data]
  BY <1>1, ObjectFacts
<1>3. Obj!AsMap!WithoutName(nm) = Members(t, w, oName, oData, Len(c))
  BY WithoutNameIs, Zenon
<1> HIDE DEF t, w
<1>4. ObjInv' /\ Obj!AsMap!Becomes(Members(t, w, oName', oData', oRing'.len))
  BY <1>2, ModifiedObject, Zenon DEF t, w
<1>5. Members(t, w, oName', oData', oRing'.len) = Obj!AsMap!WithoutName(nm)
  BY <1>1, <1>3, Zenon
<1> QED
  BY <1>4, <1>5, Zenon

\* The value at a place, or none, is what a call returns.
LEMMA ReturnedPlace ==
    ASSUME ObjInv, NEW i \in 1 .. oRing.len, Obj!Returned(Obj!ListedVals[i])
    PROVE  Obj!AsMap!Done(Obj!Contents[i].data)
<1>1. Obj!ListedVals \in [1 .. oRing.len -> Obj!Vals]
  BY ObjectFacts
<1>2. \A k \in 1 .. PAIRS : 2 * k # 0
  BY ObjectAssumption DEF Obj!PairsAssumption
<1> HIDE DEF Obj!ListedVals
<1>3. Obj!ListedVals[i] # 0
  BY <1>1, <1>2 DEF Obj!Vals
<1>4. oOut' = [ok |-> TRUE, val |-> oData[Obj!ListedVals[i]]]
  BY <1>3 DEF Obj!Returned, Obj!NoNode
<1>5. Obj!Contents[i].data = oData[Obj!ListedVals[i]]
  BY MemberAt
<1> QED
  BY <1>4, <1>5, Zenon DEF Obj!AsMap!Done

\* A removal that finds nothing returns nothing.
LEMMA ReturnedNone == Obj!Returned(0) => oOut' = [ok |-> FALSE, val |-> NoData]
BY DEF Obj!Returned, Obj!NoNode

\* The loop of yyjson_mut_obj_put without a value cuts every pair with the name.
LEMMA PutLoopCuts ==
    ASSUME ObjInv, NEW nm, oRing' = Obj!PutLoop(nm, 0).r, Obj!Modified, Obj!SameContent
    PROVE  ObjInv' /\ Obj!AsMap!Becomes(Obj!AsMap!WithoutName(nm))
<1> DEFINE s == Obj!ListedKeys
           v == Obj!ListedVals
           n == oRing.len
           S == Left(nm)
           c == Obj!AsMap!InOrder(S, n)
<1>1. /\ \A i \in 1 .. n : i \in S <=> oName[s[i]] # nm
      /\ Len(c) + (n - n) = Len(c)
  BY WithoutNameIs
<1>2. n \in Nat /\ v \in [1 .. n -> Obj!Vals] /\ ObjRing(s, v, oRing)
  BY ObjectFacts DEF ObjInv
<1>3. \A i \in 1 .. n : v[i] # 0
  <2>1. \A k \in 1 .. PAIRS : 2 * k # 0
    BY ObjectAssumption DEF Obj!PairsAssumption
  <2>2. \A x \in Obj!Vals : x # 0
    BY <2>1 DEF Obj!Vals
  <2> HIDE DEF v
  <2> QED
    BY <1>2, <2>2
<1> HIDE DEF s, v, S
<1>4. PutKeeps(s, nm, 0, 0, S)
  BY <1>1, <1>2 DEF PutKeeps
<1>5. PutAfter(s, v, 0, 0, S, n, Obj!PutLoop(nm, 0))
  <2>1. 0 \in Obj!Vals \cup {0}
    OBVIOUS
  <2> QED
    BY <1>2, <1>3, <1>4, <2>1, PutRun, Zenon
<1>6. Given(v, 0, 0, n) = v
  BY DEF Given
<1>7. /\ ObjRing(Merged(s, c, n, n), Merged(v, c, n, n), oRing')
      /\ oRing'.len = Len(c) + (n - n)
  BY <1>5, <1>6, Zenon DEF PutAfter
<1> HIDE DEF c
<1>8. oRing'.len = Len(c)
  BY <1>1, <1>7, Zenon
<1> QED
  BY <1>7, <1>8, CutNameStep, Zenon DEF s, v, c, S

\* yyjson_mut_obj_put without a value
LEMMA PutNullCall ==
    ASSUME ObjInv, NEW nm \in Names, Obj!PutNull(nm)
    PROVE  ObjInv' /\ Obj!AsMap!PutNull(nm)
<1>1. /\ oRing' = Obj!PutLoop(nm, 0).r /\ Obj!Modified /\ Obj!SameContent /\ Obj!Done(NoData)
  BY Zenon DEF Obj!PutNull, Obj!NoNode
<1>2. ObjInv' /\ Obj!AsMap!Becomes(Obj!AsMap!WithoutName(nm))
  BY <1>1, PutLoopCuts
<1>3. Obj!AsMap!Done(NoData)
  BY <1>1 DEF Obj!Done, Obj!AsMap!Done
<1> QED
  BY <1>2, <1>3, Zenon DEF Obj!AsMap!PutNull

\* yyjson_mut_obj_remove_str goes through the iterator and returns the first value.
LEMMA RemoveStrCall ==
    ASSUME ObjInv, NEW nm \in Names, Obj!RemoveStr(nm)
    PROVE  ObjInv' /\ Obj!AsMap!Remove(nm)
<1> DEFINE P == Obj!AsMap!Places(nm)
           Matches == {i \in 1 .. oRing.len : oName[Obj!KeyAt(oRing, i)] = nm}
           returned == IF Matches = {} THEN 0
                       ELSE oRing.next[Obj!KeyAt(oRing, Obj!Least(Matches))]
<1>1. /\ oRing' = Obj!PutLoop(nm, 0).r /\ Obj!Modified /\ Obj!SameContent
      /\ Obj!Returned(returned)
  BY Zenon DEF Obj!RemoveStr, Obj!NoNode
<1>2. Matches = P
  BY PlacesOf
<1> HIDE DEF Matches, P
<1>3. ObjInv' /\ Obj!AsMap!Becomes(Obj!AsMap!WithoutName(nm))
  BY <1>1, PutLoopCuts
<1>4. IF P = {} THEN oOut' = [ok |-> FALSE, val |-> NoData]
      ELSE Obj!AsMap!Done(Obj!Contents[Obj!AsMap!First(nm)].data)
  <2>1. CASE P = {}
    <3>1. Obj!Returned(0)
      BY <1>1, <1>2, <2>1
    <3> QED
      BY <2>1, <3>1, ReturnedNone
  <2>2. CASE P # {}
    <3>1. Obj!Least(P) = Obj!AsMap!First(nm) /\ Obj!AsMap!First(nm) \in 1 .. oRing.len
      BY <2>2, FirstPlace DEF P
    <3>2. returned = oRing.next[Obj!KeyAt(oRing, Obj!AsMap!First(nm))]
      BY <1>2, <2>2, <3>1
    <3>3. returned = Obj!ListedVals[Obj!AsMap!First(nm)]
      BY <3>1, <3>2 DEF Obj!ListedVals
    <3> HIDE DEF returned
    <3>4. Obj!AsMap!Done(Obj!Contents[Obj!AsMap!First(nm)].data)
      BY <1>1, <3>1, <3>3, ReturnedPlace, Zenon
    <3> QED
      BY <2>2, <3>4
  <2> QED
    BY <2>1, <2>2
<1> QED
  BY <1>3, <1>4, Zenon DEF Obj!AsMap!Remove, P

\* yyjson_mut_obj_remove cuts every pair with the name and returns the first value.
LEMMA RemoveNameCall ==
    ASSUME ObjInv, NEW nm \in Names, Obj!Remove(nm)
    PROVE  ObjInv' /\ Obj!AsMap!Remove(nm)
<1> DEFINE s == Obj!ListedKeys
           v == Obj!ListedVals
           n == oRing.len
           S == Left(nm)
           P == Obj!AsMap!Places(nm)
           c == Obj!AsMap!InOrder(S, n)
           f == Obj!AsMap!First(nm)
<1>1. /\ \A i \in 1 .. n : i \in S <=> oName[s[i]] # nm
      /\ Len(c) + (n - n) = Len(c)
  BY WithoutNameIs
<1>2. /\ n \in Nat /\ ObjRing(s, v, oRing)
      /\ s \in [1 .. n -> Obj!Keys] /\ v \in [1 .. n -> Obj!Vals]
  BY ObjectFacts DEF ObjInv
<1>3. P = {i \in 1 .. n : oName[s[i]] = nm}
  BY PlacesOf
<1>4. Obj!Modified /\ Obj!SameContent
  BY DEF Obj!Remove
<1>5. P # {} => f \in 1 .. n /\ oName[s[f]] = nm /\ \A i \in 1 .. n : oName[s[i]] = nm => f <= i
  BY FirstPlace
<1> HIDE DEF s, v, S, P, f
<1>6. CASE n = 0
  <2>1. Obj!Returned(0) /\ oRing' = oRing
    BY <1>6 DEF Obj!Remove, Obj!NoNode
  <2>2. P = {}
    BY <1>3, <1>6
  <2>3. c = << >>
    BY <1>6, InOrderNext
  <2>4. Merged(s, << >>, n, n) = s /\ Merged(v, << >>, n, n) = v
    <3>1. s = [i \in 1 .. n |-> s[i]] /\ v = [i \in 1 .. n |-> v[i]]
      BY <1>2
    <3>2. Merged(s, << >>, 0, n) = s /\ Merged(v, << >>, 0, n) = v
      BY <1>2, <3>1, MergedFirst
    <3> QED
      BY <1>6, <3>2
  <2>5. ObjRing(Merged(s, c, n, n), Merged(v, c, n, n), oRing')
    BY <1>2, <2>1, <2>3, <2>4, Zenon
  <2>6. oRing'.len = Len(c)
    BY <1>6, <2>1, <2>3
  <2>7. ObjInv' /\ Obj!AsMap!Becomes(Obj!AsMap!WithoutName(nm))
    BY <1>4, <2>5, <2>6, CutNameStep, Zenon DEF s, v, S
  <2>8. oOut' = [ok |-> FALSE, val |-> NoData]
    BY <2>1, ReturnedNone
  <2> QED
    BY <2>2, <2>7, <2>8, Zenon DEF Obj!AsMap!Remove, P
<1>7. CASE n > 0
  <2> DEFINE st == Obj!RemoveLoop(nm)
  <2>1. oRing' = st.r /\ Obj!Returned(st.removed)
    <3>1. n # 0
      BY <1>2, <1>7
    <3> QED
      BY <3>1, Zenon DEF Obj!Remove
  <2>2. RemoveAfter(s, v, S, n, st)
    BY <1>1, <1>2, <1>7, RemoveRun, Zenon
  <2>3. /\ ObjRing(Merged(s, c, n, n), Merged(v, c, n, n), oRing')
        /\ oRing'.len = Len(c) + (n - n) /\ FirstGone(v, S, n, st.removed)
    BY <2>1, <2>2, Zenon DEF RemoveAfter
  <2>4. oRing'.len = Len(c)
    BY <1>1, <2>3, Zenon
  <2>5. ObjInv' /\ Obj!AsMap!Becomes(Obj!AsMap!WithoutName(nm))
    BY <1>4, <2>3, <2>4, CutNameStep, Zenon DEF s, v, S
  <2> HIDE DEF st, c
  <2>6. CASE P = {}
    <3>1. \A i \in 1 .. n : i \in S
      BY <1>1, <1>3, <2>6
    <3>2. st.removed = 0
      BY <2>3, <3>1 DEF FirstGone
    <3>3. oOut' = [ok |-> FALSE, val |-> NoData]
      BY <2>1, <3>2, ReturnedNone
    <3> QED
      BY <2>5, <2>6, <3>3, Zenon DEF Obj!AsMap!Remove, P
  <2>7. CASE P # {}
    <3>1. f \in 1 .. n /\ f \notin S /\ \A i \in 1 .. f - 1 : i \in S
      <4>1. \A i \in 1 .. f - 1 : i \in 1 .. n /\ ~(f <= i)
        BY <1>2, <1>5, <2>7
      <4> QED
        BY <1>1, <1>5, <2>7, <4>1
    <3>2. st.removed = v[f]
      BY <2>3, <3>1, Zenon DEF FirstGone
    <3>3. Obj!AsMap!Done(Obj!Contents[f].data)
      BY <2>1, <3>1, <3>2, ReturnedPlace, Zenon DEF f, v
    <3> QED
      BY <2>5, <2>7, <3>3, Zenon DEF Obj!AsMap!Remove, P, f
  <2> QED
    BY <2>6, <2>7
<1> QED
  BY <1>2, <1>6, <1>7

\* yyjson_mut_obj_put adds a pair if none has the name.
LEMMA PutNewCall ==
    ASSUME ObjInv, NEW nm \in Names, NEW d \in Data, Obj!AsMap!Places(nm) = {}, Obj!Put(nm, d)
    PROVE  ObjInv' /\ Obj!AsMap!Put(nm, d)
<1> DEFINE s == Obj!ListedKeys
           v == Obj!ListedVals
           n == oRing.len
           S == 1 .. n
           key == Obj!NewKey
           val == Obj!NewVal
           st == Obj!PutLoop(nm, val)
           c == Obj!AsMap!InOrder(S, n)
           list == Obj!Contents
           member == [name |-> nm, data |-> d]
<1>1. /\ Obj!RoomForPair /\ Obj!Make(nm, d) /\ Obj!Done(NoData) /\ Obj!Modified
      /\ oRing' = IF st.replaced THEN st.r ELSE Obj!Added(st.r, key, val)
  BY Zenon DEF Obj!Put
<1>2. /\ n \in Nat /\ ObjRing(s, v, oRing) /\ Len(list) = n /\ list \in Seq(MemberType)
      /\ s \in [1 .. n -> Obj!Keys] /\ v \in [1 .. n -> Obj!Vals]
  BY ObjectFacts DEF ObjInv
<1>3. \A i \in 1 .. n : oName[s[i]] # nm
  <2>1. {i \in 1 .. n : oName[s[i]] = nm} = {}
    BY PlacesOf
  <2> HIDE DEF s
  <2> QED
    BY <2>1
<1>4. key \in Obj!Keys /\ val \in Obj!Vals /\ \A i \in 1 .. n : s[i] # key /\ v[i] # val
  BY <1>1, NewNodes
<1> HIDE DEF s, v, key, val, list
<1>5. PutKeeps(s, nm, val, 0, S)
  BY <1>2, <1>3 DEF PutKeeps
<1>6. PutAfter(s, v, 0, val, S, n, st)
  <2>1. val \in Obj!Vals \cup {0} /\ \A i \in 1 .. n : v[i] # val
    BY <1>4
  <2> QED
    BY <1>2, <1>5, <2>1, PutRun, Zenon
<1>7. c = [i \in 1 .. n |-> i] /\ Len(c) = n /\ c \in Seq(1 .. n)
  <2>1. c = [i \in 1 .. n |-> i]
    BY <1>2, InOrderAll
  <2> HIDE DEF c
  <2> QED
    BY <1>2, <2>1
<1>8. Merged(s, c, n, n) = s /\ Merged(v, c, n, n) = v
  <2> HIDE DEF c, n
  <2>1. n \in Nat /\ c = [i \in 1 .. n |-> i] /\ Len(c) = n
    BY <1>2, <1>7
  <2>2. s = [j \in 1 .. n |-> s[j]] /\ v = [j \in 1 .. n |-> v[j]]
    BY <1>2
  <2>3. Merged(s, c, n, n) = s
    BY <2>1, <2>2, MergedAll
  <2>4. Merged(v, c, n, n) = v
    BY <2>1, <2>2, MergedAll
  <2> QED
    BY <2>3, <2>4
<1>9. ObjRing(s, v, st.r) /\ st.r.len = n /\ st.replaced = FALSE
  <2>1. Given(v, 0, val, n) = v
    BY DEF Given
  <2>2. /\ ObjRing(Merged(s, c, n, n), Merged(Given(v, 0, val, n), c, n, n), st.r)
        /\ st.r.len = Len(c) + (n - n)
        /\ st.replaced = IF 0 # 0 /\ 0 <= n THEN TRUE ELSE FALSE
    BY <1>6, Zenon DEF PutAfter
  <2> HIDE DEF st, c
  <2>3. st.r.len = n
    BY <1>2, <1>7, <2>2
  <2> QED
    BY <1>8, <2>1, <2>2, <2>3
<1> HIDE DEF st
<1>10. oRing' = Obj!Added(st.r, key, val) /\ oRing'.len = n + 1
  <2>1. oRing' = Obj!Added(st.r, key, val)
    BY <1>1, <1>9
  <2> QED
    BY <1>9, <2>1 DEF Obj!Added
<1>11. ObjRing(Inserted(s, n, n, key), Inserted(v, n, n, val), oRing')
  <2>1. \A i \in 1 .. st.r.len : s[i] # key /\ v[i] # val
    BY <1>4, <1>9
  <2>2. ObjRing(Inserted(s, st.r.len, st.r.len, key), Inserted(v, st.r.len, st.r.len, val),
                Obj!Added(st.r, key, val))
    BY <1>4, <1>9, <2>1, AddedObject, Zenon
  <2> QED
    BY <1>9, <1>10, <2>2, Zenon
<1>12. ObjInv' /\ Obj!AsMap!Insert(nm, d, n)
  <2>1. n \in 0 .. n
    BY <1>2
  <2> QED
    BY <1>1, <1>10, <1>11, <2>1, InsertPair, Zenon DEF s, v, key, val
<1>13. Obj!AsMap!Becomes(Append(list, member)) /\ Obj!AsMap!Done(NoData)
  <2>1. member \in MemberType
    BY DEF MemberType
  <2>2. Obj!AsMap!Seqs!InsertAt(list, n + 1, member) = Append(list, member)
    <3>1. n \in 0 .. Len(list)
      BY <1>2
    <3>2. Obj!AsMap!Seqs!InsertAt(list, n + 1, member) = Inserted(list, Len(list), n, member)
      BY <1>2, <2>1, <3>1, MembersInserted, Zenon
    <3>3. Append(list, member) = Inserted(list, Len(list), Len(list), member)
      BY <1>2, <2>1, AppendIs, Zenon
    <3> QED
      BY <1>2, <3>2, <3>3
  <2>3. ~(n > Len(list))
    BY <1>2
  <2> HIDE DEF member
  <2>4. /\ Obj!AsMap!Becomes(Obj!AsMap!Seqs!InsertAt(list, n + 1, member))
        /\ Obj!AsMap!Done(NoData)
    BY <1>12, <2>3, Zenon DEF Obj!AsMap!Insert, Obj!AsMap!Member, list, member
  <2> QED
    BY <2>2, <2>4
<1> QED
  BY <1>12, <1>13, Zenon DEF Obj!AsMap!Put, Obj!AsMap!Member, list

\* It gives the first pair with the name the value, and cuts the others.
LEMMA PutOverCall ==
    ASSUME ObjInv, NEW nm \in Names, NEW d \in Data, Obj!AsMap!Places(nm) # {}, Obj!Put(nm, d)
    PROVE  ObjInv' /\ Obj!AsMap!Put(nm, d)
<1> DEFINE s == Obj!ListedKeys
           v == Obj!ListedVals
           n == oRing.len
           P == Obj!AsMap!Places(nm)
           f == Obj!AsMap!First(nm)
           S == (1 .. n \ P) \cup {f}
           key == Obj!NewKey
           val == Obj!NewVal
           st == Obj!PutLoop(nm, val)
           c == Obj!AsMap!InOrder(S, n)
           w == [v EXCEPT ![f] = val]
           list == Obj!Contents
           member == [name |-> nm, data |-> d]
           given == [list EXCEPT ![f] = member]
<1>1. /\ Obj!RoomForPair /\ Obj!Make(nm, d) /\ Obj!Done(NoData) /\ Obj!Modified
      /\ oRing' = IF st.replaced THEN st.r ELSE Obj!Added(st.r, key, val)
  BY Zenon DEF Obj!Put
<1>2. /\ n \in Nat /\ ObjRing(s, v, oRing) /\ Len(list) = n /\ list \in Seq(MemberType)
      /\ DOMAIN list = 1 .. n
      /\ \A i \in 1 .. n : list[i] = [name |-> oName[s[i]], data |-> oData[v[i]]]
      /\ s \in [1 .. n -> Obj!Keys] /\ v \in [1 .. n -> Obj!Vals]
  BY ObjectFacts DEF ObjInv
<1>3. P = {i \in 1 .. n : oName[s[i]] = nm}
  BY PlacesOf
<1>4. key \in Obj!Keys /\ val \in Obj!Vals /\ \A i \in 1 .. n : s[i] # key /\ v[i] # val
  BY <1>1, NewNodes
<1>5. /\ f \in 1 .. n /\ oName[s[f]] = nm
      /\ \A i \in 1 .. n : oName[s[i]] = nm => f <= i
  BY FirstPlace
<1>6. /\ oName' \in [Obj!Keys -> Names] /\ oData' \in [Obj!Vals -> Data] /\ oData'[val] = d
      /\ \A i \in 1 .. n : oName'[s[i]] = oName[s[i]] /\ oData'[v[i]] = oData[v[i]]
  BY <1>1, MadePair
<1>7. val # 0
  <2>1. \A k \in 1 .. PAIRS : 2 * k # 0
    BY ObjectAssumption DEF Obj!PairsAssumption
  <2> HIDE DEF val
  <2> QED
    BY <1>4, <2>1 DEF Obj!Vals
<1> HIDE DEF s, v, key, val, list, P, f
<1>8. PutKeeps(s, nm, val, f, S)
  <2>1. f \in 0 .. n /\ f # 0
    BY <1>2, <1>5
  <2>2. \A i \in 1 .. n : i \in S <=> oName[s[i]] # nm \/ i = f
    BY <1>3, <1>5
  <2> HIDE DEF S
  <2> QED
    BY <1>5, <1>7, <2>1, <2>2, Zenon DEF PutKeeps
<1>9. PutAfter(s, v, f, val, S, n, st)
  <2>1. val \in Obj!Vals \cup {0} /\ \A i \in 1 .. n : v[i] # val
    BY <1>4
  <2> HIDE DEF S
  <2> QED
    BY <1>2, <1>8, <2>1, PutRun, Zenon
<1> HIDE DEF S
<1>10. /\ ObjRing(Merged(s, c, n, n), Merged(w, c, n, n), oRing')
       /\ oRing'.len = Len(c) + (n - n)
  <2>1. f # 0 /\ f <= n
    BY <1>2, <1>5
  <2>2. Given(v, f, val, n) = w
    BY <2>1, Zenon DEF Given
  <2> HIDE DEF w
  <2>3. /\ ObjRing(Merged(s, c, n, n), Merged(Given(v, f, val, n), c, n, n), st.r)
        /\ st.r.len = Len(c) + (n - n)
        /\ st.replaced = IF f # 0 /\ f <= n THEN TRUE ELSE FALSE
    BY <1>9, Zenon DEF PutAfter
  <2> HIDE DEF st
  <2>4. st.replaced = TRUE
    BY <2>1, <2>3
  <2> QED
    BY <1>1, <2>2, <2>3, <2>4
<1>11. /\ Obj!AsMap!Only(Members(s, w, oName', oData', n), S)
          = Members(Merged(s, c, n, n), Merged(w, c, n, n), oName', oData', Len(c))
       /\ Len(c) \in Nat
  <2>1. n \in Nat
    BY <1>2
  <2> HIDE DEF w
  <2>2. Leaves(s, w, oName', oData', n, S)
    BY <2>1, KeptMembers, Zenon
  <2> QED
    BY <2>2, Zenon DEF Leaves
<1>12. Members(s, w, oName', oData', n) = given
  <2>1. ASSUME NEW i \in 1 .. n
        PROVE  [name |-> oName'[s[i]], data |-> oData'[w[i]]] = IF i = f THEN member ELSE list[i]
    <3>1. w[i] = IF i = f THEN val ELSE v[i]
      BY <1>2
    <3> HIDE DEF w
    <3>2. CASE i = f
      BY <1>5, <1>6, <3>1, <3>2
    <3>3. CASE i # f
      BY <1>2, <1>6, <3>1, <3>3
    <3> QED
      BY <3>2, <3>3
  <2> HIDE DEF w
  <2>2. Members(s, w, oName', oData', n) = [i \in 1 .. n |-> IF i = f THEN member ELSE list[i]]
    BY <2>1, Zenon DEF Members
  <2> HIDE DEF member
  <2>3. given = [i \in 1 .. n |-> IF i = f THEN member ELSE list[i]]
    BY <1>2, <1>5
  <2> HIDE DEF given
  <2> QED
    BY <2>2, <2>3
<1> HIDE DEF w, given, st
<1>13. oRing'.len = Len(c)
  <2> HIDE DEF c
  <2> QED
    BY <1>2, <1>10, <1>11
<1> HIDE DEF c
<1>14. ObjInv' /\ Obj!AsMap!Becomes(Members(Merged(s, c, n, n), Merged(w, c, n, n),
                                            oName', oData', oRing'.len))
  BY <1>1, <1>6, <1>10, ModifiedObject, Zenon
<1>15. Obj!AsMap!Becomes(Obj!AsMap!Only(given, S))
  BY <1>11, <1>12, <1>13, <1>14, Zenon
<1>16. S = (DOMAIN list \ P) \cup {f}
  BY <1>2 DEF S
<1>17. Obj!AsMap!Done(NoData)
  BY <1>1 DEF Obj!Done, Obj!AsMap!Done
<1> QED
  <2> HIDE DEF member
  <2>1. P # {}
    BY DEF P
  <2>2. Obj!AsMap!Becomes(Obj!AsMap!Only(given, (DOMAIN list \ P) \cup {f}))
    BY <1>15, <1>16, Zenon
  <2>3. member = Obj!AsMap!Member(nm, d)
    BY Zenon DEF Obj!AsMap!Member, member
  <2>4. Obj!AsMap!Becomes(Obj!AsMap!Only([list EXCEPT ![f] = Obj!AsMap!Member(nm, d)],
                                         (DOMAIN list \ P) \cup {f}))
    BY <2>2, <2>3, Zenon DEF given
  <2> QED
    BY <1>14, <1>17, <2>1, <2>4, Zenon DEF Obj!AsMap!Put, list, P, f

\* yyjson_mut_obj_put
LEMMA PutCall ==
    ASSUME ObjInv, NEW nm \in Names, NEW d \in Data, Obj!Put(nm, d)
    PROVE  ObjInv' /\ Obj!AsMap!Put(nm, d)
BY PutNewCall, PutOverCall, Zenon

\* yyjson_mut_obj_replace writes the first value with the name.
LEMMA ReplacePairCall ==
    ASSUME ObjInv, NEW nm \in Names, NEW d \in Data, Obj!Replace(nm, d)
    PROVE  ObjInv' /\ Obj!AsMap!Replace(nm, d)
<1> DEFINE s == Obj!ListedKeys
           v == Obj!ListedVals
           n == oRing.len
           P == Obj!AsMap!Places(nm)
           f == Obj!AsMap!First(nm)
           Matches == {i \in 1 .. n : oName[Obj!KeyAt(oRing, i)] = nm}
           list == Obj!Contents
           given == [list EXCEPT ![f].data = d]
<1>1. /\ n \in Nat /\ ObjRing(s, v, oRing) /\ list \in Seq(MemberType) /\ Len(list) = n
      /\ \A i \in 1 .. n : list[i] = [name |-> oName[s[i]], data |-> oData[v[i]]]
      /\ s \in [1 .. n -> Obj!Keys] /\ v \in [1 .. n -> Obj!Vals]
      /\ \A i, j \in 1 .. n : v[i] = v[j] => i = j
      /\ oName \in [Obj!Keys -> Names] /\ oData \in [Obj!Vals -> Data]
  BY ObjectFacts DEF ObjInv
<1>2. Matches = P
  BY PlacesOf
<1>3. P # {} => f \in 1 .. n /\ Obj!Least(P) = f
  BY FirstPlace
<1>4. \A i \in 1 .. n : oRing.next[Obj!KeyAt(oRing, i)] = v[i]
  BY DEF Obj!ListedVals
<1> HIDE DEF Matches, P, f, s, v, list
<1>5. CASE P = {}
  <2>1. Obj!Refused
    BY <1>2, <1>5, Zenon DEF Obj!Replace, Matches
  <2>2. ObjInv' /\ Obj!AsMap!Refused
    BY <2>1, RefusedObject
  <2> QED
    BY <1>5, <2>2, Zenon DEF Obj!AsMap!Replace, P
<1>6. CASE P # {}
  <2>1. /\ oData' = [oData EXCEPT ![oRing.next[Obj!KeyAt(oRing, Obj!Least(P))]] = d]
        /\ Obj!Done(NoData) /\ Obj!Modified /\ UNCHANGED <<oRing, oName>>
    BY <1>2, <1>6, Zenon DEF Obj!Replace, Matches
  <2>2. oData' = [oData EXCEPT ![v[f]] = d]
    BY <1>3, <1>4, <1>6, <2>1
  <2>3. /\ oName' = oName /\ oRing' = oRing /\ oData' \in [Obj!Vals -> Data]
        /\ \A i \in 1 .. n : oData'[v[i]] = IF i = f THEN d ELSE oData[v[i]]
    <3>1. f \in 1 .. n /\ v[f] \in Obj!Vals
      BY <1>1, <1>3, <1>6
    <3>2. oData' \in [Obj!Vals -> Data]
      BY <1>1, <2>2, <3>1
    <3>3. ASSUME NEW i \in 1 .. n
          PROVE  oData'[v[i]] = IF i = f THEN d ELSE oData[v[i]]
      <4>1. v[i] \in Obj!Vals /\ (v[i] = v[f] <=> i = f)
        BY <1>1, <3>1
      <4> QED
        BY <1>1, <2>2, <4>1
    <3> QED
      BY <2>1, <3>2, <3>3
  <2>4. ObjInv' /\ Obj!AsMap!Becomes(Members(s, v, oName', oData', oRing'.len))
    <3>1. ObjRing(s, v, oRing') /\ oName' \in [Obj!Keys -> Names]
      BY <1>1, <2>3
    <3> QED
      BY <2>1, <2>3, <3>1, ModifiedObject, Zenon
  <2>5. Members(s, v, oName', oData', oRing'.len) = given
    <3>1. ASSUME NEW i \in 1 .. n
          PROVE  [name |-> oName'[s[i]], data |-> oData'[v[i]]]
                 = IF i = f THEN [list[f] EXCEPT !.data = d] ELSE list[i]
      <4>1. PICK x, y : x = oName[s[i]] /\ y = oData[v[i]]
        OBVIOUS
      <4>2. list[i] = [name |-> x, data |-> y] /\ oName'[s[i]] = x
        BY <1>1, <2>3, <4>1
      <4>3. [[name |-> x, data |-> y] EXCEPT !.data = d] = [name |-> x, data |-> d]
        OBVIOUS
      <4>4. oData'[v[i]] = IF i = f THEN d ELSE y
        BY <2>3, <4>1
      <4> QED
        BY <4>2, <4>3, <4>4, Zenon
    <3>2. PICK m : m = [list[f] EXCEPT !.data = d]
      OBVIOUS
    <3>3. given = [i \in 1 .. n |-> IF i = f THEN m ELSE list[i]]
      <4>1. given = [list EXCEPT ![f] = m]
        BY <3>2
      <4>2. DOMAIN list = 1 .. n /\ f \in DOMAIN list
        BY <1>1, <1>3, <1>6
      <4> HIDE DEF given
      <4> QED
        BY <4>1, <4>2
    <3> HIDE DEF given
    <3>4. Members(s, v, oName', oData', n) = given
      BY <3>1, <3>2, <3>3, Zenon DEF Members
    <3> QED
      BY <2>3, <3>4, Zenon
  <2>6. Obj!AsMap!Done(NoData)
    BY <2>1 DEF Obj!Done, Obj!AsMap!Done
  <2>7. Obj!AsMap!Becomes(given)
    BY <2>4, <2>5, Zenon
  <2> QED
    BY <1>6, <2>4, <2>6, <2>7, Zenon DEF Obj!AsMap!Replace, P, f, list
<1> QED
  BY <1>5, <1>6

\* yyjson_mut_obj_rename_key renames every key with the name, if it gets the memory.
LEMMA RenameKeyCall ==
    ASSUME ObjInv, NEW nm \in Names, NEW new \in Names, Obj!RenameKey(nm, new)
    PROVE  ObjInv' /\ (Obj!AsMap!RenameKey(nm, new) \/ Obj!AsMap!Refused)
<1> DEFINE s == Obj!ListedKeys
           v == Obj!ListedVals
           n == oRing.len
           P == Obj!AsMap!Places(nm)
           Matches == {k \in Obj!Range(s) : oName[k] = nm}
           list == Obj!Contents
           renamed == [i \in 1 .. n |-> IF list[i].name = nm THEN [list[i] EXCEPT !.name = new]
                                        ELSE list[i]]
<1>1. /\ n \in Nat /\ ObjRing(s, v, oRing) /\ DOMAIN list = 1 .. n
      /\ \A i \in 1 .. n : list[i] = [name |-> oName[s[i]], data |-> oData[v[i]]]
      /\ s \in [1 .. n -> Obj!Keys] /\ v \in [1 .. n -> Obj!Vals]
      /\ oName \in [Obj!Keys -> Names] /\ oData \in [Obj!Vals -> Data]
  BY ObjectFacts DEF ObjInv
<1>2. P = {i \in 1 .. n : oName[s[i]] = nm}
  BY PlacesOf
<1>3. CASE Obj!Refused
  BY <1>3, RefusedObject
<1>4. CASE ~Obj!Refused
  <2>1. /\ Matches # {}
        /\ oName' = [k \in Obj!Keys |-> IF k \in Matches THEN new ELSE oName[k]]
        /\ Obj!Done(NoData) /\ Obj!Modified /\ UNCHANGED <<oRing, oData>>
    BY <1>4, Zenon DEF Obj!RenameKey
  <2> HIDE DEF s, v, P, list
  <2>2. \A i \in 1 .. n : s[i] \in Matches <=> oName[s[i]] = nm
    BY <1>1 DEF Obj!Range
  <2>3. P # {}
    BY <1>1, <1>2, <2>1 DEF Obj!Range
  <2> HIDE DEF Matches
  <2>4. /\ oName' \in [Obj!Keys -> Names] /\ oData' \in [Obj!Vals -> Data]
        /\ \A i \in 1 .. n : oName'[s[i]] = IF oName[s[i]] = nm THEN new ELSE oName[s[i]]
    BY <1>1, <2>1, <2>2
  <2>5. ObjInv' /\ Obj!AsMap!Becomes(Members(s, v, oName', oData', oRing'.len))
    <3>1. ObjRing(s, v, oRing')
      BY <1>1, <2>1
    <3> QED
      BY <2>1, <2>4, <3>1, ModifiedObject, Zenon
  <2>6. ASSUME NEW i \in 1 .. n
        PROVE  [name |-> oName'[s[i]], data |-> oData'[v[i]]]
               = IF list[i].name = nm THEN [list[i] EXCEPT !.name = new] ELSE list[i]
    <3>1. PICK m : m = list[i]
      OBVIOUS
    <3>2. /\ m = [name |-> oName[s[i]], data |-> oData[v[i]]] /\ oData' = oData
          /\ oName'[s[i]] = IF oName[s[i]] = nm THEN new ELSE oName[s[i]]
      BY <1>1, <2>1, <2>4, <3>1
    <3>3. [name |-> oName'[s[i]], data |-> oData'[v[i]]]
          = IF m.name = nm THEN [m EXCEPT !.name = new] ELSE m
      BY <3>2
    <3> QED
      BY <3>1, <3>3
  <2>7. Members(s, v, oName', oData', oRing'.len) = renamed
    <3>1. oRing'.len = n
      BY <2>1
    <3>2. Members(s, v, oName', oData', n) = renamed
      BY <2>6, Zenon DEF Members
    <3> HIDE DEF renamed
    <3> QED
      BY <3>1, <3>2
  <2>8. Obj!AsMap!Becomes([i \in DOMAIN list |->
                              IF list[i].name = nm THEN [list[i] EXCEPT !.name = new] ELSE list[i]])
    BY <1>1, <2>5, <2>7, Zenon
  <2>9. Obj!AsMap!Done(NoData)
    BY <2>1 DEF Obj!Done, Obj!AsMap!Done
  <2> QED
    BY <2>3, <2>5, <2>8, <2>9, Zenon DEF Obj!AsMap!RenameKey, P, list
<1> QED
  BY <1>3, <1>4

\* yyjson_mut_obj_clear leaves the nodes behind and no member.
LEMMA ClearPairsCall ==
    ASSUME ObjInv, Obj!Clear
    PROVE  ObjInv' /\ Obj!AsMap!Clear
<1>1. /\ oRing' = [oRing EXCEPT !.len = 0] /\ Obj!Done(NoData) /\ Obj!Modified
      /\ oName' = oName /\ oData' = oData
  BY DEF Obj!Clear, Obj!SameContent
<1>2. oRing \in RingRecord
  BY DEF ObjInv, ObjRing
<1>3. oRing' = [len |-> 0, ptr |-> oRing.ptr, next |-> oRing.next] /\ oRing' \in RingRecord
  BY <1>1, <1>2 DEF RingRecord
<1>4. ObjRing(<< >>, << >>, oRing')
  <2>1. << >> \in [1 .. 0 -> Obj!Keys] /\ << >> \in [1 .. 0 -> Obj!Vals] /\ oRing'.len = 0
    BY <1>3
  <2>2. Ring(Obj!Keys, << >>, 0, oRing'.ptr, KeyLinks(oRing'))
    BY <2>1 DEF Ring, Closes
  <2> QED
    BY <1>3, <2>1, <2>2 DEF ObjRing
<1>5. oName' \in [Obj!Keys -> Names] /\ oData' \in [Obj!Vals -> Data]
  BY <1>1, ObjectFacts
<1>6. ObjInv' /\ Obj!AsMap!Becomes(Members(<< >>, << >>, oName', oData', oRing'.len))
  BY <1>1, <1>4, <1>5, ModifiedObject, Zenon
<1>7. Members(<< >>, << >>, oName', oData', oRing'.len) = << >>
  <2>1. oRing'.len = 0
    BY <1>3
  <2> QED
    BY <2>1 DEF Members
<1>8. Obj!AsMap!Done(NoData)
  BY <1>1 DEF Obj!Done, Obj!AsMap!Done
<1> QED
  BY <1>6, <1>7, <1>8, Zenon DEF Obj!AsMap!Clear

\* yyjson_mut_obj_rotate moves ptr alone, which turns the members.
LEMMA RotatePairsCall ==
    ASSUME ObjInv, NEW idx \in 0 .. oRing.len, Obj!Rotate(idx)
    PROVE  ObjInv' /\ Obj!AsMap!Rotate(idx)
<1> DEFINE s == Obj!ListedKeys
           v == Obj!ListedVals
           n == oRing.len
           t == Turned(s, n, idx)
           w == Turned(v, n, idx)
           list == Obj!Contents
<1>1. /\ n \in Nat /\ ObjRing(s, v, oRing) /\ Len(list) = n /\ list \in Seq(MemberType)
      /\ \A i \in 1 .. n : list[i] = [name |-> oName[s[i]], data |-> oData[v[i]]]
      /\ oName \in [Obj!Keys -> Names] /\ oData \in [Obj!Vals -> Data]
  BY ObjectFacts DEF ObjInv
<1> HIDE DEF s, v, list
<1>2. CASE idx >= n
  <2>1. ObjInv' /\ Obj!AsMap!Refused
    BY <1>2, RefusedObject DEF Obj!Rotate
  <2> QED
    BY <1>1, <1>2, <2>1 DEF Obj!AsMap!Rotate, list
<1>3. CASE ~(idx >= n)
  <2>1. idx \in 0 .. oRing.len - 1
    BY <1>1, <1>3
  <2>2. /\ oRing' = Obj!Rotated(oRing, idx) /\ Obj!Done(NoData) /\ Obj!Modified
        /\ oName' = oName /\ oData' = oData
    BY <1>3 DEF Obj!Rotate, Obj!SameContent
  <2>3. ObjRing(t, w, oRing') /\ oRing'.len = n
    <3>1. /\ ObjRing(t, w, Obj!Rotated(oRing, idx)) /\ Obj!Rotated(oRing, idx).len = oRing.len
      BY <1>1, <2>1, RotatedObject, Zenon
    <3> QED
      BY <2>2, <3>1
  <2>4. Members(t, w, oName, oData, n) = Turned(list, n, idx)
    <3>1. ASSUME NEW i \in 1 .. n
          PROVE  [name |-> oName[t[i]], data |-> oData[w[i]]]
                 = IF i <= n - idx THEN list[i + idx] ELSE list[i - (n - idx)]
      <4>1. PICK j \in 1 .. n : j = IF i <= n - idx THEN i + idx ELSE i - (n - idx)
        <5>1. n \in Nat /\ idx \in 0 .. n - 1
          BY <1>1, <2>1
        <5>2. CASE i <= n - idx
          <6>1. i + idx \in 1 .. n
            BY <5>1, <5>2
          <6> QED
            BY <5>2, <6>1, Zenon
        <5>3. CASE ~(i <= n - idx)
          <6>1. i - (n - idx) \in 1 .. n
            BY <5>1, <5>3
          <6> QED
            BY <5>3, <6>1, Zenon
        <5> QED
          BY <5>2, <5>3, Zenon
      <4>2. t[i] = s[j] /\ w[i] = v[j]
        BY <4>1 DEF Turned
      <4> HIDE DEF t, w
      <4> QED
        BY <1>1, <4>1, <4>2
    <3> QED
      BY <3>1, Zenon DEF Members, Turned
  <2>5. SubSeq(list, idx + 1, Len(list)) \o SubSeq(list, 1, idx) = Turned(list, n, idx)
    <3>1. idx \in 0 .. Len(list)
      BY <1>1
    <3>2. SubSeq(list, idx + 1, Len(list)) \o SubSeq(list, 1, idx) = Turned(list, Len(list), idx)
      BY <1>1, <3>1, TurnedIs, Zenon
    <3> QED
      BY <1>1, <3>2
  <2> HIDE DEF t, w
  <2>6. ObjInv' /\ Obj!AsMap!Becomes(Members(t, w, oName', oData', oRing'.len))
    <3>1. oName' \in [Obj!Keys -> Names] /\ oData' \in [Obj!Vals -> Data]
      BY <1>1, <2>2
    <3> QED
      BY <2>2, <2>3, <3>1, ModifiedObject, Zenon
  <2>7. Members(t, w, oName', oData', oRing'.len)
        = SubSeq(list, idx + 1, Len(list)) \o SubSeq(list, 1, idx)
    BY <2>2, <2>3, <2>4, <2>5, Zenon
  <2>8. Obj!AsMap!Done(NoData)
    BY <2>2 DEF Obj!Done, Obj!AsMap!Done
  <2>9. ~(idx >= Len(list))
    BY <1>1, <1>3
  <2>10. Obj!AsMap!Becomes(SubSeq(list, idx + 1, Len(list)) \o SubSeq(list, 1, idx))
    BY <2>6, <2>7, Zenon
  <2> QED
    BY <2>6, <2>8, <2>9, <2>10, Zenon DEF Obj!AsMap!Rotate, list
<1> QED
  BY <1>2, <1>3

\* The nodes of a pair
LEMMA PairNodes ==
    ASSUME NEW i \in 1 .. PAIRS
    PROVE  /\ 2 * i - 1 \in Obj!Keys /\ 2 * i \in Obj!Vals
           /\ 2 * i - 1 \in ObjNodes /\ 2 * i \in ObjNodes
<1>1. 2 * i - 1 \in Obj!Keys /\ 2 * i \in Obj!Vals
  BY DEF Obj!Keys, Obj!Vals
<1> QED
  BY <1>1 DEF ObjNodes

\* yyjson_mut_obj_with_str and _with_kv link the nodes of a block in their order.
LEMMA ObjWithCall ==
    ASSUME ObjInv, NEW n \in 0 .. PAIRS, NEW members \in [1 .. n -> MemberType],
           Obj!ObjWith(members)
    PROVE  ObjInv' /\ Obj!AsMap!ObjWith(members)
<1> DEFINE s == [i \in 1 .. n |-> 2 * i - 1]
           v == [i \in 1 .. n |-> 2 * i]
           nx == [k \in ObjNodes |-> IF k < 2 * n THEN k + 1 ELSE IF k = 2 * n THEN 1 ELSE oRing.next[k]]
           nmOf == [k \in Obj!Keys |-> IF k <= 2 * n THEN members[(k + 1) \div 2].name ELSE oName[k]]
           dataOf == [x \in Obj!Vals |-> IF x <= 2 * n THEN members[x \div 2].data ELSE oData[x]]
<1>1. PAIRS \in Nat /\ PAIRS >= 1 /\ n \in Nat /\ Len(members) = n
  BY ObjectAssumption DEF Obj!PairsAssumption
<1>2. /\ oRing' = [len |-> n, ptr |-> IF n = 0 THEN 0 ELSE 2 * n - 1, next |-> nx]
      /\ oName' = nmOf /\ oData' = dataOf
      /\ Obj!Done(NoData) /\ Obj!Modified
  BY <1>1 DEF Obj!ObjWith, ObjNodes, Obj!NoNode
<1>3. /\ oName \in [Obj!Keys -> Names] /\ oData \in [Obj!Vals -> Data]
      /\ oRing.next \in [ObjNodes -> ObjNodes \cup {0}]
  BY ObjRingFacts DEF ObjInv
<1>4. /\ \A i \in 1 .. PAIRS : /\ nx[2 * i - 1] = IF i <= n THEN 2 * i ELSE oRing.next[2 * i - 1]
                               /\ nx[2 * i] = IF i < n THEN 2 * (i + 1) - 1
                                              ELSE IF i = n THEN 1 ELSE oRing.next[2 * i]
  <2> SUFFICES ASSUME NEW i \in 1 .. PAIRS
               PROVE  /\ nx[2 * i - 1] = IF i <= n THEN 2 * i ELSE oRing.next[2 * i - 1]
                      /\ nx[2 * i] = IF i < n THEN 2 * (i + 1) - 1
                                     ELSE IF i = n THEN 1 ELSE oRing.next[2 * i]
    OBVIOUS
  <2>1. 2 * i - 1 \in ObjNodes /\ 2 * i \in ObjNodes
    BY PairNodes
  <2>2. nx[2 * i - 1] = IF 2 * i - 1 < 2 * n THEN (2 * i - 1) + 1
                        ELSE IF 2 * i - 1 = 2 * n THEN 1 ELSE oRing.next[2 * i - 1]
    BY <2>1
  <2>3. nx[2 * i] = IF 2 * i < 2 * n THEN 2 * i + 1 ELSE IF 2 * i = 2 * n THEN 1 ELSE oRing.next[2 * i]
    BY <2>1
  <2> HIDE DEF nx
  <2>4. /\ (2 * i - 1 < 2 * n) = (i <= n) /\ 2 * i - 1 # 2 * n /\ (2 * i - 1) + 1 = 2 * i
        /\ (2 * i < 2 * n) = (i < n) /\ (2 * i = 2 * n) = (i = n) /\ 2 * i + 1 = 2 * (i + 1) - 1
    BY <1>1
  <2> QED
    BY <2>2, <2>3, <2>4
<1>5. nx \in [ObjNodes -> ObjNodes \cup {0}]
  <2> SUFFICES ASSUME NEW k \in ObjNodes
               PROVE  nx[k] \in ObjNodes \cup {0}
    OBVIOUS
  <2>1. PICK i \in 1 .. PAIRS : k = 2 * i - 1 \/ k = 2 * i
    BY DEF ObjNodes, Obj!Keys, Obj!Vals
  <2>2. oRing.next[k] \in ObjNodes \cup {0}
    BY <1>3
  <2>3. 2 * i \in ObjNodes
    BY PairNodes
  <2>4. i < n => 2 * (i + 1) - 1 \in ObjNodes
    <3>1. i < n => i + 1 \in 1 .. PAIRS
      BY <1>1
    <3> QED
      BY <3>1, PairNodes
  <2>5. 1 \in ObjNodes
    <3>1. 1 \in 1 .. PAIRS /\ 2 * 1 - 1 = 1
      BY <1>1
    <3> QED
      BY <3>1, PairNodes
  <2> HIDE DEF nx
  <2> QED
    BY <1>4, <2>1, <2>2, <2>3, <2>4, <2>5
<1>6. /\ s \in [1 .. n -> Obj!Keys] /\ v \in [1 .. n -> Obj!Vals]
      /\ \A i, j \in 1 .. n : s[i] = s[j] => i = j
      /\ \A i, j \in 1 .. n : v[i] = v[j] => i = j
  <2>1. \A i \in 1 .. n : 2 * i - 1 \in Obj!Keys /\ 2 * i \in Obj!Vals
    <3>1. \A i \in 1 .. n : i \in 1 .. PAIRS
      BY <1>1
    <3> QED
      BY <3>1, PairNodes
  <2> QED
    BY <2>1
<1>7. oRing' \in RingRecord
  <2>1. n # 0 => 2 * n - 1 \in ObjNodes
    <3>1. n # 0 => n \in 1 .. PAIRS
      BY <1>1
    <3> QED
      BY <3>1, PairNodes
  <2> HIDE DEF nx
  <2> QED
    BY <1>1, <1>2, <1>5, <2>1 DEF RingRecord
<1>8. ObjRing(s, v, oRing')
  <2>1. oRing'.len = n /\ oRing'.next = nx /\ oRing'.ptr = IF n = 0 THEN 0 ELSE 2 * n - 1
    BY <1>2
  <2>2. \A i \in 1 .. n : i \in 1 .. PAIRS /\ s[i] = 2 * i - 1 /\ v[i] = 2 * i
    BY <1>1
  <2> HIDE DEF nx
  <2>3. oRing'.len > 0 => oRing'.ptr = s[oRing'.len]
    BY <1>1, <2>1
  <2>4. \A i \in 1 .. oRing'.len : oRing'.next[s[i]] = v[i]
    <3> SUFFICES ASSUME NEW i \in 1 .. n
                 PROVE  nx[s[i]] = v[i]
      BY <2>1
    <3>1. i \in 1 .. PAIRS /\ s[i] = 2 * i - 1 /\ v[i] = 2 * i /\ i <= n
      BY <1>1
    <3> HIDE DEF s, v
    <3> QED
      BY <1>4, <3>1
  <2>5. \A i \in 1 .. oRing'.len : oRing'.next[v[i]] = s[Place(oRing'.len, i + 1)]
    <3> SUFFICES ASSUME NEW i \in 1 .. n
                 PROVE  nx[v[i]] = s[Place(n, i + 1)]
      BY <2>1
    <3>1. nx[v[i]] = IF i < n THEN 2 * (i + 1) - 1 ELSE 1
      <4> HIDE DEF v
      <4> QED
        BY <1>1, <1>4, <2>2
    <3>2. s[Place(n, i + 1)] = 2 * Place(n, i + 1) - 1
      <4>1. Place(n, i + 1) \in 1 .. n
        BY <1>1 DEF Place
      <4> QED
        BY <2>2, <4>1
    <3>3. Place(n, i + 1) = IF i < n THEN i + 1 ELSE 1
      BY <1>1 DEF Place
    <3> HIDE DEF s, v
    <3> QED
      BY <3>1, <3>2, <3>3
  <2>6. /\ s \in [1 .. oRing'.len -> Obj!Keys] /\ v \in [1 .. oRing'.len -> Obj!Vals]
        /\ \A i, j \in 1 .. oRing'.len : s[i] = s[j] => i = j
        /\ \A i, j \in 1 .. oRing'.len : v[i] = v[j] => i = j
    <3> HIDE DEF s, v
    <3> QED
      BY <1>6, <2>1
  <2> HIDE DEF s, v
  <2> QED
    BY <1>7, <2>3, <2>4, <2>5, <2>6, ObjRingIs, Zenon
<1>9. \A i \in 1 .. n : /\ s[i] \in Obj!Keys /\ nmOf[s[i]] = members[i].name
                        /\ v[i] \in Obj!Vals /\ dataOf[v[i]] = members[i].data
  <2> SUFFICES ASSUME NEW i \in 1 .. n
               PROVE  /\ s[i] \in Obj!Keys /\ nmOf[s[i]] = members[i].name
                      /\ v[i] \in Obj!Vals /\ dataOf[v[i]] = members[i].data
    OBVIOUS
  <2>1. s[i] = 2 * i - 1 /\ v[i] = 2 * i
    OBVIOUS
  <2>2. s[i] \in Obj!Keys /\ v[i] \in Obj!Vals
    BY <1>6
  <2>3. 2 * i - 1 <= 2 * n /\ 2 * i <= 2 * n
    BY <1>1
  <2>4. ((2 * i - 1) + 1) \div 2 = i /\ (2 * i) \div 2 = i
    BY <1>1
  <2> HIDE DEF s, v
  <2>5. nmOf[s[i]] = members[i].name
    BY <2>1, <2>2, <2>3, <2>4, Zenon
  <2>6. dataOf[v[i]] = members[i].data
    BY <2>1, <2>2, <2>3, <2>4, Zenon
  <2> QED
    BY <2>2, <2>5, <2>6
<1>10. \A i \in 1 .. n : /\ members[i].name \in Names /\ members[i].data \in Data
                         /\ [name |-> members[i].name, data |-> members[i].data] = members[i]
  BY DEF MemberType
<1>11. nmOf \in [Obj!Keys -> Names] /\ dataOf \in [Obj!Vals -> Data]
  <2>1. ASSUME NEW k \in Obj!Keys PROVE nmOf[k] \in Names
    <3>1. PICK i \in 1 .. PAIRS : k = 2 * i - 1
      BY DEF Obj!Keys
    <3>2. CASE i <= n
      <4>1. k = s[i] /\ i \in 1 .. n
        BY <1>1, <3>1, <3>2
      <4> HIDE DEF nmOf
      <4> QED
        BY <1>9, <1>10, <4>1
    <3>3. CASE ~(i <= n)
      <4>1. ~(k <= 2 * n)
        BY <1>1, <3>1, <3>3
      <4> QED
        BY <1>3, <4>1
    <3> QED
      BY <3>2, <3>3
  <2>2. ASSUME NEW x \in Obj!Vals PROVE dataOf[x] \in Data
    <3>1. PICK i \in 1 .. PAIRS : x = 2 * i
      BY DEF Obj!Vals
    <3>2. CASE i <= n
      <4>1. x = v[i] /\ i \in 1 .. n
        BY <1>1, <3>1, <3>2
      <4> HIDE DEF dataOf
      <4> QED
        BY <1>9, <1>10, <4>1
    <3>3. CASE ~(i <= n)
      <4>1. ~(x <= 2 * n)
        BY <1>1, <3>1, <3>3
      <4> QED
        BY <1>3, <4>1
    <3> QED
      BY <3>2, <3>3
  <2>3. nmOf = [k \in Obj!Keys |-> nmOf[k]] /\ dataOf = [x \in Obj!Vals |-> dataOf[x]]
    OBVIOUS
  <2> HIDE DEF nmOf, dataOf
  <2> QED
    BY <2>1, <2>2, <2>3
<1>12. Members(s, v, nmOf, dataOf, n) = members
  <2>1. members = [i \in 1 .. n |-> members[i]]
    OBVIOUS
  <2>2. \A i \in 1 .. n : [name |-> nmOf[s[i]], data |-> dataOf[v[i]]] = members[i]
    <3> HIDE DEF nmOf, dataOf, s, v
    <3> QED
      BY <1>9, <1>10, Zenon
  <2> HIDE DEF nmOf, dataOf, s, v
  <2>3. [i \in 1 .. n |-> [name |-> nmOf[s[i]], data |-> dataOf[v[i]]]] = [i \in 1 .. n |-> members[i]]
    BY <2>2, Zenon
  <2> QED
    BY <2>1, <2>3, Zenon DEF Members
<1>13. oRing'.len = n
  BY <1>2
<1> HIDE DEF nmOf, dataOf, s, v
<1>14. oName' \in [Obj!Keys -> Names] /\ oData' \in [Obj!Vals -> Data]
  BY <1>2, <1>11
<1>15. ObjInv' /\ Obj!AsMap!Becomes(Members(s, v, oName', oData', oRing'.len))
  BY <1>2, <1>8, <1>14, ModifiedObject, Zenon
<1>16. ObjInv' /\ Obj!AsMap!Becomes(members)
  BY <1>2, <1>12, <1>13, <1>15, Zenon
<1>17. Obj!AsMap!Done(NoData)
  BY <1>2 DEF Obj!Done, Obj!AsMap!Done
<1> QED
  BY <1>16, <1>17, Zenon DEF Obj!AsMap!ObjWith

\* yyjson_mut_obj_getn returns the value of the first key with the name.
LEMMA GetPairCall ==
    ASSUME ObjInv, NEW nm \in Names, Obj!Get(nm)
    PROVE  ObjInv' /\ Obj!AsMap!Get(nm)
<1> DEFINE P == Obj!AsMap!Places(nm)
           f == Obj!AsMap!First(nm)
           Matches == {i \in 1 .. oRing.len : oName[Obj!KeyAt(oRing, i)] = nm}
<1>1. Matches = P
  BY PlacesOf
<1>2. CASE P = {}
  <2>1. Obj!Refused
    BY <1>1, <1>2, Zenon DEF Obj!Get
  <2>2. ObjInv' /\ Obj!AsMap!Refused
    BY <2>1, RefusedObject
  <2> QED
    BY <1>2, <2>2, Zenon DEF Obj!AsMap!Get
<1>3. CASE P # {}
  <2>1. /\ Obj!Returned(oRing.next[Obj!KeyAt(oRing, Obj!Least(P))])
        /\ UNCHANGED <<oRing, oName, oData, oIter>>
    BY <1>1, <1>3, Zenon DEF Obj!Get
  <2>2. f \in 1 .. oRing.len /\ Obj!Least(P) = f
    BY <1>3, FirstPlace
  <2>3. Obj!ListedVals[f] = oRing.next[Obj!KeyAt(oRing, f)]
    <3> HIDE DEF f
    <3> QED
      BY <2>2 DEF Obj!ListedVals
  <2>4. Obj!Returned(Obj!ListedVals[f])
    BY <2>1, <2>2, <2>3, Zenon
  <2>5. Obj!AsMap!Done(Obj!Contents[f].data)
    BY <2>2, <2>4, ReturnedPlace, Zenon
  <2>6. ObjInv' /\ Obj!Contents' = Obj!Contents /\ MapIter' = MapIter
    BY <2>1, UnchangedObject
  <2> QED
    BY <1>3, <2>5, <2>6, Zenon DEF Obj!AsMap!Get, MapIter
<1> QED
  BY <1>2, <1>3

\* Where the iterator stands, as a place: it is at that key, or before the first one.
LEMMA PositionIs ==
    ASSUME ObjInv, oIter.on, oRing.len > 0
    PROVE  /\ Obj!Position \in 0 .. oRing.len
           /\ oIter.cur = Obj!ListedKeys[Place(oRing.len, Obj!Position)]
           /\ oIter.exact => Obj!Position = oIter.idx
           /\ ~oIter.exact => Obj!Position \in 1 .. oRing.len
<1> DEFINE s == Obj!ListedKeys
           n == oRing.len
<1>1. /\ n \in Nat /\ \A i, j \in 1 .. n : s[i] = s[j] => i = j
  BY ObjectFacts
<1>2. oIter.idx \in 0 .. n
  BY DEF ObjInv, Stands
<1>3. PICK j \in 1 .. n : /\ oIter.cur = s[j]
                          /\ oIter.exact => j = Place(n, oIter.idx)
  BY DEF ObjInv, Stands
<1> HIDE DEF s
<1>4. CASE oIter.exact
  <2>1. Obj!Position = oIter.idx
    BY <1>4 DEF Obj!Position
  <2> QED
    BY <1>2, <1>3, <1>4, <2>1 DEF s
<1>5. CASE ~oIter.exact
  <2>1. Obj!Position = CHOOSE i \in 1 .. n : s[i] = oIter.cur
    BY <1>5 DEF Obj!Position, s
  <2>2. Obj!Position \in 1 .. n /\ s[Obj!Position] = oIter.cur
    BY <1>3, <2>1
  <2>3. Place(n, Obj!Position) = Obj!Position
    BY <1>1, <2>2 DEF Place
  <2> QED
    BY <1>1, <1>5, <2>2, <2>3 DEF s
<1> QED
  BY <1>4, <1>5

\* A call that moves the iterator alone
LEMMA IteratorMoved ==
    ASSUME ObjInv, UNCHANGED <<oRing, oName, oData>>, oIter' \in ObjIter,
           Stands(Obj!ListedKeys, oRing.len, oIter')
    PROVE  /\ ObjInv' /\ Obj!Contents' = Obj!Contents
           /\ Obj!Position' = IF oIter'.exact THEN oIter'.idx
                              ELSE CHOOSE i \in 1 .. oRing.len : Obj!ListedKeys[i] = oIter'.cur
<1>1. oRing' = oRing /\ oName' = oName /\ oData' = oData
  OBVIOUS
<1>2. ObjRing(Obj!ListedKeys, Obj!ListedVals, oRing')
  BY <1>1 DEF ObjInv
<1>3. Obj!ListedKeys' = Obj!ListedKeys /\ Obj!ListedVals' = Obj!ListedVals
  BY <1>2, ObjectAfter
<1>4. ObjInv'
  <2>1. ObjRing(Obj!ListedKeys, Obj!ListedVals, oRing)'
    BY <1>2, <1>3
  <2>2. Stands(Obj!ListedKeys, oRing.len, oIter)'
    BY <1>1, <1>3, Zenon
  <2> QED
    BY <1>1, <2>1, <2>2 DEF ObjInv
<1>5. Obj!Contents' = Obj!Contents
  BY <1>1, <1>3 DEF Obj!Contents
<1>6. Obj!Position' = IF oIter'.exact THEN oIter'.idx
                      ELSE CHOOSE i \in 1 .. oRing.len : Obj!ListedKeys[i] = oIter'.cur
  <2> HIDE DEF Obj!ListedKeys
  <2> QED
    BY <1>1, <1>3 DEF Obj!Position
<1> QED
  BY <1>4, <1>5, <1>6

\* yyjson_mut_obj_iter_init starts before the first key, at the last one.
LEMMA PairIterInitCall ==
    ASSUME ObjInv, Obj!IterInit
    PROVE  ObjInv' /\ Obj!AsMap!IterInit
<1> DEFINE s == Obj!ListedKeys
           n == oRing.len
           cur == IF n > 0 THEN oRing.ptr ELSE 0
<1>1. /\ oIter' = [on |-> TRUE, idx |-> 0, max |-> n, cur |-> cur, pre |-> 0,
                   fresh |-> FALSE, exact |-> TRUE]
      /\ Obj!Done(NoData) /\ UNCHANGED <<oRing, oName, oData>>
  BY DEF Obj!IterInit, Obj!Started, Obj!NoIter, Obj!NoNode
<1>2. /\ n \in Nat /\ oRing.ptr \in ObjNodes \cup {0}
      /\ n > 0 => oRing.ptr = s[n]
  BY ObjRingFacts DEF ObjInv
<1> HIDE DEF s
<1>3. oIter' \in ObjIter
  BY <1>1, <1>2 DEF ObjIter
<1>4. Stands(s, n, oIter')
  <2>1. /\ oIter'.max = n /\ oIter'.idx = 0 /\ oIter'.fresh = FALSE /\ oIter'.cur = cur
    BY <1>1
  <2>2. n > 0 => n \in 1 .. n /\ cur = s[n] /\ n = Place(n, 0)
    BY <1>2 DEF Place
  <2> HIDE DEF cur
  <2> QED
    BY <1>2, <2>1, <2>2 DEF Stands
<1>5. /\ ObjInv' /\ Obj!Contents' = Obj!Contents
      /\ Obj!Position' = IF oIter'.exact THEN oIter'.idx
                         ELSE CHOOSE i \in 1 .. oRing.len : Obj!ListedKeys[i] = oIter'.cur
  BY <1>1, <1>3, <1>4, IteratorMoved DEF s
<1>6. Obj!Position' = 0 /\ oIter'.on = TRUE /\ oIter'.fresh = FALSE /\ oIter'.exact = TRUE
  BY <1>1, <1>5
<1>7. [on |-> oIter.on, pos |-> Obj!Position, fresh |-> oIter.fresh, exact |-> oIter.exact]'
      = [on |-> TRUE, pos |-> 0, fresh |-> FALSE, exact |-> TRUE]
  BY <1>6
<1>8. Obj!AsMap!Done(NoData)
  BY <1>1 DEF Obj!Done, Obj!AsMap!Done
<1> QED
  BY <1>5, <1>7, <1>8, Zenon DEF Obj!AsMap!IterInit

\* What an exact iterator says while it is on
LEMMA ExactIterator ==
    ASSUME ObjInv, oIter.on, oIter.exact
    PROVE  /\ oIter \in ObjIter /\ oIter.max = oRing.len /\ oIter.idx \in 0 .. oRing.len
           /\ Obj!Position = oIter.idx
           /\ oRing.len > 0 => oIter.cur = Obj!ListedKeys[Place(oRing.len, oIter.idx)]
           /\ oIter.fresh => /\ oRing.len > 0 /\ oIter.idx > 0
                             /\ oIter.pre = Obj!ListedKeys[Place(oRing.len, oIter.idx - 1)]
<1>1. /\ oIter \in ObjIter /\ oIter.max = oRing.len /\ oIter.idx \in 0 .. oRing.len
      /\ oIter.fresh => oRing.len > 0 /\ oIter.idx > 0
      /\ oRing.len > 0 =>
            \E j \in 1 .. oRing.len :
               /\ oIter.cur = Obj!ListedKeys[j] /\ j = Place(oRing.len, oIter.idx)
               /\ oIter.fresh => oIter.pre = Obj!ListedKeys[Place(oRing.len, j - 1)]
  BY DEF ObjInv, Stands
<1>2. oRing.len \in Nat
  BY ObjectFacts
<1>3. oIter.idx > 0 => Place(oRing.len, oIter.idx) = oIter.idx
  BY <1>1, <1>2 DEF Place
<1>4. Obj!Position = oIter.idx
  BY DEF Obj!Position
<1> QED
  BY <1>1, <1>3, <1>4, Zenon

\* yyjson_mut_obj_iter_next visits the members in order and stops at the last one.
LEMMA PairIterNextCall ==
    ASSUME ObjInv, Obj!IterNext
    PROVE  ObjInv' /\ Obj!AsMap!IterNext
<1> DEFINE s == Obj!ListedKeys
           v == Obj!ListedVals
           n == oRing.len
<1>1. oIter.on /\ oIter.exact
  BY DEF Obj!IterNext
<1>0. PICK k : k = oIter.idx
  OBVIOUS
<1>2. /\ oIter \in ObjIter /\ oIter.max = n /\ k \in 0 .. n /\ Obj!Position = k
      /\ n > 0 => oIter.cur = s[Place(n, k)]
  BY <1>0, <1>1, ExactIterator
<1>3. n \in Nat /\ Len(Obj!Contents) = n /\ ObjRing(s, v, oRing)
  BY ObjectFacts DEF ObjInv
<1> HIDE DEF s, v
<1>4. CASE ~(oIter.idx < oIter.max)
  <2>1. ObjInv' /\ Obj!AsMap!Refused
    BY <1>4, RefusedObject DEF Obj!IterNext
  <2>2. k = Len(Obj!Contents)
    BY <1>0, <1>2, <1>3, <1>4
  <2> QED
    BY <1>1, <1>2, <2>1, <2>2 DEF Obj!AsMap!IterNext
<1>5. CASE oIter.idx < oIter.max
  <2>1. k \in 0 .. n - 1 /\ n > 0 /\ k # Len(Obj!Contents) /\ k + 1 \in 1 .. n /\ k + 1 \in 0 .. n
    BY <1>0, <1>2, <1>3, <1>5
  <2>2. /\ oIter' = Obj!Advanced(oRing, oIter)
        /\ Obj!Returned(oRing.next[oIter'.cur])
        /\ UNCHANGED <<oRing, oName, oData>>
    BY <1>5 DEF Obj!IterNext
  <2>3. Place(n, k + 1) = k + 1
    BY <1>3, <2>1 DEF Place
  <2>4. Obj!NextKey(oRing, oIter.cur) = s[k + 1]
    <3>1. k \in 0 .. n /\ n > 0 /\ ObjRing(s, v, oRing)
      BY <1>2, <1>3, <2>1
    <3>2. Obj!NextKey(oRing, s[Place(n, k)]) = s[Place(n, k + 1)]
      BY <3>1, NextKeyPlace
    <3> QED
      BY <1>2, <2>1, <2>3, <3>2, Zenon
  <2>5. s[k + 1] \in ObjNodes /\ oRing.next[s[k + 1]] = v[k + 1] /\ s[Place(n, k)] \in ObjNodes
    <3>1. Place(n, k) \in 1 .. n
      BY <1>3, <2>1 DEF Place
    <3> QED
      BY <1>3, <2>1, <3>1, ObjRingFacts DEF ObjNodes
  <2>6. oIter' = [on |-> TRUE, idx |-> k + 1, max |-> n, cur |-> s[k + 1],
                  pre |-> s[Place(n, k)], fresh |-> TRUE, exact |-> TRUE]
    BY <1>0, <1>1, <1>2, <2>1, <2>2, <2>4 DEF Obj!Advanced, ObjIter
  <2>7. oIter' \in ObjIter
    BY <1>2, <1>3, <2>5, <2>6 DEF ObjIter
  <2>8. Stands(s, n, oIter')
    <3>1. /\ oIter'.max = n /\ oIter'.idx = k + 1 /\ oIter'.cur = s[k + 1]
          /\ oIter'.pre = s[Place(n, k)]
      BY <2>6
    <3>2. (k + 1) - 1 = k /\ k + 1 > 0
      BY <2>1
    <3> QED
      BY <2>1, <2>3, <3>1, <3>2 DEF Stands
  <2>9. /\ ObjInv' /\ Obj!Contents' = Obj!Contents
        /\ Obj!Position' = IF oIter'.exact THEN oIter'.idx
                           ELSE CHOOSE i \in 1 .. oRing.len : Obj!ListedKeys[i] = oIter'.cur
    BY <2>2, <2>7, <2>8, IteratorMoved DEF s
  <2>10. /\ Obj!Position' = k + 1 /\ oIter'.on = TRUE /\ oIter'.fresh = TRUE
         /\ oIter'.exact = TRUE /\ oIter'.cur = s[k + 1]
    BY <2>6, <2>9
  <2>11. [on |-> oIter.on, pos |-> Obj!Position, fresh |-> oIter.fresh, exact |-> oIter.exact]'
         = [on |-> TRUE, pos |-> k + 1, fresh |-> TRUE, exact |-> TRUE]
    BY <2>10
  <2>12. Obj!Returned(v[k + 1])
    BY <2>2, <2>5, <2>10, Zenon
  <2>13. Obj!AsMap!Done(Obj!Contents[k + 1].data)
    BY <2>1, <2>12, ReturnedPlace, Zenon DEF v
  <2> QED
    BY <1>1, <1>2, <2>1, <2>9, <2>11, <2>13, Zenon DEF Obj!AsMap!IterNext
<1> QED
  BY <1>4, <1>5

\* yyjson_mut_obj_iter_remove cuts the pair it has just reached and steps back.
LEMMA PairIterRemoveCall ==
    ASSUME ObjInv, Obj!IterRemove
    PROVE  ObjInv' /\ Obj!AsMap!IterRemove
<1> DEFINE s == Obj!ListedKeys
           v == Obj!ListedVals
           n == oRing.len
           list == Obj!Contents
<1>1. oIter.on /\ oIter.exact /\ oIter.fresh
  BY DEF Obj!IterRemove
<1>0. PICK k : k = oIter.idx - 1
  OBVIOUS
<1> DEFINE t == Cut(s, n, k, 1)
           w == Cut(v, n, k, 1)
<1>2. /\ n \in Nat /\ ObjRing(s, v, oRing) /\ Len(list) = n /\ list \in Seq(MemberType)
      /\ \A i \in 1 .. n : list[i] = [name |-> oName[s[i]], data |-> oData[v[i]]]
      /\ oName \in [Obj!Keys -> Names] /\ oData \in [Obj!Vals -> Data]
  BY ObjectFacts DEF ObjInv
<1>3. /\ oIter \in ObjIter /\ oIter.max = n /\ n > 0 /\ Obj!Position = oIter.idx
      /\ oIter.idx \in 0 .. n /\ oIter.idx > 0
      /\ oIter.cur = s[Place(n, oIter.idx)] /\ oIter.pre = s[Place(n, oIter.idx - 1)]
  BY <1>1, ExactIterator
<1>4. /\ k \in 0 .. n - 1 /\ k + 1 = oIter.idx /\ k + 1 \in 1 .. n
      /\ Place(n, k + 1) = k + 1
  BY <1>0, <1>2, <1>3 DEF Place
<1>5. oIter.cur = s[k + 1] /\ oIter.pre = s[Place(n, k)]
  BY <1>0, <1>3, <1>4
<1>6. /\ oRing' = Obj!CutRing(oRing, oIter) /\ oIter' = Obj!CutIter(oIter)
      /\ Obj!Returned(oRing.next[oIter.cur]) /\ oName' = oName /\ oData' = oData
  BY DEF Obj!IterRemove, Obj!SameContent
<1> HIDE DEF s, v, list
<1>7. /\ oRing.next[s[Place(n, k)]] = v[Place(n, k)]
      /\ Obj!NextKey(oRing, s[k + 1]) = s[Place(n, k + 2)]
      /\ oRing.next[s[k + 1]] = v[k + 1]
      /\ s[Place(n, k)] \in ObjNodes
  <2>1. /\ oRing.len > 0 /\ ObjRing(s, v, oRing) /\ k \in 0 .. oRing.len
        /\ k + 1 \in 0 .. oRing.len
    BY <1>2, <1>3, <1>4
  <2>2. /\ oRing.next[s[Place(n, k)]] = v[Place(n, k)] /\ Place(n, k) \in 1 .. n
    BY <2>1, NextKeyPlace
  <2>3. /\ Obj!NextKey(oRing, s[Place(n, k + 1)]) = s[Place(n, k + 1 + 1)]
        /\ oRing.next[s[Place(n, k + 1)]] = v[Place(n, k + 1)]
    BY <2>1, NextKeyPlace
  <2>4. k + 1 + 1 = k + 2
    BY <1>4
  <2>5. s[Place(n, k)] \in ObjNodes
    BY <2>1, <2>2, ObjRingFacts DEF ObjNodes
  <2> QED
    BY <1>4, <2>2, <2>3, <2>4, <2>5
<1>8. oRing' = [len |-> n - 1, ptr |-> IF k + 1 = n THEN s[Place(n, k)] ELSE oRing.ptr,
                next |-> [oRing.next EXCEPT ![v[Place(n, k)]] = s[Place(n, k + 2)]]]
  BY <1>3, <1>4, <1>5, <1>6, <1>7 DEF Obj!CutRing
<1>9. oIter' = [on |-> TRUE, idx |-> k, max |-> n - 1, cur |-> s[Place(n, k)],
                pre |-> s[Place(n, k)], fresh |-> FALSE, exact |-> TRUE]
  BY <1>0, <1>1, <1>3, <1>5, <1>6 DEF Obj!CutIter, ObjIter
<1>10. ObjRing(t, w, oRing')
  <2>1. k \in 0 .. oRing.len - 1
    BY <1>4
  <2> QED
    BY <1>2, <1>8, <2>1, CutObject
<1>11. oRing'.len = n - 1
  BY <1>8
<1>12. Obj!ListedKeys' = t /\ Obj!ListedVals' = w
  <2> HIDE DEF t, w
  <2> QED
    BY <1>10, ObjectAfter
<1>13. Members(t, w, oName, oData, n - 1) = Cut(list, n, k, 1)
  <2>1. \A i \in 1 .. n - 1 : [name |-> oName[t[i]], data |-> oData[w[i]]]
                              = IF i <= k THEN list[i] ELSE list[i + 1]
    <3> SUFFICES ASSUME NEW i \in 1 .. n - 1
                 PROVE  [name |-> oName[t[i]], data |-> oData[w[i]]]
                        = IF i <= k THEN list[i] ELSE list[i + 1]
      OBVIOUS
    <3>1. /\ t[i] = IF i <= k THEN s[i] ELSE s[i + 1]
          /\ w[i] = IF i <= k THEN v[i] ELSE v[i + 1]
      BY DEF Cut
    <3>2. i \in 1 .. n /\ i + 1 \in 1 .. n
      BY <1>2
    <3> HIDE DEF t, w
    <3> QED
      BY <1>2, <3>1, <3>2
  <2> HIDE DEF t, w
  <2> QED
    BY <2>1, Zenon DEF Members, Cut
<1>14. Obj!AsMap!Seqs!RemoveAt(list, oIter.idx) = Cut(list, n, k, 1)
  <2>1. k \in 0 .. Len(list) - 1
    BY <1>2, <1>4
  <2>2. Obj!AsMap!Seqs!RemoveAt(list, k + 1) = Cut(list, Len(list), k, 1)
    BY <1>2, <2>1, MembersRemoved, Zenon
  <2> QED
    BY <1>2, <1>4, <2>2
<1>15. Obj!Contents' = Members(t, w, oName, oData, n - 1)
  <2> HIDE DEF t, w
  <2> QED
    BY <1>6, <1>11, <1>12 DEF Obj!Contents, Members
<1>16. oIter' \in ObjIter
  BY <1>2, <1>3, <1>4, <1>7, <1>9 DEF ObjIter
<1>17. Stands(t, n - 1, oIter')
  <2>1. /\ oIter'.max = n - 1 /\ oIter'.idx = k /\ oIter'.cur = s[Place(n, k)]
        /\ oIter'.fresh = FALSE
    BY <1>9
  <2>2. k \in 0 .. n - 1
    BY <1>4
  <2>3. ASSUME n - 1 > 0
        PROVE  t[Place(n - 1, k)] = s[Place(n, k)] /\ Place(n - 1, k) \in 1 .. n - 1
    <3>1. n > 1 /\ n \in Nat /\ k \in 0 .. n - 1
      BY <1>2, <1>4, <2>3
    <3>2. t[Place(n - 1, k)] = s[Place(n, k)]
      BY <3>1, CutPlaces
    <3>3. Place(n - 1, k) \in 1 .. n - 1
      BY <3>1 DEF Place
    <3> QED
      BY <3>2, <3>3
  <2> HIDE DEF t
  <2> QED
    BY <2>1, <2>2, <2>3 DEF Stands
<1> HIDE DEF t, w
<1>18. ObjInv'
  <2>1. ObjRing(Obj!ListedKeys, Obj!ListedVals, oRing)'
    BY <1>10, <1>12
  <2>2. Stands(Obj!ListedKeys, oRing.len, oIter)'
    BY <1>11, <1>12, <1>17, Zenon
  <2> QED
    BY <1>2, <1>6, <1>16, <2>1, <2>2 DEF ObjInv
<1>19. Obj!Position' = k /\ oIter'.on = TRUE /\ oIter'.fresh = FALSE /\ oIter'.exact = TRUE
  BY <1>9 DEF Obj!Position
<1>20. [on |-> oIter.on, pos |-> Obj!Position, fresh |-> oIter.fresh, exact |-> oIter.exact]'
       = [on |-> TRUE, pos |-> Obj!Position - 1, fresh |-> FALSE, exact |-> TRUE]
  BY <1>0, <1>3, <1>19
<1>21. Obj!Returned(v[k + 1])
  BY <1>5, <1>6, <1>7, Zenon
<1>22. Obj!AsMap!Done(list[k + 1].data)
  BY <1>4, <1>21, ReturnedPlace, Zenon DEF v, list
<1>23. list' = Obj!AsMap!Seqs!RemoveAt(list, Obj!Position)
  BY <1>3, <1>13, <1>14, <1>15, Zenon DEF list
<1>24. Obj!AsMap!Done(list[Obj!Position].data)
  BY <1>3, <1>4, <1>22, Zenon
<1> QED
  BY <1>1, <1>18, <1>20, <1>23, <1>24, Zenon DEF Obj!AsMap!IterRemove, list

\* The place that x stands for when the ring is gone round
Round(n, x) == IF x = 0 THEN n ELSE IF x <= n THEN x ELSE x - n

\* The key k places behind the iterator
LEMMA BehindKey ==
    ASSUME ObjInv, oIter.on, oRing.len > 0, NEW k \in 0 .. oRing.len
    PROVE  /\ Obj!KeyBehind(oIter, k) = Obj!ListedKeys[Round(oRing.len, Obj!Position + k)]
           /\ Round(oRing.len, Obj!Position + k) \in 1 .. oRing.len
<1> DEFINE s == Obj!ListedKeys
           v == Obj!ListedVals
           n == oRing.len
           p == Obj!Position
           b == IF p = n THEN 0 ELSE p
           t == Turned(s, n, b)
           w == Turned(v, n, b)
           q == [oRing EXCEPT !.ptr = oIter.cur]
<1>1. ObjRing(s, v, oRing) /\ n \in Nat
  BY ObjectFacts DEF ObjInv
<1>2. oRing = [len |-> n, ptr |-> oRing.ptr, next |-> oRing.next]
  BY <1>1, ObjRingFacts
<1>3. p \in 0 .. n /\ oIter.cur = s[Place(n, p)]
  BY PositionIs
<1>4. Obj!KeyBehind(oIter, k) = Obj!KeyAt(q, k)
  BY DEF Obj!KeyBehind
<1> HIDE DEF s, v, p
<1>5. b \in 0 .. n - 1 /\ Place(n, p) = Place(n, b)
  BY <1>1, <1>3 DEF Place
<1>6. q = [len |-> n, ptr |-> s[Place(n, b)], next |-> oRing.next]
  BY <1>2, <1>3, <1>5
<1>7. ObjRing(t, w, q) /\ q.len = n
  <2>1. q.len = n
    BY <1>6
  <2> HIDE DEF b
  <2>2. ObjRing(t, w, q)
    <3> HIDE DEF q
    <3> QED
      BY <1>1, <1>5, <1>6, TurnedObject
  <2> QED
    BY <2>1, <2>2
<1>8. Obj!KeyAt(q, k) = t[Place(n, k)] /\ Place(n, k) \in 1 .. n
  <2>1. q.len > 0 /\ k \in 0 .. q.len + 1
    BY <1>1, <1>7
  <2>2. ObjRing(t, w, q)
    BY <1>7
  <2> HIDE DEF q, t, w
  <2>3. Obj!KeyAt(q, k) = t[Place(q.len, k)] /\ Place(q.len, k) \in 1 .. q.len
    BY <2>1, <2>2, KeyAtPlace
  <2> QED
    BY <1>7, <2>3
<1>9. t[Place(n, k)] = IF Place(n, k) <= n - b THEN s[Place(n, k) + b] ELSE s[Place(n, k) - (n - b)]
  BY <1>8 DEF Turned
<1> HIDE DEF t, q
<1>10. Round(n, p + k) = IF Place(n, k) <= n - b THEN Place(n, k) + b ELSE Place(n, k) - (n - b)
  BY <1>1, <1>3 DEF Round, Place
<1>11. Round(n, p + k) \in 1 .. n
  BY <1>1, <1>3 DEF Round
<1>12. t[Place(n, k)] = s[Round(n, p + k)]
  <2> HIDE DEF b
  <2> QED
    BY <1>9, <1>10
<1> QED
  BY <1>4, <1>8, <1>11, <1>12 DEF s, p

Finds(n, p, P, st, f) ==
    /\ p + st <= n <=> \E i \in P : i > p
    /\ p + st <= n => /\ Round(n, p + st) = p + st
                      /\ \A i \in P : i > p => p + st <= i
    /\ ~(p + st <= n) => Round(n, p + st) = f
    /\ Round(n, p + (st - 1)) = Place(n, Round(n, p + st) - 1)

\* A search that starts behind p goes to the least place behind p, or, when there is
\* none, round to the first.
LEMMA RoundSearch ==
    ASSUME NEW n \in Nat \ {0}, NEW p \in 0 .. n, NEW P \in SUBSET (1 .. n), NEW K,
           \A k \in 1 .. n : k \in K <=> Round(n, p + k) \in P,
           NEW st \in 1 .. n, st \in K, \A k \in 1 .. n : k \in K => st <= k,
           NEW f \in P, \A i \in P : f <= i
    PROVE  Finds(n, p, P, st, f)
<1>1. Round(n, p + st) \in P
  OBVIOUS
<1>2. \A i \in P : i > p => i - p \in 1 .. n /\ Round(n, p + (i - p)) = i
  BY DEF Round
<1>3. \A i \in P : ~(i > p) => i + n - p \in 1 .. n /\ Round(n, p + (i + n - p)) = i
  BY DEF Round
<1>4. \A i \in P : i > p => p + st <= i
  <2> SUFFICES ASSUME NEW i \in P, i > p
               PROVE  p + st <= i
    OBVIOUS
  <2>1. i - p \in 1 .. n /\ i - p \in K
    BY <1>2
  <2>2. st <= i - p
    BY <2>1
  <2> QED
    BY <2>2
<1>5. p + st <= n => Round(n, p + st) = p + st /\ p + st > p
  BY DEF Round
<1>6. p + st <= n <=> \E i \in P : i > p
  <2>1. ASSUME p + st <= n PROVE \E i \in P : i > p
    BY <1>1, <1>5, <2>1
  <2>2. ASSUME NEW i \in P, i > p PROVE p + st <= n
    <3>1. p + st <= i /\ i \in 1 .. n
      BY <1>4, <2>2
    <3> QED
      BY <3>1
  <2> QED
    BY <2>1, <2>2
<1>7. ASSUME ~(p + st <= n)
      PROVE  Round(n, p + st) = f
  <2>1. ~(f > p) /\ f \in 1 .. n
    BY <1>6, <1>7
  <2>2. f + n - p \in 1 .. n /\ f + n - p \in K
    BY <1>3, <2>1
  <2>3. st <= f + n - p
    BY <2>2
  <2>4. Round(n, p + st) = p + st - n
    BY <1>7 DEF Round
  <2>5. f <= p + st - n
    BY <1>1, <2>4
  <2> QED
    BY <2>1, <2>3, <2>4, <2>5
<1>8. Round(n, p + (st - 1)) = Place(n, Round(n, p + st) - 1)
  BY DEF Round, Place
<1> QED
  BY <1>4, <1>5, <1>6, <1>7, <1>8 DEF Finds

\* yyjson_mut_obj_iter_getn searches behind the iterator and goes round once.
LEMMA PairIterGetCall ==
    ASSUME ObjInv, NEW nm \in Names, Obj!IterGet(nm)
    PROVE  ObjInv' /\ Obj!AsMap!IterGet(nm)
<1> DEFINE s == Obj!ListedKeys
           v == Obj!ListedVals
           n == oRing.len
           p == Obj!Position
           list == Obj!Contents
           P == Obj!AsMap!Places(nm)
           f == Obj!AsMap!First(nm)
           K == {k \in 1 .. oIter.max : oName[Obj!KeyBehind(oIter, k)] = nm}
           st == Obj!Least(K)
           idx == oIter.idx + st
           tgt == Round(n, p + st)
           After == {i \in P : i > p}
           least == CHOOSE k \in After : \A j \in After : k <= j
<1>1. oIter.on
  BY DEF Obj!IterGet
<1>2. /\ oIter \in ObjIter /\ oIter.max = n /\ oIter.idx \in 0 .. n
  BY <1>1 DEF ObjInv, Stands
<1>3. /\ n \in Nat /\ ObjRing(s, v, oRing)
      /\ s \in [1 .. n -> Obj!Keys] /\ \A i, j \in 1 .. n : s[i] = s[j] => i = j
  BY ObjectFacts DEF ObjInv
<1>4. P = {i \in 1 .. n : oName[s[i]] = nm}
  BY PlacesOf
<1>5. ASSUME n > 0
      PROVE  \A k \in 1 .. n : k \in K <=> Round(n, p + k) \in P
  <2> SUFFICES ASSUME NEW k \in 1 .. n
               PROVE  k \in K <=> Round(n, p + k) \in P
    OBVIOUS
  <2>1. k \in 0 .. n
    OBVIOUS
  <2>2. Obj!KeyBehind(oIter, k) = s[Round(n, p + k)] /\ Round(n, p + k) \in 1 .. n
    BY <1>1, <1>5, <2>1, BehindKey
  <2>3. k \in K <=> oName[Obj!KeyBehind(oIter, k)] = nm
    BY <1>2
  <2> HIDE DEF s, p, K, P
  <2> QED
    BY <1>4, <2>2, <2>3
<1>6. CASE K = {}
  <2>1. ObjInv' /\ Obj!AsMap!Refused
    BY <1>6, RefusedObject DEF Obj!IterGet
  <2>2. P = {}
    <3> SUFFICES ASSUME NEW i \in P PROVE FALSE
      OBVIOUS
    <3>1. i \in 1 .. n /\ n > 0
      BY <1>3, <1>4
    <3>2. p \in 0 .. n
      BY <1>1, <3>1, PositionIs
    <3>3. ASSUME NEW k, k = IF i > p THEN i - p ELSE i + n - p
          PROVE  k \in 1 .. n /\ Round(n, p + k) = i
      <4> HIDE DEF p, P
      <4> QED
        BY <1>3, <3>1, <3>2, <3>3 DEF Round
    <3> HIDE DEF p, P, K
    <3> QED
      BY <1>5, <1>6, <3>1, <3>3
  <2> QED
    BY <1>1, <2>1, <2>2, Zenon DEF Obj!AsMap!IterGet
<1>7. CASE K # {}
  <2>1. st \in K /\ \A k \in K : st <= k
    <3>1. K \subseteq Nat
      BY <1>2, <1>3
    <3>2. \E k \in K : \A j \in K : k <= j
      BY <1>7, <3>1, LeastExists
    <3> HIDE DEF K
    <3>3. st = CHOOSE k \in K : \A j \in K : k <= j
      BY Zenon DEF Obj!Least
    <3> HIDE DEF st
    <3> QED
      BY <3>2, <3>3, Zenon
  <2>2. st \in 1 .. n /\ n > 0 /\ n \in Nat \ {0}
    <3> HIDE DEF st
    <3> QED
      BY <1>2, <1>3, <2>1
  <2>3. p \in 0 .. n
    BY <1>1, <2>2, PositionIs
  <2>4. tgt \in P /\ P # {}
    <3> HIDE DEF st, P, K, p
    <3> QED
      BY <1>5, <2>1, <2>2
  <2>5. f \in P /\ \A i \in P : f <= i
    <3>1. /\ f \in P /\ \A i \in 1 .. n : oName[s[i]] = nm => f <= i
      BY <2>4, FirstPlace
    <3> HIDE DEF f, P, s
    <3> QED
      BY <1>4, <3>1
  <2>6. P \in SUBSET (1 .. n)
    BY <1>4, Zenon
  <2> HIDE DEF s, v, p, list, P, f, K, st
  <2>7. /\ p + st <= n <=> \E i \in P : i > p
        /\ p + st <= n => tgt = p + st /\ \A i \in P : i > p => p + st <= i
        /\ ~(p + st <= n) => tgt = f
        /\ Round(n, p + (st - 1)) = Place(n, tgt - 1)
    <3>1. \A k \in 1 .. n : k \in K <=> Round(n, p + k) \in P
      BY <1>5, <2>2
    <3>2. \A k \in 1 .. n : k \in K => st <= k
      BY <2>1
    <3>3. Finds(n, p, P, st, f)
      <4>1. st \in K /\ f \in P /\ \A i \in P : f <= i
        BY <2>1, <2>5
      <4> HIDE DEF tgt
      <4> QED
        BY <2>2, <2>3, <2>6, <3>1, <3>2, <4>1, RoundSearch, Zenon
    <3> QED
      BY <3>3, Zenon DEF Finds
  <2>8. tgt \in 1 .. n
    BY <2>4, <2>6
  <2>9. /\ Obj!KeyBehind(oIter, st) = s[tgt]
        /\ Obj!KeyBehind(oIter, st - 1) = s[Place(n, tgt - 1)]
        /\ Place(n, tgt - 1) \in 1 .. n
    <3>1. st \in 0 .. n /\ st - 1 \in 0 .. n
      BY <2>2
    <3>2. Obj!KeyBehind(oIter, st) = s[Round(n, p + st)]
      BY <1>1, <2>2, <3>1, BehindKey DEF s, p
    <3>3. Obj!KeyBehind(oIter, st - 1) = s[Round(n, p + (st - 1))]
      BY <1>1, <2>2, <3>1, BehindKey DEF s, p
    <3>4. Place(n, tgt - 1) \in 1 .. n
      <4> HIDE DEF tgt
      <4> QED
        BY <1>3, <2>8 DEF Place
    <3> QED
      BY <2>7, <3>2, <3>3, <3>4
  <2> HIDE DEF tgt
  <2>10. /\ oIter' = [oIter EXCEPT !.idx = IF idx > oIter.max THEN idx - (oIter.max + 1) ELSE idx,
                                   !.pre = Obj!KeyBehind(oIter, st - 1),
                                   !.cur = Obj!KeyBehind(oIter, st),
                                   !.fresh = TRUE,
                                   !.exact = @ /\ idx <= oIter.max]
         /\ Obj!Returned(oRing.next[Obj!KeyBehind(oIter, st)])
         /\ UNCHANGED <<oRing, oName, oData>>
    BY <1>7, Zenon DEF Obj!IterGet, K, st
  <2>11. /\ oIter'.on = TRUE /\ oIter'.max = n /\ oIter'.fresh = TRUE
         /\ oIter'.idx = (IF idx > n THEN idx - (n + 1) ELSE idx)
         /\ oIter'.cur = s[tgt] /\ oIter'.pre = s[Place(n, tgt - 1)]
         /\ oIter'.exact = (oIter.exact /\ idx <= n)
         /\ DOMAIN oIter' = DOMAIN oIter
    BY <1>1, <1>2, <2>9, <2>10 DEF ObjIter
  <2>12. oIter.exact => oIter.idx = p
    BY <1>1, <2>2, PositionIs DEF p
  <2>13. idx \in Nat /\ oIter'.idx \in 0 .. n
    <3>1. idx \in Nat /\ (IF idx > n THEN idx - (n + 1) ELSE idx) \in 0 .. n
      BY <1>2, <1>3, <2>2
    <3> QED
      BY <2>11, <3>1
  <2>14. oIter'.exact => oIter'.idx = tgt
    <3>1. oIter'.exact => oIter.exact /\ idx <= n
      BY <2>11, Zenon
    <3>2. oIter.exact /\ idx <= n => (IF idx > n THEN idx - (n + 1) ELSE idx) = tgt
      <4>1. oIter.exact /\ idx <= n => idx = p + st /\ p + st <= n /\ ~(idx > n)
        BY <1>2, <1>3, <2>2, <2>12
      <4> QED
        BY <2>7, <4>1
    <3> QED
      BY <2>11, <3>1, <3>2, Zenon
  <2>15. s[tgt] \in ObjNodes /\ s[Place(n, tgt - 1)] \in ObjNodes
    BY <1>3, <2>8, <2>9 DEF ObjNodes
  <2>16. oIter' \in ObjIter
    <3>1. oIter' = [on |-> TRUE, idx |-> IF idx > n THEN idx - (n + 1) ELSE idx, max |-> n,
                    cur |-> s[tgt], pre |-> s[Place(n, tgt - 1)], fresh |-> TRUE,
                    exact |-> IF oIter.exact /\ idx <= n THEN TRUE ELSE FALSE]
      BY <1>1, <1>2, <2>9, <2>10 DEF ObjIter
    <3>2. (IF idx > n THEN idx - (n + 1) ELSE idx) \in Nat
      BY <2>11, <2>13
    <3> QED
      BY <1>3, <2>15, <3>1, <3>2 DEF ObjIter
  <2>17. Stands(s, n, oIter')
    <3>1. tgt = Place(n, tgt)
      BY <1>3, <2>8 DEF Place
    <3> QED
      BY <2>2, <2>8, <2>11, <2>13, <2>14, <3>1 DEF Stands
  <2>18. /\ ObjInv' /\ list' = list
         /\ Obj!Position' = IF oIter'.exact THEN oIter'.idx
                            ELSE CHOOSE i \in 1 .. n : s[i] = oIter'.cur
    BY <2>10, <2>16, <2>17, IteratorMoved DEF s, list
  <2>19. Obj!Position' = tgt
    <3>1. CASE oIter'.exact
      BY <2>14, <2>18, <3>1
    <3>2. CASE ~oIter'.exact
      <4>1. Obj!Position' = CHOOSE i \in 1 .. n : s[i] = s[tgt]
        BY <2>11, <2>18, <3>2
      <4> QED
        BY <1>3, <2>8, <4>1
    <3> QED
      BY <3>1, <3>2
  <2>20. oIter'.exact = (oIter.exact /\ After # {})
    <3>1. oIter.exact => (idx <= n <=> p + st <= n)
      BY <2>12
    <3>2. After # {} <=> p + st <= n
      BY <2>7
    <3> HIDE DEF After
    <3> QED
      BY <2>11, <3>1, <3>2
  <2>21. tgt = IF After # {} THEN least ELSE f
    <3>1. CASE After # {}
      <4>1. p + st <= n
        BY <2>7, <3>1
      <4>2. tgt \in After /\ \A j \in After : tgt <= j
        BY <2>2, <2>3, <2>4, <2>7, <4>1
      <4>3. After \subseteq Nat
        <5>1. After \subseteq P /\ P \subseteq 1 .. n
          BY <2>6, Zenon
        <5> HIDE DEF After
        <5>2. 1 .. n \subseteq Nat
          BY <1>3
        <5> QED
          BY <5>1, <5>2, Zenon
      <4> HIDE DEF After
      <4>4. \A k \in After : (\A j \in After : k <= j) => k = tgt
        BY <4>2, <4>3
      <4>5. least = tgt
        BY <4>2, <4>4
      <4> HIDE DEF least
      <4> QED
        BY <3>1, <4>5, Zenon
    <3>2. CASE After = {}
      BY <2>7, <3>2
    <3> QED
      BY <3>1, <3>2
  <2>22. oRing.next[s[tgt]] = v[tgt]
    BY <1>3, <2>8, ObjRingFacts
  <2>23. Obj!Returned(v[tgt])
    BY <2>9, <2>10, <2>22, Zenon
  <2>24. Obj!AsMap!Done(list[tgt].data)
    BY <2>8, <2>23, ReturnedPlace, Zenon DEF v, list
  <2>25. [on |-> oIter.on, pos |-> Obj!Position, fresh |-> oIter.fresh, exact |-> oIter.exact]'
         = [on |-> TRUE, pos |-> tgt, fresh |-> TRUE, exact |-> oIter.exact /\ After # {}]
    <3> HIDE DEF After
    <3> QED
      BY <2>11, <2>19, <2>20, Zenon
  <2> QED
    BY <1>1, <2>4, <2>18, <2>21, <2>24, <2>25, Zenon
    DEF Obj!AsMap!IterGet, list, p, P, f
<1> QED
  BY <1>6, <1>7

\* A new object has no members.
LEMMA InitialObject == Obj!Init => ObjInv /\ Obj!AsMap!Init
<1> SUFFICES ASSUME Obj!Init PROVE ObjInv /\ Obj!AsMap!Init
  OBVIOUS
<1>1. /\ oRing = [len |-> 0, ptr |-> 0, next |-> [n \in ObjNodes |-> 0]]
      /\ oName \in [Obj!Keys -> Names] /\ oData \in [Obj!Vals -> Data]
      /\ oIter = [on |-> FALSE, idx |-> 0, max |-> 0, cur |-> 0, pre |-> 0, fresh |-> FALSE,
                  exact |-> TRUE]
      /\ oCall = <<"new">> /\ oOut = [ok |-> TRUE, val |-> NoData]
  BY DEF Obj!Init, Obj!NoIter, Obj!NoNode, ObjNodes
<1>2. oRing \in RingRecord /\ oRing.len = 0
  BY <1>1 DEF RingRecord
<1>3. Obj!ListedKeys = << >> /\ Obj!ListedVals = << >>
  BY <1>2 DEF Obj!ListedKeys, Obj!ListedVals
<1>4. ObjRing(Obj!ListedKeys, Obj!ListedVals, oRing)
  <2>1. << >> \in [1 .. 0 -> Obj!Keys] /\ << >> \in [1 .. 0 -> Obj!Vals]
    OBVIOUS
  <2>2. Ring(Obj!Keys, << >>, 0, oRing.ptr, KeyLinks(oRing))
    BY <2>1 DEF Ring, Closes
  <2> QED
    BY <1>2, <1>3, <2>1, <2>2 DEF ObjRing
<1>5. oIter \in ObjIter /\ Stands(Obj!ListedKeys, oRing.len, oIter)
  BY <1>1 DEF ObjIter, Stands
<1>6. Obj!Contents = << >>
  BY <1>2 DEF Obj!Contents
<1>7. Obj!Position = 0
  BY <1>1 DEF Obj!Position
<1>8. [on |-> oIter.on, pos |-> Obj!Position, fresh |-> oIter.fresh, exact |-> oIter.exact]
      = [on |-> FALSE, pos |-> 0, fresh |-> FALSE, exact |-> TRUE]
  BY <1>1, <1>7
<1>9. Obj!AsMap!Init
  BY <1>1, <1>6, <1>8, Zenon DEF Obj!AsMap!Init, Obj!AsMap!NoIter
<1> QED
  BY <1>1, <1>4, <1>5, <1>9 DEF ObjInv

\* Every call keeps the ring of the object and is the call of JsonMap with its arguments.
LEMMA EveryObjectCall ==
    ObjInv /\ [Obj!Next]_objectVars => ObjInv' /\ [Obj!AsMap!Next]_(Obj!AsMap!vars)
<1> SUFFICES ASSUME ObjInv, [Obj!Next]_objectVars
             PROVE  ObjInv' /\ [Obj!AsMap!Next]_(Obj!AsMap!vars)
  OBVIOUS
<1>0. /\ Len(Obj!Contents) = oRing.len
      /\ \A c : Obj!AsMap!Called(c) <=> Obj!Called(c)
  BY ObjectFacts DEF Obj!AsMap!Called, Obj!Called
<1>1. ASSUME NEW nm \in Names, Obj!Called(<<"remove", nm>>), Obj!Remove(nm)
      PROVE  ObjInv' /\ Obj!AsMap!Next
  BY <1>0, <1>1, RemoveNameCall, Zenon DEF Obj!AsMap!Next
<1>2. ASSUME NEW nm \in Names, Obj!Called(<<"remove_str", nm>>), Obj!RemoveStr(nm)
      PROVE  ObjInv' /\ Obj!AsMap!Next
  BY <1>0, <1>2, RemoveStrCall, Zenon DEF Obj!AsMap!Next
<1>3. ASSUME NEW nm \in Names, Obj!Called(<<"put_null", nm>>), Obj!PutNull(nm)
      PROVE  ObjInv' /\ Obj!AsMap!Next
  BY <1>0, <1>3, PutNullCall, Zenon DEF Obj!AsMap!Next
<1>4. ASSUME NEW nm \in Names, Obj!Called(<<"get", nm>>), Obj!Get(nm)
      PROVE  ObjInv' /\ Obj!AsMap!Next
  BY <1>0, <1>4, GetPairCall, Zenon DEF Obj!AsMap!Next
<1>5. ASSUME NEW nm \in Names, Obj!Called(<<"iter_get", nm>>), Obj!IterGet(nm)
      PROVE  ObjInv' /\ Obj!AsMap!Next
  BY <1>0, <1>5, PairIterGetCall, Zenon DEF Obj!AsMap!Next
<1>6. ASSUME NEW nm \in Names, NEW new \in Names,
             Obj!Called(<<"rename", nm, new>>), Obj!RenameKey(nm, new)
      PROVE  ObjInv' /\ Obj!AsMap!Next
  BY <1>0, <1>6, RenameKeyCall, Zenon DEF Obj!AsMap!Next
<1>7. ASSUME NEW nm \in Names, NEW d \in Data, Obj!Called(<<"add", nm, d>>), Obj!Add(nm, d)
      PROVE  ObjInv' /\ Obj!AsMap!Next
  BY <1>0, <1>7, AddPairCall, Zenon DEF Obj!AsMap!Next
<1>8. ASSUME NEW nm \in Names, NEW d \in Data, Obj!Called(<<"add_new", nm, d>>), Obj!AddNew(nm, d)
      PROVE  ObjInv' /\ Obj!AsMap!Next
  <2>1. ObjInv' /\ (Obj!AsMap!Add(nm, d) \/ Obj!AsMap!Refused)
    BY <1>8, AddPairCall, RefusedObject, Zenon DEF Obj!AddNew
  <2> QED
    BY <1>0, <1>8, <2>1, Zenon DEF Obj!AsMap!Next
<1>9. ASSUME NEW nm \in Names, NEW d \in Data, Obj!Called(<<"put", nm, d>>), Obj!Put(nm, d)
      PROVE  ObjInv' /\ Obj!AsMap!Next
  BY <1>0, <1>9, PutCall, Zenon DEF Obj!AsMap!Next
<1>10. ASSUME NEW nm \in Names, NEW d \in Data, Obj!Called(<<"replace", nm, d>>), Obj!Replace(nm, d)
       PROVE  ObjInv' /\ Obj!AsMap!Next
  BY <1>0, <1>10, ReplacePairCall, Zenon DEF Obj!AsMap!Next
<1>11. ASSUME NEW nm \in Names, NEW d \in Data, NEW idx \in 0 .. oRing.len + 1,
              Obj!Called(<<"insert", nm, d, idx>>), Obj!Insert(nm, d, idx)
       PROVE  ObjInv' /\ Obj!AsMap!Next
  BY <1>0, <1>11, InsertPairCall, Zenon DEF Obj!AsMap!Next
<1>12. ASSUME NEW idx \in 0 .. oRing.len, Obj!Called(<<"rotate", idx>>), Obj!Rotate(idx)
       PROVE  ObjInv' /\ Obj!AsMap!Next
  BY <1>0, <1>12, RotatePairsCall, Zenon DEF Obj!AsMap!Next
<1>13. ASSUME oRing.len = 0, NEW n \in 0 .. PAIRS, NEW members \in [1 .. n -> MemberType],
              Obj!Called(<<"obj_with", members>>), Obj!ObjWith(members)
       PROVE  ObjInv' /\ Obj!AsMap!Next
  <2>1. Obj!Contents = << >>
    BY <1>13 DEF Obj!Contents
  <2> QED
    BY <1>0, <1>13, <2>1, ObjWithCall, Zenon DEF Obj!AsMap!Next, MemberType
<1>14. CASE Obj!Called(<<"clear">>) /\ Obj!Clear
  BY <1>0, <1>14, ClearPairsCall, Zenon DEF Obj!AsMap!Next
<1>15. CASE Obj!Called(<<"iter_init">>) /\ Obj!IterInit
  BY <1>0, <1>15, PairIterInitCall, Zenon DEF Obj!AsMap!Next
<1>16. CASE Obj!Called(<<"iter_next">>) /\ Obj!IterNext
  BY <1>0, <1>16, PairIterNextCall, Zenon DEF Obj!AsMap!Next
<1>17. CASE Obj!Called(<<"iter_remove">>) /\ Obj!IterRemove
  BY <1>0, <1>17, PairIterRemoveCall, Zenon DEF Obj!AsMap!Next
<1>18. CASE UNCHANGED objectVars
  <2>1. /\ UNCHANGED <<oRing, oName, oData, oIter>> /\ oCall' = oCall /\ oOut' = oOut
    BY <1>18 DEF objectVars
  <2>2. ObjInv' /\ Obj!Contents' = Obj!Contents /\ MapIter' = MapIter
    BY <2>1, UnchangedObject
  <2> QED
    BY <2>1, <2>2 DEF Obj!AsMap!vars, MapIter
<1>19. CASE Obj!Next
  <2>1. CASE \E nm \in Names :
                \/ Obj!Called(<<"remove", nm>>) /\ Obj!Remove(nm)
                \/ Obj!Called(<<"remove_str", nm>>) /\ Obj!RemoveStr(nm)
                \/ Obj!Called(<<"put_null", nm>>) /\ Obj!PutNull(nm)
                \/ Obj!Called(<<"get", nm>>) /\ Obj!Get(nm)
                \/ Obj!Called(<<"iter_get", nm>>) /\ Obj!IterGet(nm)
                \/ \E new \in Names : Obj!Called(<<"rename", nm, new>>) /\ Obj!RenameKey(nm, new)
                \/ \E d \in Data :
                      \/ Obj!Called(<<"add", nm, d>>) /\ Obj!Add(nm, d)
                      \/ Obj!Called(<<"add_new", nm, d>>) /\ Obj!AddNew(nm, d)
                      \/ Obj!Called(<<"put", nm, d>>) /\ Obj!Put(nm, d)
                      \/ Obj!Called(<<"replace", nm, d>>) /\ Obj!Replace(nm, d)
                      \/ \E idx \in 0 .. oRing.len + 1 :
                            Obj!Called(<<"insert", nm, d, idx>>) /\ Obj!Insert(nm, d, idx)
    BY <1>1, <1>2, <1>3, <1>4, <1>5, <1>6, <1>7, <1>8, <1>9, <1>10, <1>11, <2>1, Zenon
  <2>2. CASE \E idx \in 0 .. oRing.len : Obj!Called(<<"rotate", idx>>) /\ Obj!Rotate(idx)
    BY <1>12, <2>2, Zenon
  <2>3. CASE /\ oRing.len = 0
             /\ \E n \in 0 .. PAIRS : \E members \in [1 .. n -> [name : Names, data : Data]] :
                   Obj!Called(<<"obj_with", members>>) /\ Obj!ObjWith(members)
    BY <1>13, <2>3, Zenon DEF MemberType
  <2> QED
    BY <1>14, <1>15, <1>16, <1>17, <1>19, <2>1, <2>2, <2>3, Zenon DEF Obj!Next
<1> QED
  BY <1>18, <1>19

\* The ring of an object is closed in the sense of its module, and holds no more pairs
\* than there are.
LEMMA ObjectCloses == ObjInv => ObjectRingInv /\ ObjectIteratorInv
<1> SUFFICES ASSUME ObjInv PROVE ObjectRingInv /\ ObjectIteratorInv
  OBVIOUS
<1> DEFINE s == Obj!ListedKeys
           v == Obj!ListedVals
           n == oRing.len
<1>1. /\ ObjRing(s, v, oRing) /\ n \in Nat
      /\ s \in [1 .. n -> Obj!Keys] /\ v \in [1 .. n -> Obj!Vals]
      /\ \A i, j \in 1 .. n : s[i] = s[j] => i = j
      /\ \A i, j \in 1 .. n : v[i] = v[j] => i = j
  BY ObjectFacts DEF ObjInv
<1>2. PAIRS \in Nat
  BY ObjectAssumption DEF Obj!PairsAssumption
<1> HIDE DEF s, v
<1>3. n <= PAIRS
  <2> DEFINE g == [i \in 1 .. n |-> CHOOSE k \in 1 .. PAIRS : s[i] = 2 * k - 1]
  <2>1. \A i \in 1 .. n : g[i] \in 1 .. PAIRS /\ s[i] = 2 * g[i] - 1
    <3> SUFFICES ASSUME NEW i \in 1 .. n
                 PROVE  g[i] \in 1 .. PAIRS /\ s[i] = 2 * g[i] - 1
      OBVIOUS
    <3>1. \E k \in 1 .. PAIRS : s[i] = 2 * k - 1
      BY <1>1 DEF Obj!Keys
    <3>2. g[i] = CHOOSE k \in 1 .. PAIRS : s[i] = 2 * k - 1
      OBVIOUS
    <3> HIDE DEF g
    <3> QED
      BY <3>1, <3>2
  <2>2. g = [i \in 1 .. n |-> g[i]]
    OBVIOUS
  <2> HIDE DEF g
  <2>3. g \in Injection(1 .. n, 1 .. PAIRS)
    <3>1. g \in [1 .. n -> 1 .. PAIRS]
      BY <2>1, <2>2
    <3>2. \A i, j \in 1 .. n : g[i] = g[j] => i = j
      BY <1>1, <2>1
    <3> QED
      BY <3>1, <3>2 DEF Injection, IsInjective
  <2>4. IsFiniteSet(1 .. PAIRS) /\ Cardinality(1 .. PAIRS) = PAIRS /\ Cardinality(1 .. n) = n
    <3>1. n \in Nat
      BY <1>1
    <3>2. IsFiniteSet(1 .. PAIRS) /\ Cardinality(1 .. PAIRS) = PAIRS
      BY <1>2, FS_Interval
    <3>3. Cardinality(1 .. n) = n
      BY <3>1, FS_Interval
    <3> QED
      BY <3>2, <3>3
  <2>5. Cardinality(1 .. n) <= Cardinality(1 .. PAIRS)
    BY <2>3, <2>4, FS_Injection
  <2> QED
    BY <2>4, <2>5
<1>4. n > 0 => \A k \in 0 .. n + 1 : Obj!KeyAt(oRing, k) = s[Place(n, k)]
  BY <1>1, KeyAtPlace
<1>5. n > 0 => Obj!KeyAt(oRing, n) = oRing.ptr
  <2>1. n > 0 => oRing.ptr = s[n] /\ Place(n, n) = n /\ n \in 0 .. n + 1
    BY <1>1, ObjRingFacts DEF Place
  <2> QED
    BY <1>4, <2>1
<1>6. /\ Obj!IsInjective(s) /\ Obj!Range(s) \subseteq Obj!Keys
      /\ Obj!IsInjective(v) /\ Obj!Range(v) \subseteq Obj!Vals
  BY <1>1 DEF Obj!IsInjective, Obj!Range
<1>7. ObjectRingInv
  BY <1>1, <1>2, <1>3, <1>5, <1>6 DEF ObjectRingInv, Obj!RingInv, s, v
<1>8. ASSUME oIter.on
      PROVE  /\ oIter.max = n
             /\ oIter.exact /\ n > 0 => oIter.cur = Obj!KeyAt(oRing, oIter.idx)
             /\ oIter.fresh => oIter.cur = Obj!NextKey(oRing, oIter.pre)
  <2>1. oIter.max = n /\ oIter.idx \in 0 .. n
    BY <1>8 DEF ObjInv, Stands
  <2>2. ASSUME oIter.exact, n > 0
        PROVE  oIter.cur = Obj!KeyAt(oRing, oIter.idx)
    <3>1. oIter.cur = s[Place(n, oIter.idx)]
      BY <1>8, <2>2, ExactIterator DEF s
    <3>2. oIter.idx \in 0 .. n + 1
      BY <1>1, <2>1
    <3> QED
      BY <1>4, <2>2, <3>1, <3>2
  <2>3. ASSUME oIter.fresh
        PROVE  oIter.cur = Obj!NextKey(oRing, oIter.pre)
    <3>1. PICK j \in 1 .. n : oIter.cur = s[j] /\ oIter.pre = s[Place(n, j - 1)]
      BY <1>8, <2>3 DEF ObjInv, Stands, s
    <3>2. n > 0 /\ j - 1 \in 0 .. n /\ (j - 1) + 1 = j /\ Place(n, j) = j
      BY <1>1 DEF Place
    <3>3. Obj!NextKey(oRing, s[Place(n, j - 1)]) = s[Place(n, (j - 1) + 1)]
      <4>1. ObjRing(s, v, oRing) /\ n > 0 /\ j - 1 \in 0 .. n
        BY <1>1, <3>2
      <4> QED
        BY <4>1, NextKeyPlace
    <3> QED
      BY <3>1, <3>2, <3>3
  <2> QED
    BY <2>1, <2>2, <2>3
<1>9. ObjectIteratorInv
  BY <1>8 DEF ObjectIteratorInv, Obj!IteratorInv
<1> QED
  BY <1>7, <1>9

\* Whichever container a behaviour calls, the object takes a step of its own or none.
LEMMA ObjectStep == [MCNext]_mcVars => [Obj!Next]_objectVars
BY DEF MCNext, CallQueue, CallArray, CallObject, MakeValues, UsePool, mcVars, containerVars, objectVars

\* The queue too takes a step of its own or none.
LEMMA QueueStep == [MCNext]_mcVars => [Next]_vars
BY DEF MCNext, CallQueue, CallArray, CallObject, MakeValues, UsePool, mcVars, containerVars, vars

\* The queue, the array and the object stay closed, for every capacity and every number
\* of nodes, names and values: their indices and links agree, the iterators stand where
\* they say, and the loop that shifts the queue moves each element once.
THEOREM StructuresInvHolds == MCSpec => []StructuresInv
<1>1. MCInit => QueueInv /\ ArrayInv /\ ObjInv
  BY InitialQueue, InitialArray, InitialObject DEF MCInit
<1>2. /\ QueueInv /\ ArrayInv /\ ObjInv
      /\ [MCNext]_mcVars
      => (QueueInv /\ ArrayInv /\ ObjInv)'
  BY EveryCall, EveryArrayCall, EveryObjectCall, QueueStep, ArrayStep, ObjectStep
<1>3. QueueInv /\ ArrayInv /\ ObjInv => StructuresInv
  BY LoopShifts, ArrayCloses, ObjectCloses DEF StructuresInv
<1> QED
  BY <1>1, <1>2, <1>3, PTL DEF MCSpec

\* A mutable object behaves as the sequence of its members, in which a name may occur more
\* than once, for every number of pairs, every names and values and every sequence of
\* calls, what they return and where their iterators stand included.
THEOREM ObjectImplementsMap == MCSpec => ImplementsMap
<1>1. MCInit => ObjInv /\ Obj!AsMap!Init
  BY InitialObject DEF MCInit
<1>2. ObjInv /\ [MCNext]_mcVars
      => ObjInv' /\ [Obj!AsMap!Next]_(Obj!AsMap!vars)
  BY EveryObjectCall, ObjectStep
<1> QED
  BY <1>1, <1>2, PTL DEF MCSpec, ImplementsMap, Obj!ImplementsMap, Obj!AsMap!Spec

=============================================================================
