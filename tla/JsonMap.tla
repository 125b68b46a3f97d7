------------------------------- MODULE JsonMap -------------------------------
(***************************************************************************)
(* What the mutable object API promises (include/yyjson.h, Mutable JSON    *)
(* Object API): a sequence of members, in which a name may occur more than *)
(* once, an iterator that is a position in it, and what the last call      *)
(* returned.                                                               *)
(***************************************************************************)
EXTENDS Naturals, Sequences, FiniteSets

Seqs == INSTANCE SequencesExt

CONSTANTS Names, Data, NoData, PAIRS

VARIABLES
    list,   \* the members, [name, data]
    iter,   \* [on, pos, fresh, exact]: fresh as in JsonList; exact until a search
            \* goes past the last member
    call,   \* the last call and its arguments
    out     \* [ok, val]: what it returned

vars == <<list, iter, call, out>>

Member(nm, d) == [name |-> nm, data |-> d]
NoIter == [on |-> FALSE, pos |-> 0, fresh |-> FALSE, exact |-> TRUE]

Done(d) == out' = [ok |-> TRUE, val |-> d]
Refused ==
    out' = [ok |-> FALSE, val |-> NoData] /\ UNCHANGED <<list, iter>>
Becomes(s) == list' = s /\ iter' = NoIter

Places(nm) == {i \in DOMAIN list : list[i].name = nm}
First(nm) == CHOOSE i \in Places(nm) : \A j \in Places(nm) : i <= j

\* The first k places that are in S, in order, and what a sequence has there
InOrder(S, k) ==
    LET upTo[i \in 0 .. k] ==
            IF i = 0 THEN << >> ELSE IF i \in S THEN Append(upTo[i - 1], i) ELSE upTo[i - 1]
    IN  upTo[k]
Only(s, S) == LET at == InOrder(S, Len(s)) IN [i \in 1 .. Len(at) |-> s[at[i]]]
WithoutName(nm) == Only(list, DOMAIN list \ Places(nm))

\* The data of the first member with the name
Get(nm) == IF Places(nm) = {} THEN Refused
           ELSE Done(list[First(nm)].data) /\ UNCHANGED <<list, iter>>

Init == list = << >> /\ iter = NoIter /\ call = <<"new">> /\ out = [ok |-> TRUE, val |-> NoData]

Insert(nm, d, idx) ==
    IF idx > Len(list) THEN Refused
    ELSE Becomes(Seqs!InsertAt(list, idx + 1, Member(nm, d))) /\ Done(NoData)
Add(nm, d) == Insert(nm, d, Len(list))

\* The first member with the name gets the data, and no other keeps the name.
Put(nm, d) ==
    /\ IF Places(nm) = {} THEN Becomes(Append(list, Member(nm, d)))
       ELSE Becomes(Only([list EXCEPT ![First(nm)] = Member(nm, d)],
                         (DOMAIN list \ Places(nm)) \cup {First(nm)}))
    /\ Done(NoData)
PutNull(nm) == Becomes(WithoutName(nm)) /\ Done(NoData)

\* Removes every member with the name and returns the data of the first.
Remove(nm) ==
    /\ Becomes(WithoutName(nm))
    /\ IF Places(nm) = {} THEN out' = [ok |-> FALSE, val |-> NoData]
       ELSE Done(list[First(nm)].data)

Replace(nm, d) ==
    IF Places(nm) = {} THEN Refused
    ELSE Becomes([list EXCEPT ![First(nm)].data = d]) /\ Done(NoData)
RenameKey(nm, new) ==
    IF Places(nm) = {} THEN Refused
    ELSE /\ Becomes([i \in DOMAIN list |->
                        IF list[i].name = nm THEN [list[i] EXCEPT !.name = new] ELSE list[i]])
         /\ Done(NoData)
Clear == Becomes(<< >>) /\ Done(NoData)
Rotate(idx) ==
    IF idx >= Len(list) THEN Refused
    ELSE Becomes(SubSeq(list, idx + 1, Len(list)) \o SubSeq(list, 1, idx)) /\ Done(NoData)
ObjWith(members) == Becomes(members) /\ Done(NoData)

IterInit ==
    /\ iter' = [on |-> TRUE, pos |-> 0, fresh |-> FALSE, exact |-> TRUE]
    /\ Done(NoData) /\ UNCHANGED list
IterNext ==
    /\ iter.on /\ iter.exact
    /\ IF iter.pos = Len(list) THEN Refused
       ELSE /\ iter' = [on |-> TRUE, pos |-> iter.pos + 1, fresh |-> TRUE, exact |-> TRUE]
            /\ Done(list[iter.pos + 1].data)
            /\ UNCHANGED list
IterRemove ==
    /\ iter.on /\ iter.exact /\ iter.fresh
    /\ list' = Seqs!RemoveAt(list, iter.pos)
    /\ iter' = [on |-> TRUE, pos |-> iter.pos - 1, fresh |-> FALSE, exact |-> TRUE]
    /\ Done(list[iter.pos].data)

\* The search starts behind the position and goes round once.
IterGet(nm) ==
    /\ iter.on
    /\ IF Places(nm) = {} THEN Refused
       ELSE LET After == {i \in Places(nm) : i > iter.pos}
                i == IF After # {} THEN CHOOSE k \in After : \A j \in After : k <= j ELSE First(nm)
            IN  /\ iter' = [on |-> TRUE, pos |-> i, fresh |-> TRUE,
                            exact |-> iter.exact /\ After # {}]
                /\ Done(list[i].data) /\ UNCHANGED list

Called(c) == call' = c

Next ==
    \/ \E nm \in Names :
          \/ Called(<<"remove", nm>>) /\ Remove(nm)
          \/ Called(<<"remove_str", nm>>) /\ Remove(nm)
          \/ Called(<<"put_null", nm>>) /\ PutNull(nm)
          \/ Called(<<"get", nm>>) /\ Get(nm)
          \/ Called(<<"iter_get", nm>>) /\ IterGet(nm)
          \/ \E new \in Names : Called(<<"rename", nm, new>>) /\ (RenameKey(nm, new) \/ Refused)
          \/ \E d \in Data :
                \/ Called(<<"add", nm, d>>) /\ Add(nm, d)
                \/ Called(<<"add_new", nm, d>>) /\ (Add(nm, d) \/ Refused)
                \/ Called(<<"put", nm, d>>) /\ Put(nm, d)
                \/ Called(<<"replace", nm, d>>) /\ Replace(nm, d)
                \/ \E idx \in 0 .. Len(list) + 1 : Called(<<"insert", nm, d, idx>>) /\ Insert(nm, d, idx)
    \/ \E idx \in 0 .. Len(list) : Called(<<"rotate", idx>>) /\ Rotate(idx)
    \/ /\ list = << >>
       /\ \E n \in 0 .. PAIRS : \E members \in [1 .. n -> [name : Names, data : Data]] :
             Called(<<"obj_with", members>>) /\ ObjWith(members)
    \/ Called(<<"clear">>) /\ Clear
    \/ Called(<<"iter_init">>) /\ IterInit
    \/ Called(<<"iter_next">>) /\ IterNext
    \/ Called(<<"iter_remove">>) /\ IterRemove

Spec == Init /\ [][Next]_vars
=============================================================================
