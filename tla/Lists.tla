------------------------------- MODULE Lists -------------------------------
(***************************************************************************)
(* What the lists of queue.h promise: each head stands for a sequence of   *)
(* elements, an element is in one of them at most, and an operation does   *)
(* to the sequence what its name says and nothing else.                    *)
(***************************************************************************)
EXTENDS Integers, SequencesExt

CONSTANTS
    Elms,      \* the elements
    Heads      \* the heads of the lists

VARIABLES
    lists,     \* per head, its elements
    op         \* the last operation

In(e, h) == e \in Range(lists[h])
Out(e) == \A h \in Heads : ~In(e, h)
Position(e, h) == CHOOSE i \in DOMAIN lists[h] : lists[h][i] = e

Init == lists = [h \in Heads |-> <<>>] /\ op = <<"init">>

\* e becomes the i-th element of h.
Put(h, e, i) == Out(e) /\ lists' = [lists EXCEPT ![h] = InsertAt(@, i, e)]

InsertHead(h, e) == Put(h, e, 1) /\ op' = <<"head", h, e>>
InsertTail(h, e) == Put(h, e, Len(lists[h]) + 1) /\ op' = <<"tail", h, e>>
InsertAfter(h, l, e) == In(l, h) /\ Put(h, e, Position(l, h) + 1) /\ op' = <<"after", l, e>>
InsertBefore(h, l, e) == In(l, h) /\ Put(h, e, Position(l, h)) /\ op' = <<"before", l, e>>

TakeOut(h, e) ==
    /\ In(e, h)
    /\ lists' = [lists EXCEPT ![h] = RemoveAt(@, Position(e, h))]
    /\ op' = <<"remove", h, e>>

\* f takes the place of e.
Exchange(h, e, f) ==
    /\ In(e, h) /\ Out(f)
    /\ lists' = [lists EXCEPT ![h] = ReplaceAt(@, Position(e, h), f)]
    /\ op' = <<"replace", e, f>>

\* All elements of the second list go to the end of the first.
Join(g, h) ==
    /\ g # h
    /\ lists' = [lists EXCEPT ![g] = @ \o lists[h], ![h] = <<>>]
    /\ op' = <<"concat", g, h>>

Next ==
    \E h \in Heads :
        \/ \E e \in Elms :
              \/ InsertHead(h, e) \/ InsertTail(h, e) \/ TakeOut(h, e)
              \/ \E l \in Elms : InsertAfter(h, l, e) \/ InsertBefore(h, l, e) \/ Exchange(h, e, l)
        \/ \E g \in Heads : Join(g, h)

Spec == Init /\ [][Next]_<<lists, op>>
=============================================================================
