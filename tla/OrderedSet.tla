----------------------------- MODULE OrderedSet -----------------------------
(***************************************************************************)
(* What the trees of tree.h promise: a set of elements with different      *)
(* keys, which grows and shrinks as asked, and is found in order.          *)
(***************************************************************************)
EXTENDS Integers

CONSTANTS
    Elms,      \* the elements
    Key,       \* their keys, numbers
    Null       \* no element

VARIABLES
    members,   \* the elements in the tree
    op         \* the last call, its argument and its result

\* The members with the key of e: one at most.
Like(e) == {x \in members : Key[x] = Key[e]}
The(S) == IF S = {} THEN Null ELSE CHOOSE x \in S : TRUE

Least(S) == The({x \in S : \A y \in S : Key[x] <= Key[y]})
Greatest(S) == The({x \in S : \A y \in S : Key[x] >= Key[y]})

Found(e) == The(Like(e))
AtLeast(e) == Least({x \in members : Key[x] >= Key[e]})
After(e) == Least({x \in members : Key[x] > Key[e]})
Before(e) == Greatest({x \in members : Key[x] < Key[e]})

Init == members = {} /\ op = <<"init">>

Insert(e) ==
    /\ members' = IF Like(e) = {} THEN members \cup {e} ELSE members
    /\ op' = <<"insert", e, Found(e)>>

Remove(e) ==
    /\ members' = members \ Like(e)
    /\ op' = <<"remove", e, IF Like(e) = {} THEN Null ELSE e>>

Find(e) == op' = <<"find", e, Found(e)>> /\ UNCHANGED members
FindNext(e) == e \in members /\ op' = <<"next", e, After(e)>> /\ UNCHANGED members
FindMin == op' = <<"min", Null, Least(members)>> /\ UNCHANGED members
FindMax == op' = <<"max", Null, Greatest(members)>> /\ UNCHANGED members

Next ==
    \/ \E e \in Elms : Insert(e) \/ Remove(e) \/ Find(e) \/ FindNext(e)
    \/ FindMin \/ FindMax

Spec == Init /\ [][Next]_<<members, op>>
=============================================================================
