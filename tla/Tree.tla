-------------------------------- MODULE Tree --------------------------------
(***************************************************************************)
(* The trees of src/include/tree.h, red-black trees (RB) and splay trees   *)
(* (SPLAY), by the pointers their functions leave.  The branches of the    *)
(* code come in pairs that are each other's mirror image; a definition has *)
(* the side as a parameter and stands for both.  RB_AUGMENT is empty, as   *)
(* it is unless a program defines it.                                      *)
(*                                                                         *)
(* The fields of an element that is in no tree are Stale.                  *)
(***************************************************************************)
EXTENDS Integers, Sequences, Functions

CONSTANTS
    RbElms, SplayElms,   \* the elements, numbers
    Key,                 \* their keys, by element
    Null, Stale, Node    \* model values; Node is the local __node of a splay

Left  == 1
Right == 2
Sides == {Left, Right}
Other(s) == 3 - s

VARIABLES
    family,    \* the macros that are used: RB or SPLAY
    t,         \* the tree: root, children by side, parent and colour
    call       \* the last call, its argument and its result

vars == <<family, t, call>>

Entries == IF family = "RB" THEN RbElms ELSE SplayElms

\* The side of x on which e is to be found; 0: the keys are equal.
Side(e, x) ==
    IF Key[e] < Key[x] THEN Left ELSE IF Key[e] > Key[x] THEN Right ELSE 0

\* The elements below x in order.
RECURSIVE Below(_, _)
Below(tree, x) ==
    IF x = Null THEN <<>> ELSE Below(tree, tree.kid[Left][x]) \o <<x>> \o Below(tree, tree.kid[Right][x])

Members == Range(Below(t, t.root))

\* Nobody may look at e any more.
Forget(tree, e) ==
    [tree EXCEPT !.kid[Left][e] = Stale, !.kid[Right][e] = Stale, !.parent[e] = Stale, !.red[e] = FALSE]

----------------------------------------------------------------------------
(* Red-black trees.                                                        *)

Red(tree, e) == e # Null /\ tree.red[e]
Blacken(tree, e) == IF e = Null THEN tree ELSE [tree EXCEPT !.red[e] = FALSE]
BlackRed(tree, b, r) == [tree EXCEPT !.red[b] = FALSE, !.red[r] = TRUE]
Adopt(tree, e, p) == IF e = Null THEN tree ELSE [tree EXCEPT !.parent[e] = p]

\* new takes the place of old below p, or at the root.
Hang(tree, p, old, new) ==
    IF p = Null THEN [tree EXCEPT !.root = new]
    ELSE IF tree.kid[Left][p] = old THEN [tree EXCEPT !.kid[Left][p] = new]
    ELSE [tree EXCEPT !.kid[Right][p] = new]

\* RB_ROTATE_LEFT for s = Left: e goes down to the side s.
Rotate(tree, e, s) ==
    LET up    == tree.kid[Other(s)][e]
        moved == tree.kid[s][up]
        p     == tree.parent[e]
        t1    == Hang(Adopt([tree EXCEPT !.kid[Other(s)][e] = moved], moved, e), p, e, up)
    IN  [t1 EXCEPT !.parent[up] = p, !.kid[s][up] = e, !.parent[e] = up]

RECURSIVE InsertColor(_, _)
InsertColor(tree, e) ==
    LET p == tree.parent[e]
    IN  IF ~Red(tree, p) THEN Blacken(tree, tree.root)
        ELSE LET g == tree.parent[p]
                 s == IF tree.kid[Left][g] = p THEN Left ELSE Right
                 u == tree.kid[Other(s)][g]
                 inside == tree.kid[Other(s)][p] = e
                 outer == IF inside THEN p ELSE e      \* elm and parent after the exchange
                 mid   == IF inside THEN e ELSE p
                 t1    == IF inside THEN Rotate(tree, p, s) ELSE tree
             IN  IF Red(tree, u)
                 THEN InsertColor(BlackRed(Blacken(tree, u), p, g), g)
                 ELSE InsertColor(Rotate(BlackRed(t1, mid, g), g, Other(s)), outer)

\* e, which may be null, is one black too few, below p.
RECURSIVE RemoveColor(_, _, _)
RemoveColor(tree, p, e) ==
    IF Red(tree, e) \/ e = tree.root THEN Blacken(tree, e)
    ELSE LET s  == IF tree.kid[Left][p] = e THEN Left ELSE Right
             o  == Other(s)
             t1 == LET b == tree.kid[o][p]
                   IN  IF Red(tree, b) THEN Rotate(BlackRed(tree, b, p), p, s) ELSE tree
             b1 == t1.kid[o][p]
             t2 == IF Red(t1, t1.kid[o][b1]) THEN t1
                   ELSE Rotate([Blacken(t1, t1.kid[s][b1]) EXCEPT !.red[b1] = TRUE], b1, o)
             b2 == t2.kid[o][p]
             t3 == Blacken([t2 EXCEPT !.red[b2] = t2.red[p], !.red[p] = FALSE], t2.kid[o][b2])
             t4 == Rotate(t3, p, s)
         IN  IF ~Red(t1, t1.kid[Left][b1]) /\ ~Red(t1, t1.kid[Right][b1])
             THEN RemoveColor([t1 EXCEPT !.red[b1] = TRUE], t1.parent[p], p)
             ELSE Blacken(t4, t4.root)

\* The outermost element below e on the side s.
RECURSIVE Outermost(_, _, _)
Outermost(tree, e, s) ==
    IF tree.kid[s][e] = Null THEN e ELSE Outermost(tree, tree.kid[s][e], s)

\* e with at most one child leaves its place to it.
Unlink(tree, e, child) == Hang(Adopt(tree, child, tree.parent[e]), tree.parent[e], e, child)

\* Mutant: the element that moves keeps its own colour.
RemoveBetweenOwn(tree, old) ==
    LET e     == Outermost(tree, tree.kid[Right][old], Left)
        child == tree.kid[Right][e]
        t1    == Unlink(tree, e, child)
        from  == IF tree.parent[e] = old THEN e ELSE tree.parent[e]
        t2    == Hang([t1 EXCEPT !.kid[Left][e] = t1.kid[Left][old], !.kid[Right][e] = t1.kid[Right][old],
                                 !.parent[e] = t1.parent[old]],
                      t1.parent[old], old, e)
        t3    == Adopt(Adopt(t2, t2.kid[Left][old], e), t2.kid[Right][old], e)
    IN  IF tree.red[e] THEN t3 ELSE RemoveColor(t3, from, child)

\* old with two children is replaced by the next element.
RemoveBetween(tree, old) ==
    LET e     == Outermost(tree, tree.kid[Right][old], Left)
        child == tree.kid[Right][e]
        t1    == Unlink(tree, e, child)
        from  == IF tree.parent[e] = old THEN e ELSE tree.parent[e]
        t2    == Hang([t1 EXCEPT !.kid[Left][e] = t1.kid[Left][old], !.kid[Right][e] = t1.kid[Right][old],
                                 !.parent[e] = t1.parent[old], !.red[e] = t1.red[old]],
                      t1.parent[old], old, e)
        t3    == Adopt(Adopt(t2, t2.kid[Left][old], e), t2.kid[Right][old], e)
    IN  IF tree.red[e] THEN t3 ELSE RemoveColor(t3, from, child)

RbRemove(tree, e) ==
    LET l == tree.kid[Left][e]
        r == tree.kid[Right][e]
        child == IF l = Null THEN r ELSE l
        t1 == Unlink(tree, e, child)
    IN  IF l # Null /\ r # Null THEN RemoveBetween(tree, e)
        ELSE IF tree.red[e] THEN t1 ELSE RemoveColor(t1, tree.parent[e], child)

\* The way from x down to the place of e: its last element.
RECURSIVE Descend(_, _, _)
Descend(tree, x, e) ==
    IF Side(e, x) = 0 \/ tree.kid[Side(e, x)][x] = Null THEN x
    ELSE Descend(tree, tree.kid[Side(e, x)][x], e)

RbInsert(tree, e) ==
    IF tree.root = Null
    THEN InsertColor(Adopt([tree EXCEPT !.kid[Left][e] = Null, !.kid[Right][e] = Null,
                                        !.root = e, !.red[e] = TRUE], e, Null), e)
    ELSE LET p == Descend(tree, tree.root, e)
         IN  IF Side(e, p) = 0 THEN tree
             ELSE InsertColor([tree EXCEPT !.parent[e] = p, !.kid[Left][e] = Null, !.kid[Right][e] = Null,
                                           !.red[e] = TRUE, !.kid[Side(e, p)][p] = e], e)

RbFind(tree, e) ==
    IF tree.root = Null THEN Null
    ELSE LET p == Descend(tree, tree.root, e) IN IF Side(e, p) = 0 THEN p ELSE Null

\* res is the last element at which the search went left.
RECURSIVE Nearest(_, _, _, _)
Nearest(tree, x, e, res) ==
    IF x = Null THEN res
    ELSE IF Side(e, x) = 0 THEN x
    ELSE Nearest(tree, tree.kid[Side(e, x)][x], e, IF Side(e, x) = Left THEN x ELSE res)

RbNFind(tree, e) == Nearest(tree, tree.root, e, Null)

\* Mutant: the parent, whichever side e is on.
AscendOnce(tree, e, s) == tree.parent[e]

\* The first ancestor of which e is not on the side s.
RECURSIVE Ascend(_, _, _)
Ascend(tree, e, s) ==
    LET p == tree.parent[e]
    IN  IF p # Null /\ tree.kid[s][p] = e THEN Ascend(tree, p, s) ELSE p

\* RB_NEXT for s = Right, RB_PREV for s = Left.
Neighbour(tree, e, s) ==
    IF tree.kid[s][e] # Null THEN Outermost(tree, tree.kid[s][e], Other(s)) ELSE Ascend(tree, e, s)

RbNext(tree, e) == Neighbour(tree, e, Right)
RbPrev(tree, e) == Neighbour(tree, e, Left)

RbMinMax(tree, s) == IF tree.root = Null THEN Null ELSE Outermost(tree, tree.root, s)

----------------------------------------------------------------------------
(* Splay trees.                                                            *)

\* SPLAY_ROTATE_RIGHT for s = Left: c, on the side s of the root, becomes the root.
Turn(tree, c, s) ==
    [tree EXCEPT !.kid[s][tree.root] = tree.kid[Other(s)][c], !.kid[Other(s)][c] = tree.root, !.root = c]

\* SPLAY_LINKLEFT for s = Left: the root and what is beyond it go below last, the search goes on at s.
Link(tree, last, s) ==
    [tree EXCEPT !.kid[s][last] = tree.root, !.root = tree.kid[s][tree.root]]

\* last[Left] is __right: the smallest of the elements found too great, and so the other.
Assemble(tree, last) ==
    LET r == tree.root
        u == [tree EXCEPT !.kid[Right][last[Right]] = tree.kid[Left][r]]
        v == [u EXCEPT !.kid[Left][last[Left]] = u.kid[Right][r]]
        w == [v EXCEPT !.kid[Left][r] = v.kid[Right][Node]]
    IN  [w EXCEPT !.kid[Right][r] = w.kid[Left][Node], !.kid[Left][Node] = Null, !.kid[Right][Node] = Null]

\* toward[x] is the side on which to go on from x, or 0.
RECURSIVE SplayDown(_, _, _)
SplayDown(tree, toward, last) ==
    LET s  == toward[tree.root]
        c  == tree.kid[s][tree.root]
        u  == IF toward[c] = s THEN Turn(tree, c, s) ELSE tree
    IN  IF s = 0 THEN Assemble(tree, last)
        ELSE IF c = Null THEN Assemble(tree, last)
        ELSE IF toward[c] = s /\ u.kid[s][u.root] = Null THEN Assemble(u, last)
        ELSE SplayDown(Link(u, last[s], s), toward, [last EXCEPT ![s] = u.root])

Splay(tree, e) == SplayDown(tree, [x \in Entries |-> Side(e, x)], [s \in Sides |-> Node])

SplayMinMax(tree, s) ==
    IF tree.root = Null THEN tree ELSE SplayDown(tree, [x \in Entries |-> s], [i \in Sides |-> Node])

\* What SPLAY_FIND returns, the element SPLAY_INSERT returns and SPLAY_REMOVE takes out.
SplayFound(tree, e) ==
    IF tree.root = Null THEN Null
    ELSE LET r == Splay(tree, e).root IN IF Side(e, r) = 0 THEN r ELSE Null

\* The root and its subtree on the side s go below e on either side.
SplayInsert(tree, e) ==
    IF tree.root = Null
    THEN [tree EXCEPT !.kid[Left][e] = Null, !.kid[Right][e] = Null, !.root = e]
    ELSE LET u == Splay(tree, e)
             s == Side(e, u.root)
         IN  IF s = 0 THEN u
             ELSE [u EXCEPT !.kid[s][e] = u.kid[s][u.root], !.kid[Other(s)][e] = u.root,
                            !.kid[s][u.root] = Null, !.root = e]

\* Mutant: the subtree on the left is not splayed before it gets the right one.
SplayRemoveAtOnce(tree, e) ==
    LET u == Splay(tree, e)
        l == u.kid[Left][u.root]
        r == u.kid[Right][u.root]
    IN  IF Side(e, u.root) # 0 THEN u
        ELSE IF l = Null THEN [u EXCEPT !.root = r]
        ELSE [u EXCEPT !.root = l, !.kid[Right][l] = r]

SplayRemove(tree, e) ==
    LET u == Splay(tree, e)
        l == u.kid[Left][u.root]
        r == u.kid[Right][u.root]
        v == Splay([u EXCEPT !.root = l], e)
    IN  IF Side(e, u.root) # 0 THEN u
        ELSE IF l = Null THEN [u EXCEPT !.root = r]
        ELSE [v EXCEPT !.kid[Right][v.root] = r]

SplayNext(tree, e) ==
    IF tree.kid[Right][e] = Null THEN Null ELSE Outermost(tree, tree.kid[Right][e], Left)

----------------------------------------------------------------------------
Init ==
    /\ family \in {"RB", "SPLAY"}
    /\ t = [root   |-> Null,
            kid    |-> [s \in Sides |-> [e \in Entries \cup {Node} |-> IF e = Node THEN Null ELSE Stale]],
            parent |-> [e \in Entries |-> Stale],
            red    |-> [e \in Entries |-> FALSE]]
    /\ call = <<"init">>

Insert(e) ==
    /\ t' = IF family = "RB" THEN RbInsert(t, e) ELSE SplayInsert(t, e)
    /\ call' = <<"insert", e, IF family = "RB" THEN RbFind(t, e) ELSE SplayFound(t, e)>>
    /\ UNCHANGED family

\* RB_REMOVE is given an element of the tree.
Remove(e) ==
    /\ \/ family = "RB" /\ e \in Members /\ t' = Forget(RbRemove(t, e), e) /\ call' = <<"remove", e, e>>
       \/ /\ family = "SPLAY"
          /\ t' = IF t.root = Null THEN t
                  ELSE IF SplayFound(t, e) = Null THEN SplayRemove(t, e)
                  ELSE Forget(SplayRemove(t, e), SplayFound(t, e))
          /\ call' = <<"remove", e, IF SplayFound(t, e) = Null THEN Null ELSE e>>
    /\ UNCHANGED family

SplayFind(e) ==
    /\ family = "SPLAY"
    /\ t' = IF t.root = Null THEN t ELSE Splay(t, e)
    /\ call' = <<"find", e, SplayFound(t, e)>>
    /\ UNCHANGED family

SplayFindNext(e) ==
    /\ family = "SPLAY" /\ e \in Members
    /\ t' = Splay(t, e)
    /\ call' = <<"next", e, SplayNext(t', e)>>
    /\ UNCHANGED family

SplayFindMinMax(s) ==
    /\ family = "SPLAY"
    /\ t' = SplayMinMax(t, s)
    /\ call' = <<IF s = Left THEN "min" ELSE "max", Null, t'.root>>
    /\ UNCHANGED family

Next ==
    \/ \E e \in Entries : Insert(e) \/ Remove(e) \/ SplayFind(e) \/ SplayFindNext(e)
    \/ \E s \in Sides : SplayFindMinMax(s)

Spec == Init /\ [][Next]_vars

----------------------------------------------------------------------------
(* Properties.                                                             *)

\* The black elements on each way from x down, or -1 when they differ.
RECURSIVE BlackHeight(_)
BlackHeight(x) ==
    IF x = Null THEN 0
    ELSE LET l == BlackHeight(t.kid[Left][x])
             r == BlackHeight(t.kid[Right][x])
         IN  IF l = -1 \/ l # r THEN -1 ELSE IF t.red[x] THEN l ELSE l + 1

\* After every insertion and removal a red-black tree is one again: the root is black, a red
\* element has no red child, all ways down have the same number of black elements, and the
\* parents are right; no longest way is more than twice the shortest.
Balanced ==
    family = "RB" =>
        /\ ~Red(t, t.root) /\ BlackHeight(t.root) # -1
        /\ t.root # Null => t.parent[t.root] = Null
        /\ \A e \in Members, s \in Sides :
              LET c == t.kid[s][e]
              IN  c # Null => t.parent[c] = e /\ (t.red[e] => ~t.red[c])

\* Inserting, removing and searching do to the tree as a set of elements what they say.
AsSet == INSTANCE OrderedSet WITH Elms <- RbElms \cup SplayElms, members <- Members, op <- call
SetSpec == AsSet!Spec

\* In every red-black tree that the calls leave, RB_FIND, RB_NFIND, RB_NEXT, RB_PREV, RB_MIN
\* and RB_MAX return the element they are named for.
Lookups ==
    family = "RB" =>
        /\ \A e \in Entries : RbFind(t, e) = AsSet!Found(e) /\ RbNFind(t, e) = AsSet!AtLeast(e)
        /\ \A e \in Members : RbNext(t, e) = AsSet!After(e) /\ RbPrev(t, e) = AsSet!Before(e)
        /\ RbMinMax(t, Left) = AsSet!Least(Members) /\ RbMinMax(t, Right) = AsSet!Greatest(Members)

\* The elements in the tree are in order of their keys, no two alike; the others are in no
\* tree's hands.
TypeOK ==
    /\ family \in {"RB", "SPLAY"}
    /\ t.root \in Entries \cup {Null}
    /\ LET w == Below(t, t.root) IN \A i \in 1..Len(w) - 1 : Key[w[i]] < Key[w[i + 1]]
    /\ \A e \in Entries : e \in Members \/ (\A s \in Sides : t.kid[s][e] = Stale)
=============================================================================
