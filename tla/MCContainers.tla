---------------------------- MODULE MCContainers ----------------------------
(* The lists of Queue and the trees of Tree: a behaviour uses one of them. *)
EXTENDS Queue

CONSTANTS RbElms, SplayElms, Node

VARIABLES which, family, t, call

\* Element 9 has the key of another one.
Key == [e \in 1..9 |-> IF e = 9 THEN 4 ELSE e]

T == INSTANCE Tree

EitherInit ==
    /\ Init /\ T!Init
    /\ \/ which = "list" /\ family = "RB"
       \/ which = "tree" /\ kind = "SLIST"

EitherNext ==
    \/ which = "list" /\ Next /\ UNCHANGED <<which, family, t, call>>
    \/ which = "tree" /\ T!Next /\ UNCHANGED <<which, vars>>

EitherSpec == EitherInit /\ [][EitherNext]_<<which, vars, family, t, call>>

Alike == Permutations(Elms) \cup Permutations(Heads)

\* The properties of the trees, stated in Tree.
Balanced == T!TypeOK /\ T!Balanced
Lookups == T!Lookups
SetSpec == T!SetSpec
=============================================================================
