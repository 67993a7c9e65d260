---------------------------- MODULE ObjectStack ----------------------------
(***************************************************************************)
(* What an obstack (src/obstack.c, obstack.h) promises to its caller: a    *)
(* stack of objects, each a sequence of bytes, and one more that grows.    *)
(* Where they are in memory, and in which chunk, is not seen here.         *)
(***************************************************************************)
EXTENDS SequencesExt, Integers

CONSTANTS Bytes, MaxSize    \* the bytes, and a bound on the size of an object

VARIABLES objects, growing

vars == <<objects, growing>>

Contents == BoundedSeq(Bytes, MaxSize)

Init == objects = <<>> /\ growing = <<>>

Grow ==
    /\ growing' \in Contents /\ IsPrefix(growing, growing')
    /\ UNCHANGED objects

Shrink ==
    /\ growing' \in Prefixes(growing)
    /\ UNCHANGED objects

Finish ==
    /\ objects' = Append(objects, growing)
    /\ growing' = <<>>

\* An object is given back, and with it the later ones and the one that grows.
Free(i) ==
    /\ objects' = SubSeq(objects, 1, i - 1)
    /\ growing' = <<>>

Next == Grow \/ Shrink \/ Finish \/ \E i \in 1..Len(objects) : Free(i)

Spec == Init /\ [][Next]_vars
=============================================================================
