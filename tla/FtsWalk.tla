------------------------------ MODULE FtsWalk ------------------------------
(***************************************************************************)
(* What libfts promises of the walk of a tree that nobody changes: every   *)
(* entry is visited once, in the order of its directory; a directory is    *)
(* visited before and after its entries; one that is being walked already  *)
(* is visited like a file; the caller may have a directory skipped.        *)
(***************************************************************************)
EXTENDS Integers, Sequences

CONSTANT
    Dirs       \* the directories

VARIABLES
    listing,   \* per directory, and for the roots: the entries in it, in order
    path,      \* the directories being walked, the outermost first
    todo,      \* the entries still to be visited, of the roots and of each of them
    at,        \* the last visit: which entry, and when
    prune      \* the caller wants the directory just visited skipped

walkvars == <<listing, path, todo, at, prune>>

Nothing == "none"
Inner(list) == list[Len(list)]
Outer(list) == SubSeq(list, 1, Len(list) - 1)
At(ino, visit) == [ino |-> ino, visit |-> visit]

Init ==
    /\ path = <<>>
    /\ todo = <<listing[Nothing]>>
    /\ at = At(Nothing, "none")
    /\ prune = FALSE

Taken == Append(Outer(todo), Tail(Inner(todo)))

Open(ino) == \E k \in DOMAIN path : path[k] = ino

Enter ==
    /\ ~prune /\ Inner(todo) # <<>>
    /\ LET ino == Head(Inner(todo))
       IN  /\ ino \in Dirs /\ ~Open(ino)
           /\ path' = Append(path, ino)
           /\ todo' = Append(Taken, listing[ino])
           /\ at' = At(ino, "pre")
    /\ UNCHANGED <<listing, prune>>

Visit ==
    /\ ~prune /\ Inner(todo) # <<>>
    /\ LET ino == Head(Inner(todo))
       IN  /\ ino \notin Dirs \/ Open(ino)
           /\ at' = At(ino, "leaf")
    /\ todo' = Taken
    /\ UNCHANGED <<listing, path, prune>>

Leave ==
    /\ path # <<>>
    /\ prune \/ Inner(todo) = <<>>
    /\ at' = At(Inner(path), "post")
    /\ path' = Outer(path)
    /\ todo' = Outer(todo)
    /\ prune' = FALSE
    /\ UNCHANGED listing

Skip ==
    /\ at.visit = "pre" /\ ~prune
    /\ prune' = TRUE
    /\ UNCHANGED <<listing, path, todo, at>>

End ==
    /\ path = <<>> /\ todo = << <<>> >> /\ at.visit # "closed"
    /\ at' = At(Nothing, "end")
    /\ UNCHANGED <<listing, path, todo, prune>>

\* The caller may stop at any moment.
Close ==
    /\ path' = <<>> /\ todo' = << <<>> >>
    /\ at' = At(Nothing, "closed")
    /\ prune' = FALSE
    /\ UNCHANGED listing

Next == Enter \/ Visit \/ Leave \/ Skip \/ End \/ Close

Spec == Init /\ [][Next]_walkvars
=============================================================================
