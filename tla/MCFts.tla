------------------------------- MODULE MCFts -------------------------------
(* File trees, options and bounds for model-checking Fts.                  *)
EXTENDS Fts, TLC

\* Every tree of the directories a, c and d below the working directory, with
\* two entries at most in each:
\*   /1/      home, the working directory
\*   /1/1     a, the root or one of the roots
\*   /1/2     b, a directory with a file, at times another root
\* c and d lie anywhere below a; elsewhere there may be a file (with any number
\* of hard links) or a link to a.
McDirs   == {"top", "home", "a", "b", "c", "d"}
McTarget == [l \in {"up"} |-> "a"]
SideTarget == [l \in {"up"} |-> "b"]   \* in the runs that follow the link
Filler   == {"file", "up", "none"}

Fixed == [i \in {"top", "home", "b"} |->
    CASE i = "top" -> <<"home">> [] i = "home" -> <<"a", "b">> [] i = "b" -> <<"file">>]

\* The slots of a, c and d: two in each.
Slots == {"a", "c", "d"} \X {1, 2}

Listed(slots, d) == [n \in {m \in {1, 2} : slots[<<d, m>>] # "none"} |-> slots[<<d, n>>]]

Placed(c, d) ==
    {[x \in Slots |-> IF x = c THEN "c" ELSE IF x = d THEN "d" ELSE fill[x]] :
        fill \in [Slots \ {c, d} -> Filler]}

\* Neither directory lies in itself or in the other and the other in it.
Arrangements == {<<c, d>> \in Slots \X Slots :
    c # d /\ c[1] # "c" /\ d[1] # "d" /\ ~(c[1] = "d" /\ d[1] = "c")}

AllTrees ==
    UNION {{[i \in McDirs |-> IF i \in DOMAIN Fixed THEN Fixed[i] ELSE Listed(slots, i)] :
               slots \in Placed(at[1], at[2])} : at \in Arrangements}

\* No directory is empty.
FullTrees == {t \in AllTrees : \A d \in McDirs : DOMAIN t[d] # {}}

\* One of them, for the runs with faults and renames: no directory becomes
\* empty when one entry is moved away.
OneTree == {Fixed @@ [i \in {"a", "c", "d"} |-> CASE i = "a" -> <<"c", "up">>
                                          [] i = "c" -> <<"d", "file">>
                                          [] i = "d" -> <<"file", "file">>]}

\* Everything fails but entering a directory, and open("."), in fts_children:
\* what the walk does after these is not what it should.  The first is the fault
\* of the run that shows it.
DontChdir  == {<<"children", "chdir">>}
MostFaults == Calls \X Sites \ (DontChdir \cup {<<"children", "dot">>})

\* Instructions: a directory is skipped, a file or a link is read again, a link
\* is followed.
Skips    == {<<"D", "skip">>}
Rereads  == {"F", "SL"} \X {"again"}
Follows  == {"SL"} \X {"follow"}

Asking(trees, logical, nochdir, instrs, children) ==
    [trees |-> trees, logical |-> logical, nochdir |-> nochdir, comfollow |-> FALSE,
     instrs |-> instrs, children |-> children]

\* Walks that nothing disturbs.  In one that changes directory no directory is
\* empty: fts_build stays in one that is.
QuietWalks ==
    {Asking(AllTrees, TRUE, FALSE, Skips, {"names"}),
     Asking(AllTrees, FALSE, TRUE, Skips, {}),
     Asking(FullTrees, FALSE, FALSE, Skips \cup Rereads, {"list", "names"})}

HostileWalks == {Asking(OneTree, FALSE, FALSE, Skips \cup Follows, {"list", "names"})}
EmptyWalks   == {Asking(AllTrees, FALSE, FALSE, Skips, {})}
ListWalks    == {Asking(OneTree, FALSE, FALSE, {}, {"list"})}
FollowWalks  == {Asking(OneTree, FALSE, FALSE, Skips \cup Follows, {})}

RootA    == <<Path(FALSE, <<1>>)>>
RootsAB  == <<Path(FALSE, <<1>>), Path(TRUE, <<1, 2>>)>>
=============================================================================
