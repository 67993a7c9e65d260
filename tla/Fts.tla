-------------------------------- MODULE Fts --------------------------------
(***************************************************************************)
(* The file tree walk of libfts (src/fts.c): fts_open, fts_read, fts_set,  *)
(* fts_children and fts_close on one stream, with the file system under    *)
(* it.  One action is one call of the interface; fts_stat, fts_build and   *)
(* the other helpers are operators from a state of the stream to the next. *)
(* Between two calls another process may rename an entry, and a system     *)
(* call or an allocation may fail.                                         *)
(*                                                                         *)
(* Abstractions: a path is a sequence of names; readdir and fts_compar     *)
(* give the order of the names, which are numbers; one device, so no       *)
(* FTS_XDEV; no FTS_NOSTAT, FTS_SEEDOT and FTS_WHITEOUT; path buffers are  *)
(* as long as needed; levels stay below SHRT_MAX; a fault strikes every    *)
(* system call of its kind in the call it is chosen for; nothing is        *)
(* renamed during a call; fstat of an open descriptor that succeeded once  *)
(* succeeds again.  That a fault strikes all calls means that no later     *)
(* entry clears the errno of one whose fstatat failed.                     *)
(***************************************************************************)
EXTENDS Integers, FiniteSets, SequencesExt

CONSTANTS
    Dirs, Links, Files,  \* the inodes: directories, symbolic links, others
    Target,        \* per link: the inode it leads to, or None
    MaxName,       \* the greatest name
    Top, Home,     \* the root directory and the one fts_open is called in
    Stdin,         \* the directory that descriptor 0 is open on, or None
    Roots,         \* the paths given to fts_open
    Walks,         \* what a program does with a stream, see IsWalk
    ListedInstrs,  \* the instructions it gives the entries of a list of
                   \* fts_children
    Faults,        \* pairs: in which call which system call may fail
    Renaming,      \* TRUE: other processes rename entries
    MaxMishaps     \* calls struck by a fault, and renames, at most

None == "none"
Names == 1..MaxName
Calls == {"open", "read", "children", "close"}
\* What may fail: malloc of a table entry, open, fstat and fdopendir,
\* fts_safe_changedir into a directory, readdir and malloc of an entry, fstatat, open("."), fchdir to fts_rfd, to fts_symfd and to
\* the directory fts_children was called in, fts_safe_changedir to "..".
Sites == {"alloc", "opendir", "fstat", "chdir", "readdir", "stat", "dot", "rfd",
          "symfd", "cwdfd", "dotdot"}
Infos == {"INIT", "D", "DC", "DNR", "DP", "ERR", "F", "NS", "NSOK", "SL", "SLNONE"}

\* trees: the file systems it walks, per directory from its names to inodes;
\* logical, nochdir, comfollow: the options of fts_open, FTS_PHYSICAL when it is
\* not FTS_LOGICAL; instrs: the instructions it gives fts_cur with fts_set, by
\* fts_info; children: the calls of fts_children it makes.
IsWalk(walk) ==
    /\ \A t \in walk.trees :
          /\ DOMAIN t = Dirs
          /\ \A d \in Dirs : DOMAIN t[d] \subseteq Names
    /\ {walk.logical, walk.nochdir, walk.comfollow} \subseteq BOOLEAN
    /\ walk.instrs \subseteq Infos \X {"again", "follow", "skip"}
    /\ walk.children \subseteq {"list", "names"}

\* The paths of the program: absolute or relative, and the names in them.
Paths == [abs : BOOLEAN, names : Seq(Names)]

ASSUME FtsAssumption ==
    /\ {Top, Home} \subseteq Dirs /\ Links \cap Dirs = {} /\ None \notin Dirs \cup Links
    /\ Target \in [Links -> Dirs \cup {None}]
    /\ \A walk \in Walks : IsWalk(walk)
    /\ MaxName \in Nat
    /\ Roots \in Seq(Paths) /\ Roots # <<>>
    /\ ListedInstrs \subseteq {"again", "follow", "skip"}
    /\ Faults \subseteq Calls \X Sites

\* The outcomes of a call: nothing fails, or one kind of system call does.
Strikes(call) == {"ok"} \cup {f \in Sites : <<call, f>> \in Faults}

VARIABLES
    tree,      \* the directories of the file system
    s,         \* the stream (FTS), and the working directory of the process
    asks,      \* what the program asks of the stream: instructions, children
    out,       \* what the last fts_read or fts_close returned
    mishaps    \* how many calls were struck by a fault and renames made

vars == <<tree, s, asks, out, mishaps>>

----------------------------------------------------------------------------
(* The file system.                                                        *)

Deref(i) == IF i \in Links THEN Target[i] ELSE i

Lookup(d, n) == IF d \in Dirs /\ n \in DOMAIN tree[d] THEN tree[d][n] ELSE None

Up(d) == IF d = Top THEN Top
         ELSE CHOOSE p \in Dirs : \E n \in DOMAIN tree[p] : tree[p][n] = d

Path(abs, names) == [abs |-> abs, names |-> names]

\* The inode a path leads to from the directory `from', links followed except
\* in the last component.
Resolve(from, path) ==
    FoldLeft(LAMBDA i, n : Lookup(Deref(i), n), IF path.abs THEN Top ELSE from, path.names)

\* The directory d is i or lies below it.
Below(d, i) ==
    LET above[k \in 0..Cardinality(Dirs)] == IF k = 0 THEN d ELSE Up(above[k - 1])
    IN  \E k \in DOMAIN above : above[k] = i

----------------------------------------------------------------------------
(* Entries (FTSENT) and the stream.                                        *)

NoCycle  == -1
Dangling == -2

\* The access path of an entry is a path of its own, or the path buffer.
Buffer == Path(FALSE, <<>>)

Entry(name, len, acc) ==
    [name |-> name, len |-> len, acc |-> acc, info |-> "INIT", ino |-> None,
     stat |-> None, instr |-> "none", dont |-> FALSE, sym |-> "none",
     symdir |-> None, err |-> FALSE, cycle |-> NoCycle]

\* The entry fts_cur and those above it: frames[k].ent is at level k - 1, and
\* frames[k].rest are the entries after it in the list of its parent.  When
\* fts_cur is NULL there are no frames.
Cur(w) == Last(w.frames).ent
Rest(w) == Last(w.frames).rest
Level(w) == Len(w.frames) - 1
SetCur(w, e) == [w EXCEPT !.frames[Len(w.frames)].ent = e]
Failed(e, info) == [e EXCEPT !.info = info, !.err = TRUE]

AccPath(w, e) == IF e.acc = Buffer THEN w.path ELSE e.acc

\* Losing the last reference to an open descriptor.
Drop(w, e) == [w EXCEPT !.lost = @ + (IF e.sym = "open" THEN 1 ELSE 0)]

----------------------------------------------------------------------------
(* fts_stat: entry e, found to be inode i (None: the call failed), below   *)
(* the first k frames.                                                     *)

\* Mutant: one level too deep.
EntryBelow(w, t, k) ==
    LET above == {j \in 1..k : w.frames[j].ent.ino = t}
    IN  IF above # {} THEN Max(above) ELSE NoCycle

\* The level of the entry that is walking the directory t already: one of the
\* first k frames, or else one in the table.
EntryFor(w, t, k) ==
    LET above == {j \in 1..k : w.frames[j].ent.ino = t}
    IN  CASE above # {} -> Max(above) - 1
          [] above = {} /\ t \in DOMAIN w.cycles -> w.cycles[t]
          [] OTHER -> NoCycle

Stat(w, e, follow, i, k) ==
    LET t == IF w.logical \/ follow THEN Deref(i) ELSE i
        found == EntryFor(w, t, k)
        seen  == [e EXCEPT !.stat = t]
    IN  CASE i = None    -> [Failed(e, "NS") EXCEPT !.stat = None]
          [] i # None /\ t = None -> [e EXCEPT !.info = "SLNONE", !.stat = i]
          [] t \in Links -> [seen EXCEPT !.info = "SL"]
          [] t \in Dirs /\ found = NoCycle -> [seen EXCEPT !.info = "D", !.ino = t]
          [] t \in Dirs /\ found # NoCycle ->
                [seen EXCEPT !.info = "DC", !.ino = t, !.cycle = found]
          [] OTHER       -> [seen EXCEPT !.info = "F"]

\* fts_stat of fts_cur by its access path.
StatCur(w, follow, f) ==
    LET e == Cur(w)
        i == IF f = "stat" THEN None ELSE Resolve(w.cwd, AccPath(w, e))
    IN  SetCur(w, Stat(w, e, follow, i, Level(w)))

\* FTS_FOLLOW: a followed directory keeps a descriptor to come back by.
FollowCur(w, f) ==
    LET r == StatCur(w, TRUE, f)
        e == Cur(r)
    IN  IF e.info # "D" \/ w.nochdir THEN r
        ELSE IF f = "dot" THEN SetCur(r, Failed(e, "ERR"))
        ELSE SetCur(Drop(r, e), [e EXCEPT !.sym = "open", !.symdir = w.cwd])

\* close(fts_symfd): the flag FTS_SYMFOLLOW stays set.
CloseSym(w) ==
    IF Cur(w).sym = "none" THEN w
    ELSE SetCur([w EXCEPT !.twice = @ \/ Cur(w).sym = "closed"],
                [Cur(w) EXCEPT !.sym = "closed"])

----------------------------------------------------------------------------
(* The table of the directories being walked, by inode.                    *)

PushFails(w, f) == f = "alloc" /\ Cur(w).ino \notin DOMAIN w.cycles

CyclePush(w) ==
    [w EXCEPT !.cycles = [i \in DOMAIN @ \cup {Cur(w).ino} |->
                             IF i \in DOMAIN @ THEN @[i] ELSE Level(w)]]

\* Mutant: only a directory that was not descended into is taken out.
IsDirectoryPre(e) == e.info = "D"

IsDirectory(e) == e.info \in {"D", "DC", "DNR", "DP", "ERR"}

CyclePop(w, entries) ==
    LET gone == {e.ino : e \in {x \in entries : IsDirectory(x)}}
    IN  [w EXCEPT !.cycles = [i \in DOMAIN @ \ gone |-> @[i]]]

\* fts_cycle_pop and free of fts_cur: what still points to it dangles.
Free(w) ==
    LET r == Drop(CyclePop(w, {Cur(w)}), Cur(w))
    IN  [r EXCEPT !.cycles = [i \in DOMAIN @ |-> IF @[i] = Level(w) THEN Dangling ELSE @[i]],
                  !.child.state = IF @ = "live" THEN "orphan" ELSE @]

NoChild == [state |-> "none", list |-> <<>>]

\* fts_lfree(fts_child): the pointer keeps its value.
FreeChild(w) ==
    IF w.child.state = "none" THEN w
    ELSE [w EXCEPT !.ub = @ \/ w.child.state = "freed",
                   !.child = [state |-> "freed", list |-> <<>>]]

----------------------------------------------------------------------------
(* fts_safe_changedir to the directory d, which must be the one of entry p. *)

\* Mutant: the directory is not compared with the one expected.
ChangeDirUnchecked(w, p, d, fails) ==
    IF w.nochdir THEN [ok |-> TRUE, cwd |-> w.cwd]
    ELSE IF fails \/ d \notin Dirs THEN [ok |-> FALSE, cwd |-> w.cwd]
    ELSE [ok |-> TRUE, cwd |-> d]

\* Mutant: FTS_NOCHDIR is forgotten.
ChangeDirAlways(w, p, d, fails) ==
    IF fails \/ d # p.ino THEN [ok |-> FALSE, cwd |-> w.cwd]
    ELSE [ok |-> TRUE, cwd |-> d]

ChangeDir(w, p, d, fails) ==
    IF w.nochdir THEN [ok |-> TRUE, cwd |-> w.cwd]
    ELSE IF fails \/ d # p.ino THEN [ok |-> FALSE, cwd |-> w.cwd]
    ELSE [ok |-> TRUE, cwd |-> d]

\* The names of a directory in the order of the walk: the j-th is the one with
\* j names up to it.
Order(d) ==
    LET names == DOMAIN tree[d]
    IN  [j \in 1..Cardinality(names) |->
            CHOOSE n \in names : Cardinality({m \in names : m <= n}) = j]

\* The path of the entry e, at the front of the path buffer, then more names.
PathOf(w, e, names) == Path(w.path.abs, SubSeq(w.path.names, 1, e.len) \o names)

\* fts_build: the list of the entries of fts_cur, for fts_read ("read") or for
\* fts_children ("list", "names"); an empty list is NULL.  d is the directory
\* that the access path opens.
Opened(w) ==
    LET i == Resolve(w.cwd, AccPath(w, Cur(w)))
    IN  IF w.logical THEN Deref(i) ELSE i

BuildEntry(w, d, type, entered, n) ==
    LET cur == Cur(w)
        own == IF w.nochdir THEN Buffer ELSE Path(FALSE, <<n>>)
        e   == Entry(n, cur.len + 1, own)
    IN  CASE ~entered -> [Failed(e, "NS") EXCEPT !.acc = cur.acc]
          [] entered /\ type = "names" -> [e EXCEPT !.info = "NSOK"]
          [] OTHER -> Stat(w, e, FALSE, Lookup(d, n), Len(w.frames))

\* readdir fails, or fstatat of an entry does: that leaves errno set, and the
\* test after the last entry takes it for a failure of readdir.
ListingFails(type, names, f) ==
    f = "readdir" \/ (f = "stat" /\ type # "names" /\ names # <<>>)

\* Back from the directory that fts_children has listed; at a root without a
\* look at FTS_NOCHDIR.
BuildReturn(w, r, f) ==
    LET up == ChangeDir(r, w.frames[Level(w)].ent, Up(r.cwd), f = "dotdot")
        ok == f # "rfd" /\ w.rfd # None
    IN  IF Level(w) > 0 THEN up ELSE [ok |-> ok, cwd |-> IF ok THEN w.rfd ELSE r.cwd]

Build(w, type, f) ==
    LET cur   == Cur(w)
        d     == Opened(w)
        down  == IF type = "names" THEN [ok |-> TRUE, cwd |-> w.cwd]
                 ELSE ChangeDir(w, cur, d, f = "chdir")
        names == Order(d)
        stats == w.nochdir /\ type # "names" /\ names # <<>> /\ f # "readdir"
        in    == [SetCur(w, [cur EXCEPT !.dont = @ \/ ~down.ok])
                     EXCEPT !.cwd = down.cwd,
                            !.path = IF ~w.nochdir THEN @
                                     ELSE PathOf(w, cur, IF stats THEN <<Last(names)>> ELSE <<>>)]
        list  == [j \in DOMAIN names |-> BuildEntry(in, d, type, down.ok, names[j])]
        back  == BuildReturn(w, in, f)
        Null(r) == [w |-> r, list |-> <<>>]
    IN  IF f = "opendir" \/ d \notin Dirs
        THEN Null(SetCur(w, Failed(cur, IF type = "read" THEN "DNR" ELSE "ERR")))
        ELSE IF f = "fstat" \/ d # cur.ino THEN Null(SetCur(w, Failed(cur, "ERR")))
        ELSE IF ListingFails(type, names, f)
        THEN Null([SetCur(in, [Cur(in) EXCEPT !.info = "ERR"]) EXCEPT !.stop = TRUE])
        ELSE IF names = <<>>
        THEN Null(IF type = "read" THEN SetCur(in, [Cur(in) EXCEPT !.info = "DP"]) ELSE in)
        ELSE IF ~(type = "list" /\ down.ok) THEN [w |-> in, list |-> list]
        ELSE IF back.ok THEN [w |-> [in EXCEPT !.cwd = back.cwd], list |-> list]
        ELSE Null([SetCur(in, [Cur(in) EXCEPT !.info = "ERR"]) EXCEPT !.stop = TRUE])

----------------------------------------------------------------------------
(* fts_open.                                                               *)

RootEntry(w, path, f) ==
    LET e == Entry(0, Len(path.names), path)
    IN  Stat(w, e, w.comfollow, IF f = "stat" THEN None ELSE Resolve(Home, path), 0)

\* fts_rfd: the directory to come back to; without open(".") it stays 0, the
\* descriptor of the standard input.
RootFd(walk, f) ==
    IF walk.logical \/ walk.nochdir THEN Stdin ELSE IF f = "dot" THEN None ELSE Home

Stream(walk, f) ==
    LET w == [frames |-> <<>>, child |-> NoChild, path |-> Buffer, cycles |-> <<>>,
              logical |-> walk.logical, comfollow |-> walk.comfollow,
              nochdir |-> walk.logical \/ walk.nochdir \/ f = "dot",
              rfd |-> RootFd(walk, f), stop |-> FALSE, nameonly |-> FALSE, cwd |-> Home,
              lost |-> 0, twice |-> FALSE, ub |-> FALSE, closed |-> FALSE]
    IN  [w EXCEPT !.frames =
            <<[ent |-> Entry(0, 0, Buffer), rest |-> [k \in DOMAIN Roots |-> RootEntry(w, Roots[k], f)]]>>]

Init ==
    /\ \E walk \in Walks, f \in Strikes("open") \cap {"ok", "stat", "dot"} :
          /\ tree \in walk.trees
          /\ s = Stream(walk, f)
          /\ asks = [instrs |-> walk.instrs, children |-> walk.children]
          /\ mishaps = IF f = "ok" THEN 0 ELSE 1
    /\ out = "opened"
    /\ mishaps <= MaxMishaps

\* The caller may call: the stream is open and has not run into undefined
\* behaviour.
Usable == ~s.closed /\ ~s.ub
Walking == Usable /\ s.frames # <<>> /\ ~s.stop

\* The call is struck by the fault f, or by none.
Struck(f) == /\ f # "ok" => mishaps < MaxMishaps
             /\ mishaps' = IF f = "ok" THEN mishaps ELSE mishaps + 1

Returns(result, w) == s' = w /\ out' = result /\ UNCHANGED <<tree, asks>>

----------------------------------------------------------------------------
(* fts_read, by the instruction and the kind of fts_cur.                   *)

Noinstr(w) == SetCur(w, [Cur(w) EXCEPT !.instr = "none"])

IsLink(e) == e.info \in {"SL", "SLNONE"}

\* The next call of fts_read descends into fts_cur.
Descends(e) == e.info = "D" /\ e.instr \notin {"again", "skip"}

ReadEnd ==
    /\ Usable
    /\ s.frames = <<>> \/ s.stop
    /\ Returns("null", s)
    /\ UNCHANGED mishaps

ReadAgain(f) ==
    /\ Walking /\ Cur(s).instr = "again"
    /\ f \in {"ok", "stat"}
    /\ Returns("entry", StatCur(Noinstr(s), FALSE, f))
    /\ Struck(f)

ReadFollow(f) ==
    /\ Walking /\ Cur(s).instr = "follow" /\ IsLink(Cur(s))
    /\ f \in {"ok", "stat", "dot"}
    /\ Returns("entry", FollowCur(Noinstr(s), f))
    /\ Struck(f)

\* Mutant: fts_child keeps pointing to the list.
DropListDangling(w) == FreeChild(w)

DropList(w) == [FreeChild(w) EXCEPT !.child = NoChild]

ReadSkip ==
    /\ Walking /\ Cur(s).instr = "skip" /\ Cur(s).info = "D"
    /\ LET w == CyclePop(DropList(CloseSym(Noinstr(s))), {Cur(s)})
       IN  Returns("entry", SetCur(w, [Cur(w) EXCEPT !.info = "DP"]))
    /\ UNCHANGED mishaps

ReadPushFails(f) ==
    /\ Walking /\ Descends(Cur(s)) /\ PushFails(s, f)
    /\ Returns("entry", SetCur([s EXCEPT !.stop = TRUE], Failed(Cur(Noinstr(s)), "ERR")))
    /\ Struck(f)

\* Mutant: a list of names only is used as it is.
DropNamesNever(w) == w

\* A list of names only is read again with everything.
DropNames(w) ==
    IF w.child.state # "none" /\ w.nameonly
    THEN [DropList(w) EXCEPT !.nameonly = FALSE]
    ELSE w

\* Mutant: the buffer keeps the path of the entry before.
NamedNot(w) == w

\* name: the path of fts_cur in the buffer.
Named(w) == [w EXCEPT !.path = PathOf(w, w.frames[Level(w)].ent, <<Cur(w).name>>)]

Enter(w, list) ==
    Named([w EXCEPT !.frames = Append(@, [ent |-> Head(list), rest |-> Tail(list)]),
                    !.child = NoChild])

ReadBuild(f) ==
    LET w == DropNames(CyclePush(Noinstr(s)))
        b == Build(w, "read", f)
    IN  /\ Walking /\ Descends(Cur(s)) /\ w.child.state = "none"
        /\ f \in {"ok", "opendir", "fstat", "chdir", "readdir", "stat"}
        /\ CASE b.list # <<>> -> Returns("entry", Enter(b.w, b.list))
             [] b.list = <<>> /\ b.w.stop -> Returns("null", b.w)
             [] OTHER         -> Returns("entry", b.w)
        /\ Struck(f)

\* fts_children has made the list already.  One that is freed, or whose parent
\* is, must not be used.
ReadListed(f) ==
    LET w == DropNames(CyclePush(Noinstr(s)))
        d == Resolve(w.cwd, AccPath(w, Cur(w)))
        down == ChangeDir(w, Cur(w), d, f = "chdir")
        list == IF down.ok THEN w.child.list
                ELSE [j \in DOMAIN w.child.list |-> [w.child.list[j] EXCEPT !.acc = Cur(w).acc]]
        into == IF down.ok THEN [w EXCEPT !.cwd = down.cwd]
                ELSE SetCur(w, [Cur(w) EXCEPT !.dont = TRUE, !.err = TRUE])
    IN  /\ Walking /\ Descends(Cur(s)) /\ w.child.state # "none"
        /\ f \in {"ok", "chdir"}
        /\ IF w.child.state = "live" THEN Returns("entry", Enter(into, list))
           ELSE Returns("entry", [w EXCEPT !.ub = TRUE])
        /\ Struck(f)

\* next: fts_cur is done with.
Moves == Walking /\ LET e == Cur(s) IN
    /\ e.instr # "again"
    /\ ~(e.instr = "follow" /\ IsLink(e))
    /\ e.info # "D"

\* fts_load: the path of a root is the one given to fts_open.
Load(w) == SetCur([w EXCEPT !.path = Cur(w).acc], [Cur(w) EXCEPT !.acc = Buffer])

ReadRoot(f) ==
    LET w == [Free(s) EXCEPT !.frames = <<[ent |-> Head(Rest(s)), rest |-> Tail(Rest(s))]>>]
    IN  /\ Moves /\ Level(s) = 0 /\ Rest(s) # <<>>
        /\ f \in {"ok", "rfd"}
        /\ IF f = "rfd" /\ ~s.nochdir THEN Returns("null", [w EXCEPT !.stop = TRUE])
           ELSE Returns("entry", Load([w EXCEPT !.cwd = IF s.nochdir THEN @ ELSE s.rfd]))
        /\ Struck(f)

ReadDone ==
    /\ Moves /\ Level(s) = 0 /\ Rest(s) = <<>>
    /\ Returns("null", [Free(s) EXCEPT !.frames = <<>>])
    /\ UNCHANGED mishaps

\* The entries after fts_cur, from the first the caller does not want skipped.
NotSkipped(list) == SelectInSeq(list, LAMBDA e : e.instr # "skip")

\* fts_cur and the entries skipped after it are freed.
FreeUpTo(w, list) == CyclePop(Free(w), Range(list))

ReadSibling(f) ==
    LET k    == NotSkipped(Rest(s))
        w    == FreeUpTo(s, SubSeq(Rest(s), 1, k - 1))
        next == [w EXCEPT !.frames[Len(s.frames)] =
                    [ent |-> Rest(s)[k], rest |-> SubSeq(Rest(s), k + 1, Len(Rest(s)))]]
    IN  /\ Moves /\ Level(s) > 0 /\ k > 0
        /\ f \in {"ok", "stat", "dot"}
        /\ Returns("entry", Named(IF Cur(next).instr = "follow"
                                  THEN Noinstr(FollowCur(next, f)) ELSE next))
        /\ Struck(f)

\* Mutant: the directory is not marked as read.
PostOrderForgotten(e) == e

PostOrder(e) == [e EXCEPT !.info = IF e.err THEN "ERR" ELSE "DP"]

\* Mutant: the walk stays in the directory it has read.
BackNot(w, f) == [ok |-> TRUE, cwd |-> w.cwd]

\* From the last entry of a directory back to the directory, now fts_cur.
Back(w, f) ==
    LET up == ChangeDir(w, w.frames[Level(w)].ent, Up(w.cwd), f = "dotdot")
        Fchdir(fails, d) == [ok |-> ~fails, cwd |-> IF fails THEN w.cwd ELSE d]
    IN  CASE w.nochdir -> [ok |-> TRUE, cwd |-> w.cwd]
          [] ~w.nochdir /\ Level(w) = 0 -> Fchdir(f = "rfd", w.rfd)
          [] ~w.nochdir /\ Level(w) > 0 /\ Cur(w).sym # "none" ->
                Fchdir(f = "symfd" \/ Cur(w).sym = "closed", Cur(w).symdir)
          [] OTHER -> IF Cur(w).dont THEN [ok |-> TRUE, cwd |-> w.cwd] ELSE up

ReadUp(f) ==
    LET freed == FreeUpTo(s, Rest(s))
        w    == [freed EXCEPT !.frames = Front(@), !.path = PathOf(s, Last(Front(s.frames)).ent, <<>>)]
        back == Back(w, f)
        left == IF Level(w) = 0 THEN w ELSE CloseSym(w)
    IN  /\ Moves /\ Level(s) > 0 /\ NotSkipped(Rest(s)) = 0
        /\ f \in {"ok", "rfd", "symfd", "dotdot"}
        /\ IF back.ok
           THEN Returns("entry", [SetCur(left, PostOrder(Cur(left))) EXCEPT !.cwd = back.cwd])
           ELSE Returns("null", [left EXCEPT !.stop = TRUE])
        /\ Struck(f)

Read(f) ==
    \/ ReadAgain(f) \/ ReadFollow(f) \/ ReadPushFails(f)
    \/ ReadBuild(f) \/ ReadListed(f)
    \/ ReadRoot(f) \/ ReadSibling(f) \/ ReadUp(f)

\* The calls of fts_read that no fault strikes.
ReadPlain == ReadEnd \/ ReadSkip \/ ReadDone

----------------------------------------------------------------------------
(* fts_set, on fts_cur or on an entry listed by fts_children.              *)

Set(instr) ==
    /\ Walking /\ <<Cur(s).info, instr>> \in asks.instrs /\ Cur(s).instr # instr
    /\ s' = SetCur(s, [Cur(s) EXCEPT !.instr = instr])
    /\ UNCHANGED <<tree, asks, out, mishaps>>

SetListed(j, instr) ==
    /\ Walking /\ s.child.state = "live" /\ s.child.list[j].instr # instr
    /\ s' = [s EXCEPT !.child.list[j].instr = instr]
    /\ UNCHANGED <<tree, asks, out, mishaps>>

\* Before the first fts_read, fts_children lists the roots.
SetRoot(j, instr) ==
    /\ Walking /\ Cur(s).info = "INIT" /\ Rest(s)[j].instr # instr
    /\ s' = [s EXCEPT !.frames[1].rest[j].instr = instr]
    /\ UNCHANGED <<tree, asks, out, mishaps>>

----------------------------------------------------------------------------
(* fts_children of a directory in preorder.                                *)

Children(type, f) ==
    LET freed == FreeChild(s)
        w     == [freed EXCEPT !.nameonly = @ \/ type = "names"]
        saves == Level(s) = 0 /\ ~AccPath(s, Cur(s)).abs /\ ~s.nochdir
        b     == Build(CyclePush(w), type, f)
        live  == [b.w EXCEPT !.child = IF b.list = <<>> THEN NoChild
                                       ELSE [state |-> "live", list |-> b.list]]
    IN  /\ Walking /\ Cur(s).info = "D"
        /\ f \notin {"symfd"}
        /\ s' = IF PushFails(s, f) THEN w
                ELSE IF ~saves \/ f = "cwdfd" THEN live
                ELSE IF f = "dot" THEN CyclePush(w)
                ELSE [live EXCEPT !.cwd = s.cwd]
        /\ UNCHANGED <<tree, asks, out>>
        /\ Struck(f)

----------------------------------------------------------------------------
(* fts_close.                                                              *)

\* Mutant: the working directory is not restored.
CwdAtCloseLeft(f) == s.cwd

CwdAtClose(f) == IF s.nochdir \/ f = "rfd" THEN s.cwd ELSE s.rfd

Close(f) ==
    LET w == IF s.frames = <<>> THEN s ELSE CloseSym(s)
        open == {k \in DOMAIN w.frames : w.frames[k].ent.sym = "open"}
    IN  /\ Usable
        /\ f \in {"ok", "rfd"}
        /\ s' = [w EXCEPT !.frames = <<>>, !.child = NoChild, !.cycles = <<>>, !.closed = TRUE,
                          !.lost = @ + Cardinality(open),
                          !.ub = @ \/ w.child.state = "freed",
                          !.cwd = CwdAtClose(f)]
        /\ out' = IF f = "rfd" /\ ~s.nochdir THEN "failed" ELSE "closed"
        /\ UNCHANGED <<tree, asks>>
        /\ Struck(f)

----------------------------------------------------------------------------
(* Another process: rename(2) of an entry to a free name.                  *)

Rename(d, n, e, m) ==
    /\ ~s.closed /\ Renaming /\ mishaps < MaxMishaps
    /\ n \in DOMAIN tree[d] /\ m \notin DOMAIN tree[e]
    /\ tree[d][n] \notin {Top, Home}
    /\ tree[d][n] \in Dirs => ~Below(e, tree[d][n])
    /\ LET gone == [tree EXCEPT ![d] = [k \in DOMAIN @ \ {n} |-> @[k]]]
       IN  tree' = [gone EXCEPT ![e] = [k \in DOMAIN @ \cup {m} |->
                                           IF k = m THEN tree[d][n] ELSE @[k]]]
    /\ mishaps' = mishaps + 1
    /\ UNCHANGED <<s, asks, out>>

----------------------------------------------------------------------------
Next ==
    \/ ReadPlain
    \/ \E f \in Strikes("read") : Read(f)
    \/ \E type \in asks.children, f \in Strikes("children") : Children(type, f)
    \/ \E f \in Strikes("close") : Close(f)
    \/ \E instr \in {"again", "follow", "skip"} : Set(instr)
    \/ \E instr \in ListedInstrs :
          \/ \E j \in DOMAIN s.child.list : SetListed(j, instr)
          \/ \E j \in DOMAIN Roots : SetRoot(j, instr)
    \/ \E d, e \in Dirs, n, m \in Names : Rename(d, n, e, m)

Spec == Init /\ [][Next]_vars

----------------------------------------------------------------------------
(* Properties.                                                             *)

Inodes == Dirs \cup Links \cup Files
Entries ==
    [name : Names \cup {0}, len : Nat, acc : Paths, info : Infos,
     ino : Dirs \cup {None}, stat : Inodes \cup {None},
     instr : {"none", "again", "follow", "skip"}, dont : BOOLEAN,
     sym : {"none", "open", "closed"}, symdir : Dirs \cup {None}, err : BOOLEAN,
     cycle : Int]

TypeOK ==
    /\ DOMAIN tree = Dirs
    /\ s.frames \in Seq([ent : Entries, rest : Seq(Entries)])
    /\ s.child \in [state : {"none", "live", "orphan", "freed"}, list : Seq(Entries)]
    /\ s.path \in Paths
    /\ \A i \in DOMAIN s.cycles : i \in Dirs /\ s.cycles[i] \in Nat \cup {Dangling}
    /\ s.cwd \in Dirs /\ s.rfd \in Dirs \cup {None} /\ s.lost \in Nat
    /\ {s.logical, s.comfollow, s.nochdir, s.stop, s.nameonly, s.twice, s.ub, s.closed} \subseteq BOOLEAN
    /\ out \in {"opened", "entry", "null", "closed", "failed"}
    /\ mishaps \in 0..MaxMishaps

\* The entry that fts_read returned last, if it could be examined.
Returned == out = "entry" /\ Walking
Examined(e) == e.info \in {"D", "DC", "DP", "F", "SL", "SLNONE"}

\* The access path of the returned entry, used from the working directory of
\* the process, leads to the object that fts_statp describes: fts_accpath and
\* the working directory are kept in step by four routines.  And the state is
\* well typed.
AccessPathResolves ==
    /\ TypeOK
    /\ Returned /\ Examined(Cur(s)) =>
           LET i == Resolve(s.cwd, AccPath(s, Cur(s))) IN Cur(s).stat \in {i, Deref(i)}

\* The working directory follows the walk: with a returned entry below a root,
\* it is the directory the entry was found in, unless fts_read could not enter
\* that directory (FTS_DONTCHDIR).  It holds whatever has been renamed, and after
\* every failure but one, a directory that fts_children cannot enter in order to
\* list it: the flag then stays set, and once fts_read has entered that directory
\* the walk does not leave it.
CwdFollowsWalk ==
    Returned /\ ~s.nochdir /\ Level(s) > 0 =>
        LET up == s.frames[Level(s)].ent IN up.dont \/ s.cwd = up.ino

\* The working directory of the process is left alone under FTS_NOCHDIR, and
\* an fts_close that reports success has restored it, wherever the walk was.
CwdKept == s.nochdir \/ out = "closed" => s.cwd = Home

\* fts_cycle of an FTS_DC entry is a live entry for the same directory, at a
\* lower level: for fts_cur, for the entries waiting and for a list.  And the
\* walk is never in a directory twice, however it was moved or linked into
\* itself.
CycleOf(e, k) ==
    e.info = "DC" => e.cycle \in 0..(k - 1) /\ s.frames[e.cycle + 1].ent.ino = e.ino

CycleIsAncestor ==
    Walking =>
        /\ \A k \in DOMAIN s.frames :
              \A e \in {s.frames[k].ent} \cup Range(s.frames[k].rest) : CycleOf(e, k - 1)
        /\ s.child.state = "live" =>
              \A e \in Range(s.child.list) : CycleOf(e, Level(s) + 1)
        /\ \A j, k \in 1..Len(s.frames) - 1 :
              s.frames[j].ent.ino = s.frames[k].ent.ino => j = k

\* The table of directories speaks of entries that exist and still are the
\* directory they were entered for.
CycleTableLive ==
    \A i \in DOMAIN s.cycles :
        /\ s.cycles[i] \in 0..Level(s)
        /\ s.frames[s.cycles[i] + 1].ent.ino = i

\* No list of children is used, or freed, after it or its parent was freed.
NoStaleList == ~s.ub

\* When the stream is closed every descriptor has been closed, once.
DescriptorsBalanced == s.closed => s.lost = 0 /\ ~s.twice

\* A directory that nothing is wrong with is read: without a fault or a rename
\* none is returned FTS_DNR or FTS_ERR.
SoundDirectoryRead ==
    Returned /\ mishaps = 0 => Cur(s).info \notin {"DNR", "ERR"}

\* A caller that goes on reading, and does not go on asking for the same entry
\* again, comes to the end: however the directories are linked to each other,
\* fts_read does not return entries for ever.
WalkEnds ==
    \/ <>[][~\E f \in Strikes("read") : ReadPlain \/ Read(f)]_vars
    \/ []<><<Set("again")>>_vars

----------------------------------------------------------------------------
(* A walk of a tree that nobody changes implements FtsWalk: each frame     *)
(* stands for the entries still to be visited, and a directory in preorder *)
(* is entered although its list is only read by the next call.             *)

Sees(i, follow) == IF follow /\ Deref(i) # None THEN Deref(i) ELSE i

Waiting(w) == [k \in DOMAIN w.frames |-> [j \in DOMAIN w.frames[k].rest |->
                                             w.frames[k].rest[j].stat]]

WalkDirs == [k \in 1..Level(s) |-> s.frames[k].ent.ino]

Ended == s.frames = <<>>

SeenIn(d) ==
    IF d = None
    THEN [k \in DOMAIN Roots |-> Sees(Resolve(Home, Roots[k]), s.logical \/ s.comfollow)]
    ELSE [k \in DOMAIN Order(d) |-> Sees(tree[d][Order(d)[k]], s.logical)]

Walk == INSTANCE FtsWalk WITH
    Dirs    <- Dirs,
    listing <- [d \in Dirs \cup {None} |-> SeenIn(d)],
    path    <- IF Ended THEN <<>>
               ELSE IF Cur(s).info = "D" THEN Append(WalkDirs, Cur(s).ino) ELSE WalkDirs,
    todo    <- IF Ended THEN << <<>> >>
               ELSE IF Cur(s).info = "D" THEN Append(Waiting(s), SeenIn(Cur(s).ino)) ELSE Waiting(s),
    prune   <- ~Ended /\ Cur(s).info = "D" /\ Cur(s).instr = "skip",
    at      <- CASE Ended -> [ino |-> None, visit |-> IF s.closed THEN "closed" ELSE "end"]
                 [] ~Ended /\ Cur(s).info = "INIT" -> [ino |-> None, visit |-> "none"]
                 [] OTHER -> [ino |-> Cur(s).stat,
                              visit |-> CASE Cur(s).info = "D"  -> "pre"
                                          [] Cur(s).info = "DP" -> "post"
                                          [] OTHER              -> "leaf"]
WalkSpec == Walk!Spec
=============================================================================
