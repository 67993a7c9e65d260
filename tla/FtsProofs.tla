------------------------------ MODULE FtsProofs ------------------------------
(***************************************************************************)
(* Proofs about Fts: the working directory of the process is left alone    *)
(* under FTS_NOCHDIR and restored by fts_close, for every file system,     *)
(* whatever fails, is renamed or is asked of the stream.                   *)
(***************************************************************************)
EXTENDS Fts, TLAPS

Fields == {"frames", "child", "path", "cycles", "logical", "comfollow", "nochdir", "rfd",
           "stop", "nameonly", "cwd", "lost", "twice", "ub", "closed"}

(* The streams w that are like the stream v but for its entries, its list, *)
(* its path buffer, its table and its counters.                            *)
Like(v, w) ==
    /\ DOMAIN w = Fields
    /\ w.nochdir = v.nochdir /\ w.rfd = v.rfd /\ w.closed = v.closed

\* And in the same directory.
Stays(v, w) == Like(v, w) /\ w.cwd = v.cwd

(* A step from v to w that leaves the working directory alone under        *)
(* FTS_NOCHDIR.                                                            *)
Keeps(v, w) == Like(v, w) /\ (v.nochdir => w.cwd = v.cwd)

(* The inductive invariant.                                                *)
IndInv ==
    /\ DOMAIN s = Fields /\ s.nochdir \in BOOLEAN
    /\ s.nochdir => s.cwd = Home /\ s.rfd = None
    /\ ~s.nochdir => s.rfd = Home
    /\ out = "closed" => s.closed /\ s.cwd = Home

----------------------------------------------------------------------------
(* What the helpers do not change.                                         *)

LEMMA Transitive ==
    ASSUME NEW u, NEW v, NEW w
    PROVE  /\ Stays(u, v) /\ Stays(v, w) => Stays(u, w)
           /\ Keeps(u, v) /\ Keeps(v, w) => Keeps(u, w)
           /\ Stays(u, v) => Keeps(u, v)
  BY DEF Stays, Keeps, Like

\* Helpers that set one field each.
LEMMA HelpersStay ==
    ASSUME NEW w, DOMAIN w = Fields
    PROVE  /\ \A e : Stays(w, SetCur(w, e)) /\ Stays(w, Drop(w, e))
           /\ \A entries : Stays(w, CyclePop(w, entries))
           /\ Stays(w, CyclePush(w)) /\ Stays(w, FreeChild(w))
           /\ Stays(w, Named(w))
<1>1. \A e : Stays(w, SetCur(w, e))
  BY DEF SetCur, Stays, Like, Fields
<1>2. \A e : Stays(w, Drop(w, e))
  BY DEF Drop, Stays, Like, Fields
<1>3. \A entries : Stays(w, CyclePop(w, entries))
  BY DEF CyclePop, Stays, Like, Fields
<1>4. Stays(w, CyclePush(w))
  BY DEF CyclePush, Stays, Like, Fields
<1>5. Stays(w, FreeChild(w))
  BY DEF FreeChild, Stays, Like, Fields
<1>6. Stays(w, Named(w))
  BY DEF Named, Stays, Like, Fields
<1> QED
  BY <1>1, <1>2, <1>3, <1>4, <1>5, <1>6

LEMMA NoinstrStays == ASSUME NEW w, DOMAIN w = Fields PROVE Stays(w, Noinstr(w))
  BY HelpersStay DEF Noinstr

LEMMA StatCurStays ==
    ASSUME NEW w, DOMAIN w = Fields, NEW follow, NEW f PROVE Stays(w, StatCur(w, follow, f))
  BY HelpersStay DEF StatCur

LEMMA CloseSymStays == ASSUME NEW w, DOMAIN w = Fields PROVE Stays(w, CloseSym(w))
<1> DEFINE v == [w EXCEPT !.twice = @ \/ Cur(w).sym = "closed"]
<1>1. Stays(w, v) /\ Stays(w, w)
  BY DEF Stays, Like, Fields
<1>2. DOMAIN v = Fields
  BY <1>1 DEF Stays, Like
<1>3. \A e : Stays(v, SetCur(v, e))
  BY <1>2, HelpersStay
<1>4. CloseSym(w) = w \/ \E e : CloseSym(w) = SetCur(v, e)
  BY DEF CloseSym
<1> QED
  BY <1>1, <1>3, <1>4, Transitive

LEMMA FollowCurStays ==
    ASSUME NEW w, DOMAIN w = Fields, NEW f PROVE Stays(w, FollowCur(w, f))
<1> DEFINE r == StatCur(w, TRUE, f)
           d == Drop(r, Cur(r))
<1>1. Stays(w, r)
  BY StatCurStays
<1> HIDE DEF r
<1>2. DOMAIN r = Fields
  BY <1>1 DEF Stays, Like
<1>3. Stays(r, d)
  BY <1>2, HelpersStay
<1>4. FollowCur(w, f) = r \/ (\E e : FollowCur(w, f) = SetCur(r, e))
         \/ \E e : FollowCur(w, f) = SetCur(d, e)
  BY DEF FollowCur, r
<1> HIDE DEF d
<1>5. DOMAIN d = Fields
  BY <1>3 DEF Stays, Like
<1>6. (\A e : Stays(r, SetCur(r, e))) /\ \A e : Stays(d, SetCur(d, e))
  BY <1>2, <1>5, HelpersStay
<1> QED
  BY <1>1, <1>3, <1>4, <1>6, Transitive

LEMMA FreeStays == ASSUME NEW w, DOMAIN w = Fields PROVE Stays(w, Free(w))
<1> DEFINE q == CyclePop(w, {Cur(w)})
           r == Drop(q, Cur(w))
<1>1. Stays(w, q)
  BY HelpersStay
<1> HIDE DEF q
<1>2. DOMAIN q = Fields
  BY <1>1 DEF Stays, Like
<1>3. Stays(q, r)
  BY <1>2, HelpersStay
<1> HIDE DEF r
<1>4. DOMAIN r = Fields
  BY <1>3 DEF Stays, Like
<1>5. Free(w) = [r EXCEPT
          !.cycles = [i \in DOMAIN @ |-> IF @[i] = Level(w) THEN Dangling ELSE @[i]],
          !.child.state = IF @ = "live" THEN "orphan" ELSE @]
  BY DEF Free, r, q
<1>6. Stays(r, Free(w))
  BY <1>4, <1>5 DEF Stays, Like, Fields
<1> QED
  BY <1>1, <1>3, <1>6, Transitive

LEMMA FreeUpToStays ==
    ASSUME NEW w, DOMAIN w = Fields, NEW list PROVE Stays(w, FreeUpTo(w, list))
<1>1. Stays(w, Free(w))
  BY FreeStays
<1>2. DOMAIN Free(w) = Fields
  BY <1>1 DEF Stays, Like
<1>3. Stays(Free(w), FreeUpTo(w, list))
  BY <1>2, HelpersStay DEF FreeUpTo
<1> QED
  BY <1>1, <1>3, Transitive

LEMMA ListDropped ==
    ASSUME NEW w, DOMAIN w = Fields PROVE Stays(w, DropList(w)) /\ Stays(w, DropNames(w))
<1>1. Stays(w, FreeChild(w))
  BY HelpersStay
<1>2. Stays(w, DropList(w))
  BY <1>1 DEF DropList, Stays, Like, Fields
<1>3. CASE w.child.state # "none" /\ w.nameonly
  <2> HIDE DEF DropList
  <2>1. DropNames(w) = [DropList(w) EXCEPT !.nameonly = FALSE]
    BY <1>3 DEF DropNames
  <2> QED
    BY <1>2, <2>1 DEF Stays, Like, Fields
<1>4. CASE ~(w.child.state # "none" /\ w.nameonly)
  <2>1. DropNames(w) = w
    BY <1>4 DEF DropNames
  <2> QED
    BY <1>2, <2>1 DEF Stays, Like
<1> QED
  BY <1>3, <1>4

\* fts_cur becomes the first entry of a list, or another root.
LEMMA EntersAndLoads ==
    ASSUME NEW w, DOMAIN w = Fields PROVE (\A list : Stays(w, Enter(w, list))) /\ Stays(w, Load(w))
<1>1. ASSUME NEW list PROVE Stays(w, Enter(w, list))
  <2> DEFINE v == [w EXCEPT !.frames = Append(@, [ent |-> Head(list), rest |-> Tail(list)]),
                            !.child = NoChild]
  <2>1. Stays(w, v) /\ DOMAIN v = Fields
    BY DEF Stays, Like, Fields
  <2>2. Enter(w, list) = Named(v)
    BY DEF Enter
  <2> HIDE DEF v
  <2>3. Stays(v, Named(v))
    BY <2>1, HelpersStay
  <2> QED
    BY <2>1, <2>2, <2>3, Transitive
<1>2. Stays(w, Load(w))
  <2> DEFINE v == [w EXCEPT !.path = Cur(w).acc]
  <2>1. Stays(w, v) /\ DOMAIN v = Fields
    BY DEF Stays, Like, Fields
  <2>2. \E e : Load(w) = SetCur(v, e)
    BY DEF Load
  <2> HIDE DEF v
  <2>3. \A e : Stays(v, SetCur(v, e))
    BY <2>1, HelpersStay
  <2> QED
    BY <2>1, <2>2, <2>3, Transitive
<1> QED
  BY <1>1, <1>2

----------------------------------------------------------------------------
(* Changing directory.                                                     *)

LEMMA ChangeDirKeeps ==
    ASSUME NEW w, w.nochdir, NEW p, NEW d, NEW fails PROVE ChangeDir(w, p, d, fails).cwd = w.cwd
  BY DEF ChangeDir

\* Without a descriptor to come back by, a failing return stays where it is.
LEMMA BuildReturnKeeps ==
    ASSUME NEW w, w.rfd = None, NEW r, r.nochdir, NEW f PROVE BuildReturn(w, r, f).cwd = r.cwd
<1>1. ASSUME NEW p, NEW d, NEW fails PROVE ChangeDir(r, p, d, fails).cwd = r.cwd
  BY ChangeDirKeeps
<1> QED
  BY <1>1 DEF BuildReturn

LEMMA BackKeeps == ASSUME NEW w, w.nochdir, NEW f PROVE Back(w, f).cwd = w.cwd
  BY DEF Back

\* fts_build, for anyone: under FTS_NOCHDIR it goes nowhere.
LEMMA BuildKeeps ==
    ASSUME NEW w, DOMAIN w = Fields, w.nochdir \in BOOLEAN, w.nochdir => w.rfd = None,
           NEW type, NEW f
    PROVE  Keeps(w, Build(w, type, f).w)
<1> DEFINE cur   == Cur(w)
           d     == Opened(w)
           down  == IF type = "names" THEN [ok |-> TRUE, cwd |-> w.cwd]
                    ELSE ChangeDir(w, cur, d, f = "chdir")
           names == Order(d)
           stats == w.nochdir /\ type # "names" /\ names # <<>> /\ f # "readdir"
           at    == SetCur(w, [cur EXCEPT !.dont = @ \/ ~down.ok])
           path  == IF ~w.nochdir THEN at.path
                    ELSE PathOf(w, cur, IF stats THEN <<Last(names)>> ELSE <<>>)
           in    == [at EXCEPT !.cwd = down.cwd, !.path = path]
           back  == BuildReturn(w, in, f)
           b     == Build(w, type, f).w
<1>1. Keeps(w, in) /\ DOMAIN in = Fields
  <2>1. Stays(w, at)
    BY HelpersStay
  <2>2. w.nochdir => down.cwd = w.cwd
    BY ChangeDirKeeps
  <2> HIDE DEF at, down, path
  <2> QED
    BY <2>1, <2>2 DEF Keeps, Stays, Like, Fields
<1>2. w.nochdir => back.cwd = in.cwd
  <2>1. w.nochdir => in.nochdir
    BY <1>1 DEF Keeps, Like
  <2> HIDE DEF in
  <2> QED
    BY <2>1, BuildReturnKeeps
<1> DEFINE list  == [j \in DOMAIN names |-> BuildEntry(in, d, type, down.ok, names[j])]
           info  == IF type = "read" THEN "DNR" ELSE "ERR"
           stops == [SetCur(in, [Cur(in) EXCEPT !.info = "ERR"]) EXCEPT !.stop = TRUE]
<1>3. Build(w, type, f) =
         IF f = "opendir" \/ d \notin Dirs
         THEN [w |-> SetCur(w, Failed(cur, info)), list |-> <<>>]
         ELSE IF f = "fstat" \/ d # cur.ino
         THEN [w |-> SetCur(w, Failed(cur, "ERR")), list |-> <<>>]
         ELSE IF ListingFails(type, names, f) THEN [w |-> stops, list |-> <<>>]
         ELSE IF names = <<>> THEN [w |-> IF type = "read" THEN SetCur(in, [Cur(in) EXCEPT !.info = "DP"]) ELSE in, list |-> <<>>]
         ELSE IF ~(type = "list" /\ down.ok) THEN [w |-> in, list |-> list]
         ELSE IF back.ok THEN [w |-> [in EXCEPT !.cwd = back.cwd], list |-> list]
         ELSE [w |-> stops, list |-> <<>>]
  BY DEF Build
<1> HIDE DEF in, back, list, down, names, d, cur
<1> DEFINE over == SetCur(in, [Cur(in) EXCEPT !.info = "DP"])
           none == SetCur(w, Failed(cur, info))
           err  == SetCur(w, Failed(cur, "ERR"))
<1>6. b \in {none, err, stops, over, in, [in EXCEPT !.cwd = back.cwd]}
  <2> HIDE DEF stops, over, none, err
  <2> QED
    BY <1>3 DEF stops, over, none, err
<1> HIDE DEF b
<1>4. ASSUME NEW e
      PROVE  /\ Keeps(w, SetCur(w, e)) /\ Keeps(w, SetCur(in, e))
             /\ Keeps(w, [SetCur(in, e) EXCEPT !.stop = TRUE])
  <2>1. Stays(w, SetCur(w, e)) /\ Stays(in, SetCur(in, e))
    BY <1>1, HelpersStay
  <2>2. Stays(SetCur(in, e), [SetCur(in, e) EXCEPT !.stop = TRUE])
    BY <2>1 DEF Stays, Like, Fields
  <2> QED
    BY <1>1, <2>1, <2>2, Transitive
<1>5. Keeps(w, [in EXCEPT !.cwd = back.cwd])
  BY <1>1, <1>2 DEF Keeps, Like, Fields
<1> QED
  BY <1>1, <1>4, <1>5, <1>6 DEF b

----------------------------------------------------------------------------
(* The steps.  What a call of fts_read or fts_children leaves is kept.     *)

\* What a step has to show when fts_close is not the call.
LEMMA KeptIsInv ==
    ASSUME IndInv, ~s.closed, Keeps(s, s'), out' = out \/ out' \in {"entry", "null"}
    PROVE  IndInv'
  BY DEF IndInv, Keeps, Like

LEMMA ReadKeeps ==
    ASSUME IndInv, NEW f, Read(f) PROVE Keeps(s, s')
<1> DEFINE noin == Noinstr(s)
           push == CyclePush(noin)
           p    == DropNames(push)
<1>1. Stays(s, noin) /\ DOMAIN noin = Fields
  BY NoinstrStays DEF IndInv, Stays, Like
<1>2. Stays(s, p) /\ DOMAIN p = Fields
  <2> HIDE DEF noin
  <2>1. Stays(noin, push) /\ DOMAIN push = Fields
    BY <1>1, HelpersStay DEF Stays, Like
  <2> HIDE DEF push
  <2>2. Stays(push, p) /\ DOMAIN p = Fields
    BY <2>1, ListDropped DEF Stays, Like
  <2> QED
    BY <1>1, <2>1, <2>2, Transitive
<1>3. DOMAIN s = Fields /\ s.nochdir \in BOOLEAN /\ (s.nochdir => s.rfd = None)
  BY DEF IndInv
<1>4. CASE ReadAgain(f)
  <2>1. s' = StatCur(noin, FALSE, f)
    BY <1>4 DEF ReadAgain, Returns
  <2> HIDE DEF noin
  <2> QED
    BY <1>1, <2>1, StatCurStays, Transitive
<1>5. CASE ReadFollow(f)
  <2>1. s' = FollowCur(noin, f)
    BY <1>5 DEF ReadFollow, Returns
  <2> HIDE DEF noin
  <2> QED
    BY <1>1, <2>1, FollowCurStays, Transitive
<1>6. CASE ReadPushFails(f)
  <2> DEFINE v == [s EXCEPT !.stop = TRUE]
  <2>1. Stays(s, v) /\ DOMAIN v = Fields
    BY <1>3 DEF Stays, Like, Fields
  <2>2. \E e : s' = SetCur(v, e)
    BY <1>6 DEF ReadPushFails, Returns
  <2> HIDE DEF v
  <2>3. \A e : Stays(v, SetCur(v, e))
    BY <2>1, HelpersStay
  <2> QED
    BY <2>1, <2>2, <2>3, Transitive
<1>7. CASE ReadBuild(f)
  <2> DEFINE b == Build(p, "read", f)
  <2>1. s' = b.w \/ \E list : s' = Enter(b.w, list)
    BY <1>7 DEF ReadBuild, Returns
  <2> HIDE DEF p
  <2>2. p.nochdir = s.nochdir /\ p.rfd = s.rfd
    BY <1>2 DEF Stays, Like
  <2>3. Keeps(p, b.w)
    BY <1>2, <1>3, <2>2, BuildKeeps
  <2> HIDE DEF b
  <2>4. Keeps(s, b.w) /\ DOMAIN b.w = Fields
    BY <1>2, <2>3, Transitive DEF Keeps, Like
  <2>5. \A list : Keeps(b.w, Enter(b.w, list))
    BY <2>4, EntersAndLoads, Transitive
  <2> QED
    BY <2>1, <2>4, <2>5, Transitive
<1>8. CASE ReadListed(f)
  <2> DEFINE down == ChangeDir(p, Cur(p), Resolve(p.cwd, AccPath(p, Cur(p))), f = "chdir")
             into == [p EXCEPT !.cwd = down.cwd]
             dont == SetCur(p, [Cur(p) EXCEPT !.dont = TRUE, !.err = TRUE])
             ub   == [p EXCEPT !.ub = TRUE]
  <2>1. s' = ub \/ (\E list : s' = Enter(into, list)) \/ \E list : s' = Enter(dont, list)
    BY <1>8 DEF ReadListed, Returns
  <2> HIDE DEF p
  <2>2. p.nochdir => down.cwd = p.cwd
    BY ChangeDirKeeps
  <2> HIDE DEF down
  <2>3. Keeps(p, ub) /\ Keeps(p, into) /\ Keeps(p, dont)
    <3>1. Keeps(p, dont)
      BY <1>2, HelpersStay, Transitive
    <3>2. Keeps(p, ub) /\ Keeps(p, into)
      BY <1>2, <2>2 DEF Keeps, Like, Fields
    <3> QED
      BY <3>1, <3>2
  <2> HIDE DEF into, dont, ub
  <2>4. \A list : Keeps(into, Enter(into, list)) /\ Keeps(dont, Enter(dont, list))
    BY <2>3, EntersAndLoads, Transitive DEF Keeps, Like
  <2> QED
    BY <1>2, <2>1, <2>3, <2>4, Transitive
<1>9. CASE ReadRoot(f)
  <2> DEFINE free  == Free(s)
             w     == [free EXCEPT !.frames = <<[ent |-> Head(Rest(s)), rest |-> Tail(Rest(s))]>>]
             ended == [w EXCEPT !.stop = TRUE]
             to    == [w EXCEPT !.cwd = IF s.nochdir THEN @ ELSE s.rfd]
  <2>1. s' = ended \/ s' = Load(to)
    BY <1>9 DEF ReadRoot, Returns
  <2>2. Stays(s, free)
    BY <1>3, FreeStays
  <2> HIDE DEF free
  <2>3. Stays(s, w) /\ DOMAIN w = Fields
    BY <2>2 DEF Stays, Like, Fields
  <2> HIDE DEF w
  <2>4. Keeps(s, ended) /\ Keeps(s, to)
    BY <2>3 DEF Keeps, Stays, Like, Fields
  <2> HIDE DEF ended, to
  <2>5. Keeps(to, Load(to))
    BY <2>4, EntersAndLoads, Transitive DEF Keeps, Like
  <2> QED
    BY <2>1, <2>4, <2>5, Transitive
<1>10. CASE ReadSibling(f)
  <2> DEFINE k    == NotSkipped(Rest(s))
             w    == FreeUpTo(s, SubSeq(Rest(s), 1, k - 1))
             next == [w EXCEPT !.frames[Len(s.frames)] =
                         [ent |-> Rest(s)[k], rest |-> SubSeq(Rest(s), k + 1, Len(Rest(s)))]]
             foll == FollowCur(next, f)
             rest == Noinstr(foll)
  <2>1. s' = Named(rest) \/ s' = Named(next)
    BY <1>10 DEF ReadSibling, Returns
  <2>2. Stays(s, w)
    BY <1>3, FreeUpToStays
  <2> HIDE DEF w
  <2>3. Stays(s, next) /\ DOMAIN next = Fields
    BY <2>2 DEF Stays, Like, Fields
  <2> HIDE DEF next
  <2>4. Stays(next, foll) /\ DOMAIN foll = Fields
    BY <2>3, FollowCurStays DEF Stays, Like
  <2> HIDE DEF foll
  <2>5. Stays(foll, rest) /\ DOMAIN rest = Fields
    BY <2>4, NoinstrStays DEF Stays, Like
  <2> HIDE DEF rest
  <2>6. Stays(rest, Named(rest)) /\ Stays(next, Named(next))
    BY <2>3, <2>5, HelpersStay
  <2>7. Stays(s, rest)
    BY <2>3, <2>4, <2>5, Transitive
  <2> QED
    BY <2>1, <2>3, <2>6, <2>7, Transitive
<1>11. CASE ReadUp(f)
  <2> DEFINE freed == FreeUpTo(s, Rest(s))
             w     == [freed EXCEPT !.frames = Front(@),
                                    !.path = PathOf(s, Last(Front(s.frames)).ent, <<>>)]
             back  == Back(w, f)
             left  == IF Level(w) = 0 THEN w ELSE CloseSym(w)
             post  == SetCur(left, PostOrder(Cur(left)))
  <2>1. s' = [post EXCEPT !.cwd = back.cwd] \/ s' = [left EXCEPT !.stop = TRUE]
    BY <1>11 DEF ReadUp, Returns
  <2>2. Stays(s, freed)
    BY <1>3, FreeUpToStays
  <2> HIDE DEF freed
  <2>3. Stays(s, w) /\ DOMAIN w = Fields
    BY <2>2 DEF Stays, Like, Fields
  <2> HIDE DEF w
  <2>4. s.nochdir => back.cwd = s.cwd
    BY <2>3, BackKeeps DEF Stays, Like
  <2>5. Stays(s, left) /\ DOMAIN left = Fields
    BY <2>3, CloseSymStays, Transitive DEF Stays, Like
  <2> HIDE DEF back, left
  <2>6. Stays(left, post) /\ DOMAIN post = Fields
    BY <2>5, HelpersStay DEF Stays, Like
  <2> HIDE DEF post
  <2> QED
    BY <2>1, <2>4, <2>5, <2>6 DEF Keeps, Stays, Like, Fields
<1> QED
  BY <1>4, <1>5, <1>6, <1>7, <1>8, <1>9, <1>10, <1>11 DEF Read

LEMMA ReadPlainKeeps == ASSUME IndInv, ReadPlain PROVE Keeps(s, s')
<1>1. DOMAIN s = Fields
  BY DEF IndInv
<1>2. CASE ReadEnd
  BY <1>1, <1>2 DEF ReadEnd, Returns, Keeps, Like
<1>3. CASE ReadSkip
  <2> DEFINE noin  == Noinstr(s)
             closd == CloseSym(noin)
             drop  == DropList(closd)
             w     == CyclePop(drop, {Cur(s)})
  <2>1. \E e : s' = SetCur(w, e)
    BY <1>3 DEF ReadSkip, Returns
  <2>2. Stays(s, noin) /\ DOMAIN noin = Fields
    BY <1>1, NoinstrStays DEF Stays, Like
  <2> HIDE DEF noin
  <2>3. Stays(noin, closd) /\ DOMAIN closd = Fields
    BY <2>2, CloseSymStays DEF Stays, Like
  <2> HIDE DEF closd
  <2>4. Stays(closd, drop) /\ DOMAIN drop = Fields
    BY <2>3, ListDropped DEF Stays, Like
  <2> HIDE DEF drop
  <2>5. Stays(drop, w) /\ DOMAIN w = Fields
    BY <2>4, HelpersStay DEF Stays, Like
  <2> HIDE DEF w
  <2>6. \A e : Stays(w, SetCur(w, e))
    BY <2>5, HelpersStay
  <2>7. Stays(s, drop)
    BY <2>2, <2>3, <2>4, Transitive
  <2> QED
    BY <2>1, <2>5, <2>6, <2>7, Transitive
<1>4. CASE ReadDone
  <2> DEFINE free == Free(s)
  <2>1. s' = [free EXCEPT !.frames = <<>>]
    BY <1>4 DEF ReadDone, Returns
  <2>2. Stays(s, free)
    BY <1>1, FreeStays
  <2> HIDE DEF free
  <2> QED
    BY <2>1, <2>2 DEF Keeps, Stays, Like, Fields
<1> QED
  BY <1>2, <1>3, <1>4 DEF ReadPlain

LEMMA ChildrenKeeps == ASSUME IndInv, NEW type, NEW f, Children(type, f) PROVE Keeps(s, s')
<1> DEFINE freed == FreeChild(s)
           w     == [freed EXCEPT !.nameonly = @ \/ type = "names"]
           push  == CyclePush(w)
           b     == Build(push, type, f)
           live  == [b.w EXCEPT !.child = IF b.list = <<>> THEN NoChild
                                          ELSE [state |-> "live", list |-> b.list]]
<1>1. DOMAIN s = Fields /\ s.nochdir \in BOOLEAN /\ (s.nochdir => s.rfd = None)
  BY DEF IndInv
<1>2. s' \in {w, push, live, [live EXCEPT !.cwd = s.cwd]}
  <2> HIDE DEF w, push, live
  <2> QED
    BY DEF Children, w, push, live
<1>3. Stays(s, freed)
  BY <1>1, HelpersStay
<1> HIDE DEF freed
<1>4. Stays(s, w) /\ DOMAIN w = Fields
  BY <1>3 DEF Stays, Like, Fields
<1> HIDE DEF w
<1>5. Stays(w, push) /\ DOMAIN push = Fields
  BY <1>4, HelpersStay DEF Stays, Like
<1> HIDE DEF push
<1>6. Stays(s, push) /\ push.nochdir = s.nochdir /\ push.rfd = s.rfd
  BY <1>4, <1>5, Transitive DEF Stays, Like
<1>7. Keeps(push, b.w)
  BY <1>1, <1>5, <1>6, BuildKeeps
<1> HIDE DEF b
<1>8. Keeps(s, b.w)
  BY <1>6, <1>7, Transitive
<1>9. Keeps(s, live) /\ Keeps(s, [live EXCEPT !.cwd = s.cwd])
  BY <1>8 DEF Keeps, Like, Fields
<1> QED
  BY <1>2, <1>4, <1>6, <1>9, Transitive

\* fts_close goes back to where fts_open was called, or fails.
LEMMA CloseRestores == ASSUME IndInv, NEW f, Close(f) PROVE IndInv'
<1> DEFINE w == IF s.frames = <<>> THEN s ELSE CloseSym(s)
<1>1. Stays(s, w) /\ DOMAIN w = Fields
  BY CloseSymStays DEF IndInv, Stays, Like
<1>2. /\ \E lost, ub : s' = [w EXCEPT !.frames = <<>>, !.child = NoChild, !.cycles = <<>>,
                                      !.closed = TRUE, !.lost = lost, !.ub = ub,
                                      !.cwd = CwdAtClose(f)]
      /\ out' = IF f = "rfd" /\ ~s.nochdir THEN "failed" ELSE "closed"
  BY DEF Close
<1> HIDE DEF w
<1>3. DOMAIN s' = Fields /\ s'.nochdir = s.nochdir /\ s'.rfd = s.rfd
      /\ s'.closed = TRUE /\ s'.cwd = CwdAtClose(f)
  BY <1>1, <1>2 DEF Stays, Like, Fields
<1>4. s'.nochdir => s'.cwd = Home
  BY <1>3 DEF CwdAtClose, IndInv
<1>5. out' = "closed" => s'.cwd = Home
  BY <1>2, <1>3 DEF CwdAtClose, IndInv
<1> QED
  BY <1>3, <1>4, <1>5 DEF IndInv

LEMMA InitInv == ASSUME Stdin = None, Init PROVE IndInv
<1>1. PICK walk \in Walks, f \in Strikes("open") : s = Stream(walk, f)
  BY DEF Init
<1>2. walk.logical \in BOOLEAN /\ walk.nochdir \in BOOLEAN
  BY FtsAssumption DEF IsWalk
<1>3. DOMAIN s = Fields /\ s.cwd = Home /\ s.rfd = RootFd(walk, f)
      /\ s.nochdir = (walk.logical \/ walk.nochdir \/ f = "dot")
  BY <1>1 DEF Stream, Fields
<1>4. out = "opened"
  BY DEF Init
<1> QED
  BY <1>2, <1>3, <1>4 DEF IndInv, RootFd

LEMMA StepInv == ASSUME IndInv, [Next]_vars PROVE IndInv'
<1>1. CASE UNCHANGED s /\ UNCHANGED out
  BY <1>1 DEF IndInv
<1>2. CASE ReadPlain
  <2>1. ~s.closed /\ out' \in {"entry", "null"}
    BY <1>2 DEF ReadPlain, ReadEnd, ReadSkip, ReadDone, Usable, Walking, Moves, Returns
  <2> QED
    BY <1>2, <2>1, ReadPlainKeeps, KeptIsInv
<1>3. ASSUME NEW f, Read(f) PROVE IndInv'
  <2>1. ~s.closed /\ out' \in {"entry", "null"}
    BY <1>3 DEF Read, ReadAgain, ReadFollow, ReadPushFails, ReadBuild, ReadListed, ReadRoot,
                ReadSibling, ReadUp, Usable, Walking, Moves, Returns
  <2> QED
    BY <1>3, <2>1, ReadKeeps, KeptIsInv
<1>4. ASSUME NEW type, NEW f, Children(type, f) PROVE IndInv'
  BY <1>4, ChildrenKeeps, KeptIsInv DEF Children, Usable, Walking
<1>5. ASSUME NEW f, Close(f) PROVE IndInv'
  BY <1>5, CloseRestores
<1>6. ASSUME NEW instr, Set(instr) PROVE IndInv'
  <2>1. Keeps(s, s')
    BY <1>6, HelpersStay, Transitive DEF Set, IndInv
  <2> QED
    BY <1>6, <2>1, KeptIsInv DEF Set, Usable, Walking
<1>7. ASSUME NEW j, NEW instr, SetListed(j, instr) \/ SetRoot(j, instr) PROVE IndInv'
  <2>1. Keeps(s, s')
    BY <1>7 DEF SetListed, SetRoot, IndInv, Keeps, Like, Fields
  <2> QED
    BY <1>7, <2>1, KeptIsInv DEF SetListed, SetRoot, Usable, Walking
<1>8. ASSUME NEW d, NEW e, NEW n, NEW m, Rename(d, n, e, m) PROVE IndInv'
  BY <1>1, <1>8 DEF Rename
<1> QED
  BY <1>1, <1>2, <1>3, <1>4, <1>5, <1>6, <1>7, <1>8 DEF Next, vars

----------------------------------------------------------------------------
(* The working directory of the process is left alone under FTS_NOCHDIR,   *)
(* and an fts_close that reports success has restored it: for every file   *)
(* system, whatever fails, whatever is renamed in the meantime, and        *)
(* whatever the caller asks for.  The assumption is that descriptor 0 is   *)
(* not a directory: fts_children at a root calls fchdir(fts_rfd) without a *)
(* look at FTS_NOCHDIR, and fts_rfd is 0 when fts_open has set none.       *)
THEOREM WorkingDirectoryKept == ASSUME Stdin = None PROVE Spec => []CwdKept
<1>1. Init => IndInv
  BY InitInv
<1>2. IndInv /\ [Next]_vars => IndInv'
  BY StepInv
<1>3. IndInv => CwdKept
  BY DEF IndInv, CwdKept
<1> QED
  BY <1>1, <1>2, <1>3, PTL DEF Spec
==============================================================================
