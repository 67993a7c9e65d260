---------------------------- MODULE FtsCycleProofs ----------------------------
(***************************************************************************)
(* Proofs about Fts: the table of directories, the cycles that fts_read    *)
(* reports and the list of fts_children, for every file system, whatever   *)
(* fails and is renamed.                                                   *)
(***************************************************************************)
EXTENDS FtsProofs, FiniteSetTheorems, WellFoundedInduction, SequenceTheorems

EntryFields == {"name", "len", "acc", "info", "ino", "stat", "instr", "dont", "sym",
                "symdir", "err", "cycle"}

IsSeq(q)  == q \in Seq(Range(q))
IsList(q) == IsSeq(q) /\ \A j \in DOMAIN q : DOMAIN q[j] = EntryFields

IsFrame(p) == DOMAIN p = {"ent", "rest"} /\ DOMAIN p.ent = EntryFields /\ IsList(p.rest)

\* The frames and the list of a stream are as fts_open and fts_build make them.
Shaped(w) ==
    /\ DOMAIN w = Fields
    /\ IsSeq(w.frames) /\ \A k \in DOMAIN w.frames : IsFrame(w.frames[k])
    /\ DOMAIN w.child = {"state", "list"} /\ IsList(w.child.list)

\* What fts_stat has found out about e below the first k frames is true: a cycle
\* leads to one of them, and a directory is none of them.
Sound(w, e, k) ==
    /\ e.info = "DC" => e.cycle \in 0..(k - 1) /\ w.frames[e.cycle + 1].ent.ino = e.ino
    /\ e.info = "D" => \A j \in 1..k : w.frames[j].ent.ino # e.ino

\* The entries waiting at the level below the first k frames.
SoundList(w, list, k) == \A j \in DOMAIN list : Sound(w, list[j], k) /\ list[j].instr # "again"

\* The entries above fts_cur are directories in preorder; none of the entries is
\* a directory to be examined again.
SoundFrames(w) ==
    \A k \in DOMAIN w.frames :
        /\ k < Len(w.frames) => w.frames[k].ent.info = "D"
        /\ w.frames[k].ent.instr = "again" => ~IsDirectory(w.frames[k].ent)
        /\ Sound(w, w.frames[k].ent, k - 1)
        /\ SoundList(w, w.frames[k].rest, k - 1)

\* The directory i is entered in the table for the entry at its level.
Entered(w, i) ==
    /\ w.cycles[i] \in 0..Level(w)
    /\ w.frames[w.cycles[i] + 1].ent.ino = i
    /\ IsDirectory(w.frames[w.cycles[i] + 1].ent)

SoundTable(w) == \A i \in DOMAIN w.cycles : Entered(w, i)

\* A list of fts_children, never empty, is there for a directory in preorder that
\* is in the table.
SoundChild(w) ==
    w.child.state = "live" =>
        /\ w.frames # <<>> /\ Cur(w).info = "D" /\ Cur(w).ino \in DOMAIN w.cycles
        /\ w.child.list # <<>> /\ SoundList(w, w.child.list, Len(w.frames))

CycleInv(w) == Shaped(w) /\ SoundFrames(w) /\ SoundTable(w) /\ SoundChild(w)

\* The program does not ask for a directory to be examined again.
Again == {"D", "DC", "DNR", "DP", "ERR"} \X {"again"}
NoneAgain ==
    /\ \A walk \in Walks : walk.instrs \cap Again = {}
    /\ "again" \notin ListedInstrs

TreeOK == DOMAIN tree = Dirs /\ \A d \in Dirs : DOMAIN tree[d] \subseteq Names

\* The inductive invariant.
WalkInv == TreeOK /\ asks.instrs \cap Again = {} /\ CycleInv(s)
----------------------------------------------------------------------------
(* Sequences, and the greatest and the least number of a set.              *)

LEMMA SeqIs ==
    ASSUME NEW q, IsSeq(q)
    PROVE  Len(q) \in Nat /\ DOMAIN q = 1..Len(q) /\ (q = <<>> <=> Len(q) = 0)
<1>1. q \in Seq(Range(q))
  BY DEF IsSeq
<1>2. Len(q) \in Nat /\ DOMAIN q = 1..Len(q)
  BY <1>1, LenProperties
<1>3. q # <<>> => Len(q) # 0
  BY <1>1, EmptySeq
<1>4. q = <<>> => Len(q) = 0
  BY EmptySeq
<1> QED
  BY <1>2, <1>3, <1>4

LEMMA InSeq == ASSUME NEW S, NEW q \in Seq(S) PROVE IsSeq(q)
<1>1. DOMAIN q = 1..Len(q) /\ Len(q) \in Nat /\ q \in [1..Len(q) -> S]
  BY LenProperties
<1>2. q \in [1..Len(q) -> Range(q)]
  BY <1>1 DEF Range
<1>3. q \in Seq(Range(q))
  BY <1>1, <1>2
<1> QED
  BY <1>3 DEF IsSeq

LEMMA FunctionIsSeq ==
    ASSUME NEW n \in Nat, NEW f, f = [j \in 1..n |-> f[j]]
    PROVE  IsSeq(f) /\ Len(f) = n
<1>1. f \in [1..n -> Range(f)]
  BY DEF Range
<1>2. f \in Seq(Range(f)) /\ DOMAIN f = 1..n
  BY <1>1
<1>3. Len(f) = n
  BY <1>2, LenProperties
<1> QED
  BY <1>2, <1>3 DEF IsSeq

LEMMA SeqExcept ==
    ASSUME NEW q, IsSeq(q), NEW n \in DOMAIN q, NEW v
    PROVE  /\ IsSeq([q EXCEPT ![n] = v]) /\ Len([q EXCEPT ![n] = v]) = Len(q)
           /\ [q EXCEPT ![n] = v][n] = v
           /\ \A j \in DOMAIN q \ {n} : [q EXCEPT ![n] = v][j] = q[j]
<1> DEFINE r == [q EXCEPT ![n] = v]
<1>1. Len(q) \in Nat /\ DOMAIN q = 1..Len(q)
  BY SeqIs
<1>2. DOMAIN r = DOMAIN q /\ r[n] = v /\ \A j \in DOMAIN q \ {n} : r[j] = q[j]
  OBVIOUS
<1>3. r = [j \in 1..Len(q) |-> r[j]]
  BY <1>1
<1> HIDE DEF r
<1>4. IsSeq(r) /\ Len(r) = Len(q)
  BY <1>1, <1>3, FunctionIsSeq
<1> QED
  BY <1>2, <1>4 DEF r

LEMMA SeqAppend ==
    ASSUME NEW q, IsSeq(q), NEW v
    PROVE  /\ IsSeq(Append(q, v)) /\ Len(Append(q, v)) = Len(q) + 1
           /\ Append(q, v)[Len(q) + 1] = v
           /\ \A j \in DOMAIN q : Append(q, v)[j] = q[j]
<1> DEFINE S == Range(q) \cup {v}
<1>1. q \in Seq(S)
  BY SeqMonotonic DEF IsSeq
<1>2. v \in S
  OBVIOUS
<1>3. Len(q) \in Nat /\ DOMAIN q = 1..Len(q)
  BY SeqIs
<1> HIDE DEF S
<1>4. Append(q, v) \in Seq(S)
  BY <1>1, <1>2
<1>5. Len(Append(q, v)) = Len(q) + 1 /\ Append(q, v)[Len(q) + 1] = v
      /\ \A j \in 1..Len(q) : Append(q, v)[j] = q[j]
  BY <1>1, <1>2, <1>3
<1> QED
  BY <1>3, <1>4, <1>5, InSeq

LEMMA SeqPart ==
    ASSUME NEW q, IsSeq(q), NEW m \in Nat \ {0}, NEW n \in Nat, m <= n + 1, n <= Len(q)
    PROVE  /\ IsSeq(SubSeq(q, m, n)) /\ Len(SubSeq(q, m, n)) = n - m + 1
           /\ \A j \in 1..n - m + 1 : SubSeq(q, m, n)[j] = q[m + j - 1]
<1>1. Len(q) \in Nat /\ DOMAIN q = 1..Len(q)
  BY SeqIs
<1>2. \A j \in m..n : q[j] \in Range(q)
  BY <1>1 DEF Range
<1>3. /\ SubSeq(q, m, n) \in Seq(Range(q))
      /\ Len(SubSeq(q, m, n)) = IF m <= n THEN n - m + 1 ELSE 0
      /\ \A j \in 1..n - m + 1 : SubSeq(q, m, n)[j] = q[m + j - 1]
  BY <1>2, SubSeqProperties
<1>4. Len(SubSeq(q, m, n)) = n - m + 1
  BY <1>3
<1> QED
  BY <1>3, <1>4, InSeq

LEMMA SeqTail ==
    ASSUME NEW q, IsSeq(q), q # <<>>
    PROVE  /\ Len(q) \in Nat \ {0} /\ Head(q) = q[1]
           /\ IsSeq(Tail(q)) /\ Len(Tail(q)) = Len(q) - 1
           /\ \A j \in 1..Len(q) - 1 : Tail(q)[j] = q[j + 1]
<1>1. Len(q) \in Nat \ {0} /\ q \in Seq(Range(q))
  BY EmptySeq DEF IsSeq
<1>2. Tail(q) \in Seq(Range(q)) /\ Len(Tail(q)) = Len(q) - 1
      /\ \A j \in 1..Len(Tail(q)) : Tail(q)[j] = q[j + 1]
  BY <1>1, HeadTailProperties
<1>3. Head(q) = q[1]
  BY <1>1
<1> QED
  BY <1>1, <1>2, <1>3, InSeq

LEMMA LeastIs ==
    ASSUME NEW T, T \subseteq Nat, T # {} PROVE Min(T) \in T /\ \A y \in T : Min(T) <= y
<1>1. \E x \in T : \A y \in T : ~(<<y, x>> \in OpToRel(<, Nat))
  BY NatLessThanWellFounded, WFMin
<1>2. \A x \in T, y \in T : y < x => <<y, x>> \in OpToRel(<, Nat)
  BY DEF OpToRel
<1>3. PICK x \in T : \A y \in T : ~(<<y, x>> \in OpToRel(<, Nat))
  BY <1>1
<1>4. \A y \in T : ~(y < x)
  BY <1>2, <1>3
<1>5. \A y \in T : x <= y
  BY <1>4
<1> QED
  BY <1>5 DEF Min

LEMMA GreatestIs ==
    ASSUME NEW n \in Nat, NEW T, T \subseteq 1..n, T # {}
    PROVE  Max(T) \in T
<1> DEFINE U == {n - x : x \in T}
<1>1. U \subseteq Nat /\ U # {}
  <2>1. \A x \in T : n - x \in Nat
    OBVIOUS
  <2> QED
    BY <2>1
<1>2. Min(U) \in U /\ \A y \in U : Min(U) <= y
  BY <1>1, LeastIs
<1>3. PICK x \in T : n - x = Min(U)
  BY <1>2
<1>4. ASSUME NEW y \in T PROVE x >= y
  <2>1. n - x <= n - y
    BY <1>2, <1>3
  <2>2. x \in Int /\ y \in Int /\ n \in Int
    OBVIOUS
  <2> QED
    BY <2>1, <2>2
<1>5. \A y \in T : x >= y
  BY <1>4
<1> HIDE DEF U
<1> QED
  BY <1>5 DEF Max

\* The first entry that is not to be skipped.
LEMMA NotSkippedIs ==
    ASSUME NEW q, IsSeq(q) PROVE NotSkipped(q) = 0 \/ NotSkipped(q) \in 1..Len(q)
<1> DEFINE I == {i \in 1..Len(q) : q[i].instr # "skip"}
<1>1. NotSkipped(q) = IF I # {} THEN Min(I) ELSE 0
  BY DEF NotSkipped, SelectInSeq
<1>2. Len(q) \in Nat
  BY SeqIs
<1>3. I \subseteq Nat /\ I \subseteq 1..Len(q)
  BY <1>2
<1> HIDE DEF I
<1>4. I # {} => Min(I) \in I
  BY <1>3, LeastIs
<1> QED
  BY <1>1, <1>3, <1>4
----------------------------------------------------------------------------
(* fts_cur becomes another entry.                                          *)

\* v is w with e in the place of fts_cur.
Replaced(w, v, e) ==
    /\ Shaped(v) /\ Len(v.frames) = Len(w.frames) /\ v.frames # <<>> /\ Cur(v) = e
    /\ \A k \in 1..Level(w) : v.frames[k] = w.frames[k]
    /\ Rest(v) = Rest(w)
    /\ v.cycles = w.cycles /\ v.child = w.child /\ v.ub = w.ub

LEMMA SetCurIs ==
    ASSUME NEW w, Shaped(w), w.frames # <<>>, NEW e, DOMAIN e = EntryFields
    PROVE  Replaced(w, SetCur(w, e), e)
<1> DEFINE v == SetCur(w, e)
           n == Len(w.frames)
           p == [w.frames[n] EXCEPT !.ent = e]
<1>1. IsSeq(w.frames) /\ n \in Nat \ {0} /\ DOMAIN w.frames = 1..n
  BY SeqIs DEF Shaped
<1>2. IsFrame(w.frames[n]) /\ n \in DOMAIN w.frames
  BY <1>1 DEF Shaped
<1>3. IsFrame(p) /\ p.ent = e /\ p.rest = w.frames[n].rest
  BY <1>2 DEF IsFrame
<1>4. /\ DOMAIN v = Fields /\ v.frames = [w.frames EXCEPT ![n] = p]
      /\ v.cycles = w.cycles /\ v.child = w.child /\ v.ub = w.ub
  BY DEF SetCur, Shaped, Fields
<1> HIDE DEF p, v
<1>5. IsSeq(v.frames) /\ Len(v.frames) = n /\ v.frames[n] = p
      /\ \A j \in DOMAIN w.frames \ {n} : v.frames[j] = w.frames[j]
  BY <1>1, <1>2, <1>4, SeqExcept
<1>6. DOMAIN v.frames = 1..n /\ v.frames # <<>>
  BY <1>1, <1>5, SeqIs
<1>7. \A k \in 1..n : IsFrame(v.frames[k])
  BY <1>1, <1>3, <1>5 DEF Shaped
<1>8. Shaped(v)
  BY <1>4, <1>5, <1>6, <1>7 DEF Shaped
<1>9. Cur(v) = e /\ Rest(v) = Rest(w)
  BY <1>3, <1>5 DEF Cur, Rest, Last
<1>10. \A k \in 1..Level(w) : v.frames[k] = w.frames[k]
  BY <1>1, <1>5 DEF Level
<1> QED
  BY <1>4, <1>5, <1>6, <1>8, <1>9, <1>10 DEF Replaced, v

\* Whether an entry below the first k frames is sound is a matter of their inodes.
LEMMA SoundSame ==
    ASSUME NEW v, NEW w, NEW k \in Int, NEW e, Sound(w, e, k),
           \A j \in 1..k : v.frames[j].ent.ino = w.frames[j].ent.ino
    PROVE  Sound(v, e, k)
<1>1. CASE e.info = "DC"
  <2>1. e.cycle \in 0..(k - 1) /\ w.frames[e.cycle + 1].ent.ino = e.ino
    BY <1>1 DEF Sound
  <2>2. e.cycle + 1 \in 1..k
    BY <2>1
  <2> QED
    BY <1>1, <2>1, <2>2 DEF Sound
<1>2. CASE e.info # "DC"
  BY <1>2 DEF Sound
<1> QED
  BY <1>1, <1>2

\* What is said of the entries above fts_cur is about the frames alone.
LEMMA FramesSound == ASSUME NEW w, NEW v, v.frames = w.frames, SoundFrames(w) PROVE SoundFrames(v)
<1>1. ASSUME NEW e, NEW k, Sound(w, e, k) PROVE Sound(v, e, k)
  BY <1>1 DEF Sound
<1>2. ASSUME NEW list, NEW k, SoundList(w, list, k) PROVE SoundList(v, list, k)
  BY <1>1, <1>2 DEF SoundList
<1>3. ASSUME NEW k \in DOMAIN v.frames
      PROVE  /\ k < Len(v.frames) => v.frames[k].ent.info = "D"
             /\ v.frames[k].ent.instr = "again" => ~IsDirectory(v.frames[k].ent)
             /\ Sound(v, v.frames[k].ent, k - 1) /\ SoundList(v, v.frames[k].rest, k - 1)
  <2>1. /\ k < Len(w.frames) => w.frames[k].ent.info = "D"
        /\ w.frames[k].ent.instr = "again" => ~IsDirectory(w.frames[k].ent)
        /\ Sound(w, w.frames[k].ent, k - 1) /\ SoundList(w, w.frames[k].rest, k - 1)
    BY DEF SoundFrames
  <2> QED
    BY <1>1, <1>2, <2>1
<1> QED
  BY <1>3 DEF SoundFrames

LEMMA SoundListSame ==
    ASSUME NEW v, NEW w, NEW k \in Int, NEW list, SoundList(w, list, k),
           \A j \in 1..k : v.frames[j].ent.ino = w.frames[j].ent.ino
    PROVE  SoundList(v, list, k)
<1>1. ASSUME NEW j \in DOMAIN list PROVE Sound(v, list[j], k)
  BY SoundSame DEF SoundList
<1> QED
  BY <1>1 DEF SoundList

\* The frame of fts_cur.
LEMMA CurIs ==
    ASSUME NEW w, Shaped(w), w.frames # <<>>
    PROVE  /\ Len(w.frames) \in Nat \ {0} /\ DOMAIN w.frames = 1..Len(w.frames)
           /\ Level(w) \in Nat /\ Level(w) = Len(w.frames) - 1
           /\ IsFrame(w.frames[Len(w.frames)])
           /\ Cur(w) = w.frames[Len(w.frames)].ent /\ Rest(w) = w.frames[Len(w.frames)].rest
           /\ DOMAIN Cur(w) = EntryFields /\ IsList(Rest(w))
<1>1. Len(w.frames) \in Nat \ {0} /\ DOMAIN w.frames = 1..Len(w.frames)
  BY SeqIs DEF Shaped
<1>2. IsFrame(w.frames[Len(w.frames)])
  BY <1>1 DEF Shaped
<1> QED
  BY <1>1, <1>2 DEF Cur, Rest, Level, Last, IsFrame

\* The frames stay sound when the new fts_cur is.
LEMMA ReplacedFrames ==
    ASSUME NEW w, Shaped(w), SoundFrames(w), w.frames # <<>>, NEW v, NEW e, Replaced(w, v, e),
           Sound(w, e, Level(w)), e.instr = "again" => ~IsDirectory(e)
    PROVE  SoundFrames(v)
<1> DEFINE n == Len(w.frames)
<1>1. n \in Nat \ {0} /\ DOMAIN w.frames = 1..n /\ Level(w) = n - 1
  BY CurIs
<1>2. Len(v.frames) = n /\ DOMAIN v.frames = 1..n /\ v.frames # <<>> /\ Shaped(v)
  BY SeqIs DEF Replaced, Shaped
<1>3. v.frames[n].ent = e /\ v.frames[n].rest = w.frames[n].rest
  BY <1>2, CurIs DEF Replaced
<1>4. \A k \in 1..n - 1 : v.frames[k] = w.frames[k]
  BY <1>1 DEF Replaced
<1>5. ASSUME NEW k \in 1..n
      PROVE  /\ k < n => v.frames[k].ent.info = "D"
             /\ v.frames[k].ent.instr = "again" => ~IsDirectory(v.frames[k].ent)
             /\ Sound(v, v.frames[k].ent, k - 1)
             /\ SoundList(v, v.frames[k].rest, k - 1)
  <2>1. /\ k < n => w.frames[k].ent.info = "D"
        /\ w.frames[k].ent.instr = "again" => ~IsDirectory(w.frames[k].ent)
        /\ Sound(w, w.frames[k].ent, k - 1)
        /\ SoundList(w, w.frames[k].rest, k - 1)
    BY <1>1 DEF SoundFrames
  <2>2. k - 1 \in Int /\ n - 1 \in Int /\ \A j \in 1..k - 1 : v.frames[j].ent.ino = w.frames[j].ent.ino
    BY <1>1, <1>4
  <2>3. SoundList(v, w.frames[k].rest, k - 1)
    BY <2>1, <2>2, SoundListSame
  <2>4. CASE k = n
    <3>1. Sound(v, e, k - 1)
      BY <1>1, <2>2, <2>4, SoundSame
    <3> QED
      BY <1>3, <2>3, <2>4, <3>1
  <2>5. CASE k # n
    <3>1. v.frames[k] = w.frames[k]
      BY <1>1, <1>4, <2>5
    <3>2. Sound(v, w.frames[k].ent, k - 1)
      BY <2>1, <2>2, SoundSame
    <3> QED
      BY <2>1, <2>3, <3>1, <3>2
  <2> QED
    BY <2>4, <2>5
<1> QED
  BY <1>2, <1>5 DEF SoundFrames

\* What becomes of fts_cur, but for its examination: it stays the directory it is.
Alters(e0, e) ==
    /\ DOMAIN e = EntryFields /\ e.ino = e0.ino
    /\ IsDirectory(e0) => IsDirectory(e)
    /\ (e.info = e0.info /\ e.cycle = e0.cycle) \/ e.info \notin {"D", "DC"}
    /\ e.instr = "again" => ~IsDirectory(e)

LEMMA AlteredInv ==
    ASSUME NEW w, CycleInv(w), w.frames # <<>>, NEW v, NEW e, Replaced(w, v, e),
           Alters(Cur(w), e), w.child.state = "live" => e.info = "D"
    PROVE  CycleInv(v)
<1> DEFINE n == Len(w.frames)
<1>1. n \in Nat \ {0} /\ DOMAIN w.frames = 1..n /\ Level(w) = n - 1 /\ Cur(w) = w.frames[n].ent
  BY CurIs DEF CycleInv
<1>2. Len(v.frames) = n /\ v.frames # <<>> /\ Shaped(v) /\ v.cycles = w.cycles /\ v.child = w.child
      /\ Cur(v) = e
  BY DEF Replaced
<1>3. v.frames[n].ent = e /\ Level(v) = n - 1
  BY <1>2, CurIs
<1>4. \A k \in 1..n - 1 : v.frames[k] = w.frames[k]
  BY <1>1 DEF Replaced
<1>5. Sound(w, Cur(w), n - 1)
  BY <1>1 DEF CycleInv, SoundFrames
<1>6. Sound(w, e, n - 1)
  BY <1>5 DEF Sound, Alters
<1>7. SoundFrames(v)
  BY <1>1, <1>6, ReplacedFrames DEF CycleInv, Alters
<1>8. \A k \in 1..n : v.frames[k].ent.ino = w.frames[k].ent.ino
                      /\ (IsDirectory(w.frames[k].ent) => IsDirectory(v.frames[k].ent))
  BY <1>1, <1>3, <1>4 DEF Alters
<1>9. SoundTable(v)
  <2> SUFFICES ASSUME NEW i \in DOMAIN w.cycles PROVE Entered(v, i)
    BY <1>2 DEF SoundTable
  <2>1. Entered(w, i)
    BY DEF CycleInv, SoundTable
  <2>2. w.cycles[i] \in 0..n - 1
    BY <1>1, <2>1 DEF Entered
  <2>3. w.cycles[i] + 1 \in 1..n
    BY <1>1, <2>2
  <2> QED
    BY <1>2, <1>3, <1>8, <2>1, <2>2, <2>3 DEF Entered
<1>10. SoundChild(v)
  <2> SUFFICES ASSUME w.child.state = "live"
               PROVE  /\ e.info = "D" /\ e.ino \in DOMAIN w.cycles
                      /\ w.child.list # <<>> /\ SoundList(v, w.child.list, n)
    BY <1>2 DEF SoundChild
  <2>1. /\ Cur(w).ino \in DOMAIN w.cycles
        /\ w.child.list # <<>> /\ SoundList(w, w.child.list, n)
    BY DEF CycleInv, SoundChild
  <2>2. SoundList(v, w.child.list, n)
    BY <1>1, <1>8, <2>1, SoundListSame
  <2> QED
    BY <2>1, <2>2 DEF Alters
<1> QED
  BY <1>2, <1>7, <1>9, <1>10 DEF CycleInv

\* Nothing in the table, and no list, speaks of fts_cur.
Untabled(w) ==
    /\ \A i \in DOMAIN w.cycles : w.cycles[i] # Level(w)
    /\ w.child.state # "live"

LEMMA NotDirectory ==
    ASSUME NEW w, CycleInv(w), w.frames # <<>>, ~IsDirectory(Cur(w)) PROVE Untabled(w)
<1>1. Level(w) + 1 = Len(w.frames) /\ Cur(w) = w.frames[Len(w.frames)].ent
  BY CurIs DEF CycleInv
<1>2. \A i \in DOMAIN w.cycles : w.cycles[i] # Level(w)
  BY <1>1 DEF CycleInv, SoundTable, Entered
<1> QED
  BY <1>2 DEF Untabled, CycleInv, SoundChild, IsDirectory

\* An entry that is not in the table is examined.
LEMMA RestatInv ==
    ASSUME NEW w, CycleInv(w), w.frames # <<>>, NEW v, NEW e, Replaced(w, v, e),
           Untabled(w), Sound(w, e, Level(w)), e.instr # "again"
    PROVE  CycleInv(v)
<1> DEFINE n == Len(w.frames)
<1>1. n \in Nat \ {0} /\ DOMAIN w.frames = 1..n /\ Level(w) = n - 1 /\ Cur(w) = w.frames[n].ent
  BY CurIs DEF CycleInv
<1>2. Len(v.frames) = n /\ v.frames # <<>> /\ Shaped(v) /\ v.cycles = w.cycles /\ v.child = w.child
  BY DEF Replaced
<1>3. Level(v) = n - 1
  BY <1>2, CurIs
<1>4. \A k \in 1..n - 1 : v.frames[k] = w.frames[k]
  BY <1>1 DEF Replaced
<1>5. SoundFrames(v)
  BY ReplacedFrames DEF CycleInv
<1>6. SoundTable(v)
  <2> SUFFICES ASSUME NEW i \in DOMAIN w.cycles PROVE Entered(v, i)
    BY <1>2 DEF SoundTable
  <2>1. Entered(w, i)
    BY DEF CycleInv, SoundTable
  <2>2. w.cycles[i] \in 0..n - 1 /\ w.cycles[i] # n - 1
    BY <1>1, <2>1 DEF Entered, Untabled
  <2>3. w.cycles[i] + 1 \in 1..n - 1
    BY <1>1, <2>2
  <2> QED
    BY <1>2, <1>3, <1>4, <2>1, <2>2, <2>3 DEF Entered
<1>7. w.child.state # "live"
  BY DEF Untabled
<1> QED
  BY <1>2, <1>5, <1>6, <1>7 DEF CycleInv, SoundChild
----------------------------------------------------------------------------
(* fts_stat and the helpers that change fts_cur only.                      *)

\* The stream v is sound as w is, with its list and its table.
Kept(w, v) ==
    /\ CycleInv(v) /\ v.frames # <<>> /\ Len(v.frames) = Len(w.frames)
    /\ v.cycles = w.cycles /\ v.child = w.child /\ v.ub = w.ub

LEMMA AlterCur ==
    ASSUME NEW w, CycleInv(w), w.frames # <<>>, NEW e, Alters(Cur(w), e),
           w.child.state = "live" => e.info = "D"
    PROVE  Kept(w, SetCur(w, e)) /\ Cur(SetCur(w, e)) = e
<1>1. Replaced(w, SetCur(w, e), e)
  BY SetCurIs DEF CycleInv, Alters
<1>2. CycleInv(SetCur(w, e))
  BY <1>1, AlteredInv
<1> QED
  BY <1>1, <1>2 DEF Kept, Replaced

\* Another path, another directory, other counters.
LEMMA SameEntries ==
    ASSUME NEW w, CycleInv(w), NEW v, DOMAIN v = Fields, v.frames = w.frames,
           v.cycles = w.cycles, v.child = w.child
    PROVE  CycleInv(v) /\ Cur(v) = Cur(w) /\ Rest(v) = Rest(w) /\ Level(v) = Level(w)
<1>1. Cur(v) = Cur(w) /\ Rest(v) = Rest(w) /\ Level(v) = Level(w)
  BY DEF Cur, Rest, Level
<1>2. \A e, k : Sound(v, e, k) <=> Sound(w, e, k)
  BY DEF Sound
<1>3. \A list, k : SoundList(v, list, k) <=> SoundList(w, list, k)
  BY <1>2 DEF SoundList
<1>4. SoundFrames(v)
  BY <1>2, <1>3 DEF CycleInv, SoundFrames
<1>5. SoundTable(v)
  BY <1>1 DEF CycleInv, SoundTable, Entered
<1>6. SoundChild(v)
  BY <1>1, <1>3 DEF CycleInv, SoundChild
<1> QED
  BY <1>1, <1>4, <1>5, <1>6 DEF CycleInv, Shaped

\* The table speaks of the first k frames.
TableBelow(w, k) ==
    \A i \in DOMAIN w.cycles : w.cycles[i] \in 0..k - 1 /\ w.frames[w.cycles[i] + 1].ent.ino = i

\* The directory found walking t already is one of the first k frames.
LEMMA EntryForIs ==
    ASSUME NEW w, NEW k \in Nat, TableBelow(w, k), NEW t
    PROVE  IF EntryFor(w, t, k) = NoCycle
           THEN \A j \in 1..k : w.frames[j].ent.ino # t
           ELSE EntryFor(w, t, k) \in 0..k - 1 /\ w.frames[EntryFor(w, t, k) + 1].ent.ino = t
<1> DEFINE above == {j \in 1..k : w.frames[j].ent.ino = t}
<1>1. CASE above # {}
  <2>1. EntryFor(w, t, k) = Max(above) - 1
    BY <1>1 DEF EntryFor
  <2>2. Max(above) \in above
    BY <1>1, GreatestIs
  <2>3. Max(above) \in 1..k /\ w.frames[Max(above)].ent.ino = t
    BY <2>2
  <2> HIDE DEF above
  <2>4. Max(above) - 1 \in 0..k - 1 /\ (Max(above) - 1) + 1 = Max(above) /\ Max(above) - 1 # -1
    BY <2>3
  <2> QED
    BY <2>1, <2>3, <2>4 DEF NoCycle
<1>2. CASE above = {}
  <2>1. \A j \in 1..k : w.frames[j].ent.ino # t
    BY <1>2
  <2>2. t \notin DOMAIN w.cycles
    <3> SUFFICES ASSUME t \in DOMAIN w.cycles PROVE FALSE
      OBVIOUS
    <3>1. w.cycles[t] \in 0..k - 1 /\ w.frames[w.cycles[t] + 1].ent.ino = t
      BY DEF TableBelow
    <3>2. w.cycles[t] + 1 \in 1..k
      BY <3>1
    <3> QED
      BY <2>1, <3>1, <3>2
  <2>3. EntryFor(w, t, k) = NoCycle
    BY <1>2, <2>2 DEF EntryFor
  <2> QED
    BY <2>1, <2>3
<1> QED
  BY <1>1, <1>2

LEMMA StatIs ==
    ASSUME NEW w, NEW k \in Nat, TableBelow(w, k), NEW e, DOMAIN e = EntryFields,
           NEW follow, NEW i
    PROVE  /\ DOMAIN Stat(w, e, follow, i, k) = EntryFields
           /\ Stat(w, e, follow, i, k).instr = e.instr
           /\ Sound(w, Stat(w, e, follow, i, k), k)
<1> DEFINE t     == IF w.logical \/ follow THEN Deref(i) ELSE i
           found == EntryFor(w, t, k)
           seen  == [e EXCEPT !.stat = t]
           r     == Stat(w, e, follow, i, k)
<1> HIDE DEF t
<1>1. IF found = NoCycle THEN \A j \in 1..k : w.frames[j].ent.ino # t
      ELSE found \in 0..k - 1 /\ w.frames[found + 1].ent.ino = t
  BY EntryForIs
<1>2. r \in {[Failed(e, "NS") EXCEPT !.stat = None], [e EXCEPT !.info = "SLNONE", !.stat = i],
             [seen EXCEPT !.info = "SL"], [seen EXCEPT !.info = "F"]}
      \/ (found = NoCycle /\ r = [seen EXCEPT !.info = "D", !.ino = t])
      \/ (found # NoCycle /\ r = [seen EXCEPT !.info = "DC", !.ino = t, !.cycle = found])
  <2> HIDE DEF found
  <2> QED
    BY DEF Stat, found, t
<1> HIDE DEF r, found
<1>3. CASE r \in {[Failed(e, "NS") EXCEPT !.stat = None], [e EXCEPT !.info = "SLNONE", !.stat = i],
                  [seen EXCEPT !.info = "SL"], [seen EXCEPT !.info = "F"]}
  <2>1. DOMAIN r = EntryFields /\ r.instr = e.instr
    BY <1>3 DEF Failed, EntryFields
  <2>2. r.info \in {"NS", "SLNONE", "SL", "F"}
    BY <1>3 DEF Failed, EntryFields
  <2> QED
    BY <2>1, <2>2 DEF Sound, r
<1>4. CASE found = NoCycle /\ r = [seen EXCEPT !.info = "D", !.ino = t]
  <2>1. DOMAIN r = EntryFields /\ r.instr = e.instr /\ r.info = "D" /\ r.ino = t
    BY <1>4 DEF EntryFields
  <2> QED
    BY <1>1, <1>4, <2>1 DEF Sound, r
<1>5. CASE found # NoCycle /\ r = [seen EXCEPT !.info = "DC", !.ino = t, !.cycle = found]
  <2>1. DOMAIN r = EntryFields /\ r.instr = e.instr /\ r.info = "DC" /\ r.ino = t /\ r.cycle = found
    BY <1>5 DEF EntryFields
  <2> QED
    BY <1>1, <1>5, <2>1 DEF Sound, r
<1> QED
  BY <1>2, <1>3, <1>4, <1>5

LEMMA StatCurInv ==
    ASSUME NEW w, CycleInv(w), w.frames # <<>>, Untabled(w), Cur(w).instr # "again",
           NEW follow, NEW f
    PROVE  /\ Kept(w, StatCur(w, follow, f))
           /\ Cur(StatCur(w, follow, f)).instr = Cur(w).instr
<1> DEFINE i == IF f = "stat" THEN None ELSE Resolve(w.cwd, AccPath(w, Cur(w)))
           e == Stat(w, Cur(w), follow, i, Level(w))
<1>1. StatCur(w, follow, f) = SetCur(w, e)
  BY DEF StatCur
<1>2. /\ Level(w) \in Nat /\ Level(w) = Len(w.frames) - 1 /\ DOMAIN Cur(w) = EntryFields
      /\ Cur(w) = w.frames[Len(w.frames)].ent
  BY CurIs DEF CycleInv
<1>3. ASSUME NEW t \in DOMAIN w.cycles
      PROVE  w.cycles[t] \in 0..Level(w) - 1 /\ w.frames[w.cycles[t] + 1].ent.ino = t
  <2>1. Entered(w, t)
    BY DEF CycleInv, SoundTable
  <2>2. w.cycles[t] # Level(w)
    BY DEF Untabled
  <2> QED
    BY <1>2, <2>1, <2>2 DEF Entered
<1>4. DOMAIN e = EntryFields /\ e.instr = Cur(w).instr /\ Sound(w, e, Level(w))
  <2>1. TableBelow(w, Level(w))
    BY <1>3 DEF TableBelow
  <2> QED
    BY <1>2, <2>1, StatIs
<1> HIDE DEF e
<1>5. Replaced(w, SetCur(w, e), e)
  BY <1>4, SetCurIs DEF CycleInv
<1>6. CycleInv(SetCur(w, e))
  BY <1>4, <1>5, RestatInv
<1> QED
  BY <1>1, <1>4, <1>5, <1>6 DEF Kept, Replaced

LEMMA NoinstrInv ==
    ASSUME NEW w, CycleInv(w), w.frames # <<>>
    PROVE  /\ Kept(w, Noinstr(w)) /\ Cur(Noinstr(w)).instr = "none"
           /\ Cur(Noinstr(w)).info = Cur(w).info /\ Cur(Noinstr(w)).ino = Cur(w).ino
<1> DEFINE e == [Cur(w) EXCEPT !.instr = "none"]
<1>1. DOMAIN Cur(w) = EntryFields
  BY CurIs DEF CycleInv
<1>2. DOMAIN e = EntryFields /\ e.instr = "none" /\ e.info = Cur(w).info /\ e.ino = Cur(w).ino
      /\ e.cycle = Cur(w).cycle
  BY <1>1 DEF EntryFields
<1> HIDE DEF e
<1>3. Alters(Cur(w), e)
  BY <1>2 DEF Alters, IsDirectory
<1>4. w.child.state = "live" => e.info = "D"
  BY <1>2 DEF CycleInv, SoundChild
<1>5. Noinstr(w) = SetCur(w, e)
  BY DEF Noinstr, e
<1> QED
  BY <1>2, <1>3, <1>4, <1>5, AlterCur

LEMMA CloseSymInv ==
    ASSUME NEW w, CycleInv(w), w.frames # <<>>
    PROVE  Kept(w, CloseSym(w)) /\ Cur(CloseSym(w)).info = Cur(w).info
           /\ Cur(CloseSym(w)).ino = Cur(w).ino /\ Cur(CloseSym(w)).instr = Cur(w).instr
<1> DEFINE v == [w EXCEPT !.twice = @ \/ Cur(w).sym = "closed"]
           e == [Cur(w) EXCEPT !.sym = "closed"]
<1>1. DOMAIN Cur(w) = EntryFields
  BY CurIs DEF CycleInv
<1>2. /\ DOMAIN v = Fields /\ v.frames = w.frames /\ v.cycles = w.cycles
      /\ v.child = w.child /\ v.ub = w.ub
  BY DEF CycleInv, Shaped, Fields
<1> HIDE DEF v
<1>3. CycleInv(v) /\ Cur(v) = Cur(w) /\ v.frames # <<>>
  BY <1>2, SameEntries
<1>4. DOMAIN e = EntryFields /\ e.instr = Cur(w).instr /\ e.info = Cur(w).info
      /\ e.ino = Cur(w).ino /\ e.cycle = Cur(w).cycle
  BY <1>1 DEF EntryFields
<1> HIDE DEF e
<1>5. Cur(w).instr = "again" => ~IsDirectory(Cur(w))
  BY CurIs DEF CycleInv, SoundFrames
<1>6. Alters(Cur(v), e)
  BY <1>3, <1>4, <1>5 DEF Alters, IsDirectory
<1>7. v.child.state = "live" => e.info = "D"
  BY <1>2, <1>4 DEF CycleInv, SoundChild
<1>8. Kept(v, SetCur(v, e)) /\ Cur(SetCur(v, e)) = e
  BY <1>3, <1>6, <1>7, AlterCur
<1>9. CloseSym(w) = w \/ CloseSym(w) = SetCur(v, e)
  BY DEF CloseSym, v, e
<1> QED
  BY <1>2, <1>4, <1>8, <1>9 DEF Kept

LEMMA FollowCurInv ==
    ASSUME NEW w, CycleInv(w), w.frames # <<>>, Untabled(w), Cur(w).instr # "again", NEW f
    PROVE  Kept(w, FollowCur(w, f))
<1> DEFINE r  == StatCur(w, TRUE, f)
           e  == Cur(r)
           d  == Drop(r, e)
           e1 == Failed(e, "ERR")
           e2 == [e EXCEPT !.sym = "open", !.symdir = w.cwd]
<1>1. Kept(w, r) /\ e.instr # "again"
  BY StatCurInv
<1>2. FollowCur(w, f) = r \/ (e.info = "D" /\ FollowCur(w, f) \in {SetCur(r, e1), SetCur(d, e2)})
  BY DEF FollowCur
<1> HIDE DEF r
<1>3. w.child.state # "live"
  BY DEF Untabled
<1>4. DOMAIN e = EntryFields
  BY <1>1, CurIs DEF Kept, CycleInv
<1> HIDE DEF e
<1>5. CASE e.info = "D" /\ FollowCur(w, f) = SetCur(r, e1)
  <2>1. DOMAIN e1 = EntryFields /\ e1.info = "ERR" /\ e1.ino = e.ino /\ e1.instr = e.instr
    BY <1>4 DEF Failed, EntryFields
  <2> HIDE DEF e1
  <2>2. Alters(Cur(r), e1)
    BY <1>1, <2>1 DEF Alters, IsDirectory, e
  <2>3. Kept(r, SetCur(r, e1))
    BY <1>1, <1>3, <2>2, AlterCur DEF Kept
  <2> QED
    BY <1>1, <1>5, <2>3 DEF Kept
<1>6. CASE e.info = "D" /\ FollowCur(w, f) = SetCur(d, e2)
  <2>1. DOMAIN e2 = EntryFields /\ e2.info = e.info /\ e2.ino = e.ino /\ e2.instr = e.instr
        /\ e2.cycle = e.cycle
    BY <1>4 DEF EntryFields
  <2> HIDE DEF e2
  <2>2. DOMAIN d = Fields /\ d.frames = r.frames /\ d.cycles = r.cycles /\ d.child = r.child /\ d.ub = r.ub
    BY <1>1 DEF Kept, CycleInv, Shaped, Fields, Drop
  <2> HIDE DEF d
  <2>3. CycleInv(d) /\ Cur(d) = e /\ d.frames # <<>>
    BY <1>1, <2>2, SameEntries DEF Kept, e
  <2>4. Alters(Cur(d), e2)
    BY <1>1, <2>1, <2>3 DEF Alters, IsDirectory
  <2>5. Kept(d, SetCur(d, e2))
    BY <1>1, <1>3, <2>2, <2>3, <2>4, AlterCur DEF Kept
  <2> QED
    BY <1>1, <1>6, <2>2, <2>5 DEF Kept
<1> QED
  BY <1>1, <1>2, <1>5, <1>6
----------------------------------------------------------------------------
(* The table and the list of fts_children.                                 *)

\* v is w with fewer directories in its table.
Popped(w, v) ==
    /\ DOMAIN v = Fields /\ v.frames = w.frames /\ v.ub = w.ub
    /\ DOMAIN v.cycles \subseteq DOMAIN w.cycles
    /\ \A i \in DOMAIN v.cycles : v.cycles[i] = w.cycles[i]
    /\ DOMAIN v.child = DOMAIN w.child
    /\ v.child.state = w.child.state /\ v.child.list = w.child.list

LEMMA CyclePushInv ==
    ASSUME NEW w, CycleInv(w), w.frames # <<>>, Cur(w).info = "D"
    PROVE  LET v == CyclePush(w)
           IN  /\ CycleInv(v) /\ v.frames = w.frames /\ v.child = w.child /\ v.ub = w.ub
               /\ Cur(w).ino \in DOMAIN v.cycles
<1> DEFINE v == CyclePush(w)
           i0 == Cur(w).ino
<1>1. /\ DOMAIN v = Fields /\ v.frames = w.frames /\ v.child = w.child /\ v.ub = w.ub
      /\ v.cycles = [i \in DOMAIN w.cycles \cup {i0} |->
                        IF i \in DOMAIN w.cycles THEN w.cycles[i] ELSE Level(w)]
  BY DEF CyclePush, CycleInv, Shaped, Fields
<1> HIDE DEF v
<1>2. Cur(v) = Cur(w) /\ Level(v) = Level(w)
  BY <1>1 DEF Cur, Level
<1>3. /\ Len(w.frames) \in Nat \ {0} /\ Level(w) = Len(w.frames) - 1
      /\ Cur(w) = w.frames[Len(w.frames)].ent
  BY CurIs DEF CycleInv
<1>4. SoundFrames(v)
  BY <1>1, FramesSound DEF CycleInv
<1>5. SoundTable(v)
  <2> SUFFICES ASSUME NEW i \in DOMAIN v.cycles PROVE Entered(v, i)
    BY DEF SoundTable
  <2>1. CASE i \in DOMAIN w.cycles
    <3>1. Entered(w, i) /\ v.cycles[i] = w.cycles[i]
      BY <1>1, <2>1 DEF CycleInv, SoundTable
    <3> QED
      BY <1>1, <1>2, <3>1 DEF Entered
  <2>2. CASE i \notin DOMAIN w.cycles
    <3>1. i = i0 /\ v.cycles[i] = Level(w)
      BY <1>1, <2>2
    <3>2. Level(w) \in 0..Level(w) /\ Level(w) + 1 = Len(w.frames)
      BY <1>3
    <3> QED
      BY <1>1, <1>2, <1>3, <3>1, <3>2 DEF Entered, IsDirectory
  <2> QED
    BY <2>1, <2>2
<1>6. SoundChild(v)
  <2>1. DOMAIN w.cycles \subseteq DOMAIN v.cycles
    BY <1>1
  <2>2. ASSUME v.child.state = "live"
        PROVE  /\ v.frames # <<>> /\ Cur(v).info = "D" /\ Cur(v).ino \in DOMAIN v.cycles
               /\ v.child.list # <<>> /\ SoundList(w, v.child.list, Len(v.frames))
    BY <1>1, <1>2, <2>1, <2>2 DEF CycleInv, SoundChild
  <2>3. ASSUME NEW list, NEW k, SoundList(w, list, k) PROVE SoundList(v, list, k)
    BY <1>1, <2>3 DEF SoundList, Sound
  <2> QED
    BY <2>2, <2>3 DEF SoundChild
<1>7. i0 \in DOMAIN v.cycles
  BY <1>1
<1> QED
  BY <1>1, <1>4, <1>5, <1>6, <1>7 DEF CycleInv, Shaped, v

LEMMA PoppedInv ==
    ASSUME NEW w, CycleInv(w), NEW v, Popped(w, v), w.child.state # "live"
    PROVE  CycleInv(v) /\ Cur(v) = Cur(w) /\ Level(v) = Level(w) /\ (Untabled(w) => Untabled(v))
<1>1. Cur(v) = Cur(w) /\ Level(v) = Level(w)
  BY DEF Popped, Cur, Level
<1>2. SoundFrames(v)
  BY FramesSound DEF Popped, CycleInv
<1>3. SoundTable(v)
  BY <1>1 DEF Popped, CycleInv, SoundTable, Entered
<1>4. SoundChild(v)
  BY DEF Popped, SoundChild
<1>5. Shaped(v)
  BY DEF Popped, CycleInv, Shaped
<1> QED
  BY <1>1, <1>2, <1>3, <1>4, <1>5 DEF CycleInv, Untabled, Popped

LEMMA CyclePopIs ==
    ASSUME NEW w, DOMAIN w = Fields, NEW entries
    PROVE  LET v == CyclePop(w, entries)
           IN  /\ Popped(w, v) /\ v.child = w.child
               /\ \A e \in entries : IsDirectory(e) => e.ino \notin DOMAIN v.cycles
<1> DEFINE v == CyclePop(w, entries)
           gone == {e.ino : e \in {x \in entries : IsDirectory(x)}}
<1>1. /\ DOMAIN v = Fields /\ v.frames = w.frames /\ v.ub = w.ub /\ v.child = w.child
      /\ v.cycles = [i \in DOMAIN w.cycles \ gone |-> w.cycles[i]]
  BY DEF CyclePop, Fields
<1>2. \A e \in entries : IsDirectory(e) => e.ino \in gone
  OBVIOUS
<1> HIDE DEF v, gone
<1> QED
  BY <1>1, <1>2 DEF Popped, v

LEMMA FreeInv ==
    ASSUME NEW w, CycleInv(w), w.frames # <<>>, Cur(w).info # "D"
    PROVE  CycleInv(Free(w)) /\ Popped(w, Free(w)) /\ Untabled(Free(w))
<1> DEFINE q == CyclePop(w, {Cur(w)})
           r == Drop(q, Cur(w))
           v == Free(w)
<1>1. w.child.state # "live"
  BY DEF CycleInv, SoundChild
<1>2. Popped(w, q) /\ (IsDirectory(Cur(w)) => Cur(w).ino \notin DOMAIN q.cycles)
  BY CyclePopIs DEF CycleInv, Shaped
<1> HIDE DEF q
<1>3. Popped(w, r) /\ r.cycles = q.cycles
  BY <1>2 DEF Popped, Drop, Fields
<1>4. v = [r EXCEPT
          !.cycles = [i \in DOMAIN @ |-> IF @[i] = Level(w) THEN Dangling ELSE @[i]],
          !.child.state = IF @ = "live" THEN "orphan" ELSE @]
  BY DEF Free, r, q
<1> HIDE DEF r, v
<1>5. \A i \in DOMAIN r.cycles : r.cycles[i] # Level(w)
  <2> SUFFICES ASSUME NEW i \in DOMAIN r.cycles, w.cycles[i] = Level(w) PROVE FALSE
    BY <1>3 DEF Popped
  <2>1. Entered(w, i)
    BY <1>3 DEF CycleInv, SoundTable, Popped
  <2>2. Level(w) + 1 = Len(w.frames) /\ Cur(w) = w.frames[Len(w.frames)].ent
    BY CurIs DEF CycleInv
  <2>3. Cur(w).ino = i /\ IsDirectory(Cur(w))
    BY <2>1, <2>2 DEF Entered
  <2> QED
    BY <1>2, <1>3, <2>3
<1>6. /\ DOMAIN v = Fields /\ v.frames = r.frames /\ v.ub = r.ub
      /\ DOMAIN v.cycles = DOMAIN r.cycles
      /\ \A i \in DOMAIN r.cycles : v.cycles[i] = r.cycles[i]
  BY <1>3, <1>4, <1>5 DEF Popped, Fields
<1>7. DOMAIN v.child = DOMAIN r.child /\ v.child.state = r.child.state /\ v.child.list = r.child.list
  <2>1. DOMAIN r.child = {"state", "list"} /\ r.child.state # "live"
    BY <1>1, <1>3 DEF Popped, CycleInv, Shaped
  <2>2. v.child = [r.child EXCEPT !.state = IF r.child.state = "live" THEN "orphan" ELSE r.child.state]
    BY <1>3, <1>4 DEF Popped, Fields
  <2> QED
    BY <2>1, <2>2
<1>8. Popped(w, v)
  BY <1>3, <1>6, <1>7 DEF Popped
<1>9. CycleInv(v) /\ Level(v) = Level(w)
  BY <1>1, <1>8, PoppedInv
<1>10. Untabled(v)
  BY <1>1, <1>5, <1>6, <1>8, <1>9 DEF Untabled, Popped
<1> QED
  BY <1>8, <1>9, <1>10 DEF v

LEMMA FreeUpToInv ==
    ASSUME NEW w, CycleInv(w), w.frames # <<>>, Cur(w).info # "D", NEW list
    PROVE  /\ CycleInv(FreeUpTo(w, list)) /\ Popped(w, FreeUpTo(w, list))
           /\ Untabled(FreeUpTo(w, list))
<1> DEFINE v == Free(w)
           u == CyclePop(v, Range(list))
<1>1. CycleInv(v) /\ Popped(w, v) /\ Untabled(v)
  BY FreeInv
<1> HIDE DEF v
<1>2. Popped(v, u)
  BY <1>1, CyclePopIs DEF CycleInv, Shaped
<1> HIDE DEF u
<1>3. v.child.state # "live"
  BY <1>1 DEF Untabled
<1>4. CycleInv(u) /\ Untabled(u)
  BY <1>1, <1>2, <1>3, PoppedInv
<1>5. Popped(w, u)
  BY <1>1, <1>2 DEF Popped
<1> QED
  BY <1>4, <1>5 DEF FreeUpTo, u, v

LEMMA NoList == IsList(<<>>) /\ DOMAIN NoChild = {"state", "list"} /\ NoChild.state = "none"
                /\ NoChild.list = <<>>
<1>1. <<>> \in Seq({}) /\ Len(<<>>) = 0
  BY EmptySeq
<1>2. IsSeq(<<>>) /\ DOMAIN <<>> = 1..0
  BY <1>1, InSeq, LenProperties
<1> QED
  BY <1>2 DEF IsList, NoChild

\* v is w without its list.
LEMMA ChildGone ==
    ASSUME NEW w, CycleInv(w), NEW v, DOMAIN v = Fields, v.frames = w.frames,
           v.cycles = w.cycles, DOMAIN v.child = {"state", "list"}, v.child.state # "live",
           IsList(v.child.list)
    PROVE  CycleInv(v) /\ Cur(v) = Cur(w) /\ Level(v) = Level(w)
<1>1. Cur(v) = Cur(w) /\ Level(v) = Level(w)
  BY DEF Cur, Level
<1>2. SoundFrames(v)
  BY FramesSound DEF CycleInv
<1>3. SoundTable(v)
  BY <1>1 DEF CycleInv, SoundTable, Entered
<1>4. SoundChild(v)
  BY DEF SoundChild
<1> QED
  BY <1>1, <1>2, <1>3, <1>4 DEF CycleInv, Shaped

LEMMA FreeChildInv ==
    ASSUME NEW w, CycleInv(w)
    PROVE  LET v == FreeChild(w)
           IN  /\ CycleInv(v) /\ v.frames = w.frames /\ v.cycles = w.cycles
               /\ DOMAIN v = Fields /\ v.child.state # "live"
               /\ (w.child.state = "none" => v = w)
               /\ (w.child.state # "freed" /\ ~w.ub => ~v.ub)
<1> DEFINE v == FreeChild(w)
<1>1. DOMAIN w = Fields
  BY DEF CycleInv, Shaped
<1>2. CASE w.child.state = "none"
  <2>1. v = w
    BY <1>2 DEF FreeChild
  <2> QED
    BY <1>1, <1>2, <2>1
<1>3. CASE w.child.state # "none"
  <2>1. /\ DOMAIN v = Fields /\ v.frames = w.frames /\ v.cycles = w.cycles
        /\ v.child = [state |-> "freed", list |-> <<>>]
        /\ v.ub = (w.ub \/ w.child.state = "freed")
    BY <1>1, <1>3 DEF FreeChild, Fields
  <2> HIDE DEF v
  <2>2. DOMAIN v.child = {"state", "list"} /\ v.child.state = "freed" /\ v.child.list = <<>>
    BY <2>1
  <2>3. CycleInv(v)
    BY <2>1, <2>2, NoList, ChildGone
  <2>4. v.child.state # "live"
    BY <2>2
  <2>5. w.child.state # "freed" /\ ~w.ub => ~v.ub
    BY <2>1
  <2> QED
    BY <1>3, <2>1, <2>3, <2>4, <2>5 DEF v
<1> QED
  BY <1>2, <1>3

LEMMA DropListInv ==
    ASSUME NEW w, CycleInv(w)
    PROVE  LET v == DropList(w)
           IN  /\ CycleInv(v) /\ v.frames = w.frames /\ v.cycles = w.cycles
               /\ v.child = NoChild /\ (w.child.state # "freed" /\ ~w.ub => ~v.ub)
<1> DEFINE u == FreeChild(w)
           v == DropList(w)
<1>1. /\ CycleInv(u) /\ u.frames = w.frames /\ u.cycles = w.cycles /\ DOMAIN u = Fields
      /\ (w.child.state # "freed" /\ ~w.ub => ~u.ub)
  BY FreeChildInv
<1>2. v = [u EXCEPT !.child = NoChild]
  BY DEF DropList
<1> HIDE DEF u, v
<1>3. /\ DOMAIN v = Fields /\ v.frames = u.frames /\ v.cycles = u.cycles /\ v.child = NoChild
      /\ v.ub = u.ub
  BY <1>1, <1>2 DEF Fields
<1>4. CycleInv(v)
  BY <1>1, <1>3, NoList, ChildGone
<1> QED
  BY <1>1, <1>3, <1>4 DEF v

LEMMA DropNamesInv ==
    ASSUME NEW w, CycleInv(w)
    PROVE  LET v == DropNames(w)
           IN  /\ CycleInv(v) /\ v.frames = w.frames /\ v.cycles = w.cycles
               /\ v.child = NoChild \/ v.child = w.child
               /\ (w.child.state # "freed" /\ ~w.ub => ~v.ub)
<1> DEFINE u == DropList(w)
           v == DropNames(w)
<1>1. /\ CycleInv(u) /\ u.frames = w.frames /\ u.cycles = w.cycles /\ u.child = NoChild
      /\ (w.child.state # "freed" /\ ~w.ub => ~u.ub)
  BY DropListInv
<1>2. v = w \/ v = [u EXCEPT !.nameonly = FALSE]
  BY DEF DropNames
<1> HIDE DEF u, v
<1>3. CASE v = w
  BY <1>3 DEF v
<1>4. CASE v = [u EXCEPT !.nameonly = FALSE]
  <2>1. /\ DOMAIN v = Fields /\ v.frames = u.frames /\ v.cycles = u.cycles /\ v.child = u.child
        /\ v.ub = u.ub
    BY <1>1, <1>4 DEF CycleInv, Shaped, Fields
  <2>2. CycleInv(v)
    BY <1>1, <2>1, SameEntries
  <2> QED
    BY <1>1, <2>1, <2>2 DEF v
<1> QED
  BY <1>2, <1>3, <1>4
----------------------------------------------------------------------------
(* The frames that a call leaves and comes to.                             *)

\* Another entry of the list of fts_cur takes its place: v is w with one of the
\* entries after fts_cur as fts_cur, and others of them after it.
MovedOn(w, v) ==
    /\ DOMAIN v = Fields /\ IsSeq(v.frames) /\ Len(v.frames) = Len(w.frames)
    /\ \A k \in 1..Level(w) : v.frames[k] = w.frames[k]
    /\ IsFrame(v.frames[Len(w.frames)])
    /\ \E j \in DOMAIN Rest(w) : v.frames[Len(w.frames)].ent = Rest(w)[j]
    /\ \A j \in DOMAIN v.frames[Len(w.frames)].rest :
          \E i \in DOMAIN Rest(w) : v.frames[Len(w.frames)].rest[j] = Rest(w)[i]
    /\ v.cycles = w.cycles /\ v.child = w.child /\ v.ub = w.ub

LEMMA MovedOnInv ==
    ASSUME NEW w, CycleInv(w), w.frames # <<>>, Untabled(w), NEW v, MovedOn(w, v)
    PROVE  CycleInv(v) /\ v.frames # <<>> /\ Cur(v).instr # "again" /\ Untabled(v)
<1> DEFINE n == Len(w.frames)
<1>1. /\ n \in Nat \ {0} /\ DOMAIN w.frames = 1..n /\ Level(w) = n - 1
      /\ Rest(w) = w.frames[n].rest
  BY CurIs DEF CycleInv
<1>2. DOMAIN v.frames = 1..n /\ v.frames # <<>> /\ Len(v.frames) = n
  BY <1>1, SeqIs DEF MovedOn
<1>3. \A k \in 1..n - 1 : v.frames[k] = w.frames[k]
  BY <1>1 DEF MovedOn
<1>4. Shaped(v)
  <2>1. ASSUME NEW k \in 1..n PROVE IsFrame(v.frames[k])
    <3>1. CASE k = n
      BY <3>1 DEF MovedOn
    <3>2. CASE k # n
      <4>1. k \in 1..n - 1 /\ k \in DOMAIN w.frames
        BY <1>1, <3>2
      <4>2. IsFrame(w.frames[k])
        BY <4>1 DEF CycleInv, Shaped
      <4> QED
        BY <1>3, <4>1, <4>2
    <3> QED
      BY <3>1, <3>2
  <2> QED
    BY <1>2, <2>1 DEF MovedOn, CycleInv, Shaped
<1>5. Cur(v) = v.frames[n].ent /\ Level(v) = n - 1
  BY <1>2, <1>4, CurIs
<1>6. SoundList(w, Rest(w), n - 1)
  BY <1>1 DEF CycleInv, SoundFrames
<1>7. \A j \in 1..n - 1 : v.frames[j].ent.ino = w.frames[j].ent.ino
  BY <1>3
<1>8. \A j \in DOMAIN Rest(w) : Sound(v, Rest(w)[j], n - 1) /\ Rest(w)[j].instr # "again"
  <2>1. SoundList(v, Rest(w), n - 1)
    BY <1>1, <1>6, <1>7, SoundListSame
  <2> QED
    BY <2>1 DEF SoundList
<1>9. Sound(v, v.frames[n].ent, n - 1) /\ v.frames[n].ent.instr # "again"
  BY <1>8 DEF MovedOn
<1>10. SoundList(v, v.frames[n].rest, n - 1)
  BY <1>8 DEF MovedOn, SoundList
<1>11. SoundFrames(v)
  <2>1. ASSUME NEW k \in 1..n - 1
        PROVE  /\ v.frames[k].ent.info = "D"
               /\ v.frames[k].ent.instr = "again" => ~IsDirectory(v.frames[k].ent)
               /\ Sound(v, v.frames[k].ent, k - 1)
               /\ SoundList(v, v.frames[k].rest, k - 1)
    <3>1. k \in DOMAIN w.frames /\ k < n /\ v.frames[k] = w.frames[k]
      BY <1>1, <1>3
    <3>2. /\ w.frames[k].ent.info = "D"
          /\ w.frames[k].ent.instr = "again" => ~IsDirectory(w.frames[k].ent)
          /\ Sound(w, w.frames[k].ent, k - 1)
          /\ SoundList(w, w.frames[k].rest, k - 1)
      BY <3>1 DEF CycleInv, SoundFrames
    <3>3. k - 1 \in Int /\ \A j \in 1..k - 1 : v.frames[j].ent.ino = w.frames[j].ent.ino
      BY <1>7
    <3>4. Sound(v, w.frames[k].ent, k - 1)
      BY <3>2, <3>3, SoundSame
    <3>5. SoundList(v, w.frames[k].rest, k - 1)
      BY <3>2, <3>3, SoundListSame
    <3> QED
      BY <3>1, <3>2, <3>4, <3>5
  <2>2. ASSUME NEW k \in DOMAIN v.frames, k \notin 1..n - 1 PROVE k = n
    BY <1>1, <1>2, <2>2
  <2> QED
    BY <1>1, <1>2, <1>9, <1>10, <2>1, <2>2 DEF SoundFrames
<1>12. SoundTable(v)
  <2> SUFFICES ASSUME NEW i \in DOMAIN w.cycles PROVE Entered(v, i)
    BY DEF SoundTable, MovedOn
  <2>1. Entered(w, i) /\ w.cycles[i] # n - 1
    BY <1>1 DEF CycleInv, SoundTable, Untabled
  <2>4. w.cycles[i] \in 0..n - 1
    BY <1>1, <2>1 DEF Entered
  <2>2. w.cycles[i] + 1 \in 1..n - 1 /\ w.cycles[i] \in 0..n - 1
    BY <1>1, <2>1, <2>4
  <2>3. v.frames[w.cycles[i] + 1] = w.frames[w.cycles[i] + 1] /\ v.cycles = w.cycles
    BY <1>3, <2>2 DEF MovedOn
  <2> QED
    BY <1>5, <2>1, <2>2, <2>3 DEF Entered
<1>13. SoundChild(v) /\ Untabled(v)
  BY <1>1, <1>5 DEF SoundChild, MovedOn, Untabled
<1> QED
  BY <1>2, <1>4, <1>5, <1>9, <1>11, <1>12, <1>13 DEF CycleInv

\* fts_cur is the last entry of its directory, which becomes fts_cur.
LEMMA FrontInv ==
    ASSUME NEW w, CycleInv(w), w.frames # <<>>, Untabled(w), Level(w) > 0, NEW v, DOMAIN v = Fields, v.frames = Front(w.frames),
           v.cycles = w.cycles, v.child = w.child
    PROVE  CycleInv(v) /\ v.frames # <<>> /\ Cur(v).info = "D"
<1> DEFINE n == Len(w.frames)
<1>1. n \in Nat \ {0} /\ DOMAIN w.frames = 1..n /\ Level(w) = n - 1 /\ n - 1 \in Nat \ {0}
  BY CurIs DEF CycleInv
<1>2. /\ IsSeq(v.frames) /\ Len(v.frames) = n - 1
      /\ \A k \in 1..n - 1 : v.frames[k] = w.frames[k]
  <2>1. IsSeq(w.frames)
    BY DEF CycleInv, Shaped
  <2>2. v.frames = SubSeq(w.frames, 1, n - 1)
    BY DEF Front
  <2>3. /\ IsSeq(SubSeq(w.frames, 1, n - 1)) /\ Len(SubSeq(w.frames, 1, n - 1)) = n - 1 - 1 + 1
        /\ \A j \in 1..n - 1 - 1 + 1 : SubSeq(w.frames, 1, n - 1)[j] = w.frames[1 + j - 1]
    BY <1>1, <2>1, SeqPart
  <2> QED
    BY <1>1, <2>2, <2>3
<1>3. DOMAIN v.frames = 1..n - 1 /\ v.frames # <<>>
  BY <1>1, <1>2, SeqIs
<1>4. Shaped(v)
  <2>1. ASSUME NEW k \in 1..n - 1 PROVE IsFrame(v.frames[k])
    BY <1>1, <1>2 DEF CycleInv, Shaped
  <2> QED
    BY <1>2, <1>3, <2>1 DEF CycleInv, Shaped
<1>5. Cur(v) = w.frames[n - 1].ent /\ Level(v) = n - 2
  BY <1>1, <1>2, <1>3, <1>4, CurIs
<1>6. Cur(v).info = "D"
  BY <1>1, <1>5 DEF CycleInv, SoundFrames
<1>7. SoundFrames(v)
  <2>1. ASSUME NEW k \in 1..n - 1
        PROVE  /\ v.frames[k].ent.info = "D"
               /\ v.frames[k].ent.instr = "again" => ~IsDirectory(v.frames[k].ent)
               /\ Sound(v, v.frames[k].ent, k - 1)
               /\ SoundList(v, v.frames[k].rest, k - 1)
    <3>1. k \in DOMAIN w.frames /\ k < n /\ v.frames[k] = w.frames[k]
      BY <1>1, <1>2
    <3>2. /\ w.frames[k].ent.info = "D"
          /\ w.frames[k].ent.instr = "again" => ~IsDirectory(w.frames[k].ent)
          /\ Sound(w, w.frames[k].ent, k - 1)
          /\ SoundList(w, w.frames[k].rest, k - 1)
      BY <3>1 DEF CycleInv, SoundFrames
    <3>6. k - 1 \in Int /\ \A j \in 1..k - 1 : j \in 1..n - 1
      BY <1>1
    <3>3. k - 1 \in Int /\ \A j \in 1..k - 1 : v.frames[j].ent.ino = w.frames[j].ent.ino
      BY <1>2, <3>6
    <3>4. Sound(v, w.frames[k].ent, k - 1)
      BY <3>2, <3>3, SoundSame
    <3>5. SoundList(v, w.frames[k].rest, k - 1)
      BY <3>2, <3>3, SoundListSame
    <3> QED
      BY <3>1, <3>2, <3>4, <3>5
  <2> QED
    BY <1>3, <2>1 DEF SoundFrames
<1>8. SoundTable(v)
  <2> SUFFICES ASSUME NEW i \in DOMAIN w.cycles PROVE Entered(v, i)
    BY DEF SoundTable
  <2>1. Entered(w, i) /\ w.cycles[i] # n - 1
    BY <1>1 DEF CycleInv, SoundTable, Untabled
  <2>4. w.cycles[i] \in 0..n - 1
    BY <1>1, <2>1 DEF Entered
  <2>2. w.cycles[i] + 1 \in 1..n - 1 /\ w.cycles[i] \in 0..n - 2
    BY <1>1, <2>1, <2>4
  <2>3. v.frames[w.cycles[i] + 1] = w.frames[w.cycles[i] + 1]
    BY <1>2, <2>2
  <2> QED
    BY <1>5, <2>1, <2>2, <2>3 DEF Entered
<1>9. SoundChild(v)
  BY DEF SoundChild, Untabled
<1> QED
  BY <1>3, <1>4, <1>6, <1>7, <1>8, <1>9 DEF CycleInv

\* No entry is left.
LEMMA NoFrames ==
    ASSUME NEW v, DOMAIN v = Fields, v.frames = <<>>, DOMAIN v.cycles = {},
           DOMAIN v.child = {"state", "list"}, IsList(v.child.list), v.child.state # "live"
    PROVE  CycleInv(v)
<1>1. IsSeq(<<>>) /\ DOMAIN <<>> = {}
  BY NoList, SeqIs DEF IsList
<1> QED
  BY <1>1 DEF CycleInv, Shaped, SoundFrames, SoundTable, SoundChild

LEMMA NamedInv ==
    ASSUME NEW w, CycleInv(w), w.frames # <<>> PROVE Kept(w, Named(w))
<1> DEFINE v == Named(w)
<1>1. /\ DOMAIN v = Fields /\ v.frames = w.frames /\ v.cycles = w.cycles /\ v.child = w.child
      /\ v.ub = w.ub
  BY DEF Named, CycleInv, Shaped, Fields
<1> HIDE DEF v
<1>2. CycleInv(v)
  BY <1>1, SameEntries
<1> QED
  BY <1>1, <1>2 DEF Kept, v

LEMMA LoadInv ==
    ASSUME NEW w, CycleInv(w), w.frames # <<>> PROVE Kept(w, Load(w))
<1> DEFINE v == [w EXCEPT !.path = Cur(w).acc]
           e == [Cur(w) EXCEPT !.acc = Buffer]
<1>1. /\ DOMAIN v = Fields /\ v.frames = w.frames /\ v.cycles = w.cycles /\ v.child = w.child
      /\ v.ub = w.ub
  BY DEF CycleInv, Shaped, Fields
<1>2. Load(w) = SetCur(v, e)
  BY DEF Load
<1> HIDE DEF v
<1>3. CycleInv(v) /\ Cur(v) = Cur(w) /\ v.frames # <<>>
  BY <1>1, SameEntries
<1>4. DOMAIN Cur(w) = EntryFields /\ (Cur(w).instr = "again" => ~IsDirectory(Cur(w)))
  BY CurIs DEF CycleInv, SoundFrames
<1>5. DOMAIN e = EntryFields /\ e.info = Cur(w).info /\ e.ino = Cur(w).ino /\ e.cycle = Cur(w).cycle
      /\ e.instr = Cur(w).instr
  BY <1>4 DEF EntryFields
<1> HIDE DEF e
<1>6. Alters(Cur(v), e)
  BY <1>3, <1>4, <1>5 DEF Alters, IsDirectory
<1>7. v.child.state = "live" => e.info = "D"
  BY <1>1, <1>5 DEF CycleInv, SoundChild
<1>8. Kept(v, SetCur(v, e))
  BY <1>3, <1>6, <1>7, AlterCur
<1> QED
  BY <1>1, <1>2, <1>8 DEF Kept

\* From a directory into a list of its entries.
LEMMA EnterInv ==
    ASSUME NEW w, CycleInv(w), w.frames # <<>>, Cur(w).info = "D",
           NEW list, IsList(list), list # <<>>, SoundList(w, list, Len(w.frames))
    PROVE  /\ CycleInv(Enter(w, list)) /\ Enter(w, list).child = NoChild
           /\ Enter(w, list).ub = w.ub
<1> DEFINE n == Len(w.frames)
           p == [ent |-> Head(list), rest |-> Tail(list)]
           v == [w EXCEPT !.frames = Append(@, p), !.child = NoChild]
<1>1. /\ n \in Nat \ {0} /\ DOMAIN w.frames = 1..n /\ Level(w) = n - 1
      /\ Cur(w) = w.frames[n].ent /\ IsSeq(w.frames)
  BY CurIs DEF CycleInv, Shaped
<1>2. /\ DOMAIN v = Fields /\ v.frames = Append(w.frames, p) /\ v.cycles = w.cycles
      /\ v.child = NoChild /\ v.ub = w.ub
  BY DEF CycleInv, Shaped, Fields
<1>3. /\ Len(list) \in Nat \ {0} /\ DOMAIN list = 1..Len(list) /\ p.ent = list[1]
      /\ IsSeq(p.rest) /\ Len(p.rest) = Len(list) - 1 /\ DOMAIN p.rest = 1..Len(list) - 1
      /\ \A j \in 1..Len(list) - 1 : p.rest[j] = list[j + 1]
  <2>1. IsSeq(list)
    BY DEF IsList
  <2>2. /\ Len(list) \in Nat \ {0} /\ Head(list) = list[1]
        /\ IsSeq(Tail(list)) /\ Len(Tail(list)) = Len(list) - 1
        /\ \A j \in 1..Len(list) - 1 : Tail(list)[j] = list[j + 1]
    BY <2>1, SeqTail
  <2>3. DOMAIN list = 1..Len(list) /\ DOMAIN Tail(list) = 1..Len(list) - 1
    BY <2>1, <2>2, SeqIs
  <2> QED
    BY <2>2, <2>3
<1>4. Enter(w, list) = Named(v)
  BY DEF Enter
<1>5. DOMAIN p = {"ent", "rest"}
  OBVIOUS
<1> HIDE DEF v, p
<1>6. /\ IsSeq(v.frames) /\ Len(v.frames) = n + 1 /\ v.frames[n + 1] = p
      /\ \A k \in 1..n : v.frames[k] = w.frames[k]
  BY <1>1, <1>2, SeqAppend
<1>7. DOMAIN v.frames = 1..n + 1 /\ v.frames # <<>>
  BY <1>1, <1>6, SeqIs
<1>8. \A j \in 1..Len(list) : DOMAIN list[j] = EntryFields /\ Sound(w, list[j], n)
                              /\ list[j].instr # "again"
  BY <1>3 DEF IsList, SoundList
<1>9. 1 \in 1..Len(list) /\ \A j \in 1..Len(list) - 1 : j + 1 \in 1..Len(list)
  <2>1. ASSUME NEW m \in Nat \ {0} PROVE 1 \in 1..m /\ \A j \in 1..m - 1 : j + 1 \in 1..m
    OBVIOUS
  <2> QED
    BY <1>3, <2>1
<1>10. IsFrame(p)
  <2>1. DOMAIN p.ent = EntryFields
    BY <1>3, <1>8, <1>9
  <2>2. ASSUME NEW j \in 1..Len(list) - 1 PROVE DOMAIN p.rest[j] = EntryFields
    <3>1. p.rest[j] = list[j + 1] /\ j + 1 \in 1..Len(list)
      BY <1>3, <1>9
    <3> QED
      BY <1>8, <3>1
  <2>3. IsList(p.rest)
    BY <1>3, <2>2 DEF IsList
  <2> QED
    BY <1>5, <2>1, <2>3 DEF IsFrame
<1>11. Shaped(v)
  <2>1. ASSUME NEW k \in 1..n + 1 PROVE IsFrame(v.frames[k])
    <3>1. CASE k = n + 1
      BY <1>6, <1>10, <3>1
    <3>2. CASE k # n + 1
      <4>1. k \in 1..n
        BY <1>1, <3>2
      <4> QED
        BY <1>1, <1>6, <4>1 DEF CycleInv, Shaped
    <3> QED
      BY <3>1, <3>2
  <2> QED
    BY <1>2, <1>6, <1>7, <2>1, NoList DEF Shaped
<1>12. \A j \in 1..n : v.frames[j].ent.ino = w.frames[j].ent.ino
  BY <1>6
<1>13. SoundList(v, list, n)
  BY <1>1, <1>12, SoundListSame
<1>14. Sound(v, p.ent, n) /\ p.ent.instr # "again" /\ SoundList(v, p.rest, n)
  BY <1>3, <1>9, <1>13 DEF SoundList
<1>15. SoundFrames(v)
  <2>1. ASSUME NEW k \in 1..n
        PROVE  /\ v.frames[k].ent.info = "D"
               /\ v.frames[k].ent.instr = "again" => ~IsDirectory(v.frames[k].ent)
               /\ Sound(v, v.frames[k].ent, k - 1)
               /\ SoundList(v, v.frames[k].rest, k - 1)
    <3>1. k \in DOMAIN w.frames /\ v.frames[k] = w.frames[k]
      BY <1>1, <1>6
    <3>2. /\ k < n => w.frames[k].ent.info = "D"
          /\ w.frames[k].ent.instr = "again" => ~IsDirectory(w.frames[k].ent)
          /\ Sound(w, w.frames[k].ent, k - 1)
          /\ SoundList(w, w.frames[k].rest, k - 1)
      BY <3>1 DEF CycleInv, SoundFrames
    <3>3. k - 1 \in Int /\ \A j \in 1..k - 1 : v.frames[j].ent.ino = w.frames[j].ent.ino
      BY <1>1, <1>12
    <3>4. Sound(v, w.frames[k].ent, k - 1)
      BY <3>2, <3>3, SoundSame
    <3>5. SoundList(v, w.frames[k].rest, k - 1)
      BY <3>2, <3>3, SoundListSame
    <3>6. w.frames[k].ent.info = "D"
      BY <1>1, <3>2
    <3> QED
      BY <3>1, <3>2, <3>4, <3>5, <3>6
  <2>2. ASSUME NEW k \in 1..n + 1, k \notin 1..n PROVE k = n + 1
    BY <1>1, <2>2
  <2>3. (n + 1) - 1 = n /\ ~(n + 1 < n + 1)
    BY <1>1
  <2>4. ASSUME NEW k \in 1..n + 1
        PROVE  /\ k < n + 1 => v.frames[k].ent.info = "D"
               /\ v.frames[k].ent.instr = "again" => ~IsDirectory(v.frames[k].ent)
               /\ Sound(v, v.frames[k].ent, k - 1)
               /\ SoundList(v, v.frames[k].rest, k - 1)
    <3>1. CASE k \in 1..n
      BY <2>1, <3>1
    <3>2. CASE k \notin 1..n
      <4>1. k = n + 1
        BY <2>2, <3>2
      <4> QED
        BY <1>6, <1>14, <2>3, <4>1
    <3> QED
      BY <3>1, <3>2
  <2> QED
    BY <1>6, <1>7, <2>4 DEF SoundFrames
<1>16. SoundTable(v)
  <2> SUFFICES ASSUME NEW i \in DOMAIN w.cycles PROVE Entered(v, i)
    BY <1>2 DEF SoundTable
  <2>1. Entered(w, i)
    BY DEF CycleInv, SoundTable
  <2>2. w.cycles[i] + 1 \in 1..n /\ w.cycles[i] \in 0..n
    BY <1>1, <2>1 DEF Entered
  <2>3. v.frames[w.cycles[i] + 1] = w.frames[w.cycles[i] + 1]
    BY <1>6, <2>2
  <2>4. Level(v) = n
    BY <1>1, <1>6 DEF Level
  <2> QED
    BY <1>2, <2>1, <2>2, <2>3, <2>4 DEF Entered
<1>17. SoundChild(v)
  BY <1>2, NoList DEF SoundChild
<1>18. CycleInv(v)
  BY <1>11, <1>15, <1>16, <1>17 DEF CycleInv
<1>19. Kept(v, Named(v))
  BY <1>7, <1>18, NamedInv
<1> QED
  BY <1>2, <1>4, <1>19 DEF Kept
----------------------------------------------------------------------------
(* fts_build.                                                              *)

LEMMA OrderIs ==
    ASSUME TreeOK, NEW d \in Dirs
    PROVE  IsSeq(Order(d)) /\ Len(Order(d)) \in Nat /\ DOMAIN Order(d) = 1..Len(Order(d))
<1> DEFINE names == DOMAIN tree[d]
           n     == Cardinality(names)
<1>1. IsFiniteSet(1..MaxName)
  BY FtsAssumption, FS_Interval
<1>2. n \in Nat
  BY <1>1, FS_Subset, FS_CardinalityType DEF TreeOK, Names
<1> DEFINE name(j) == CHOOSE m \in names : Cardinality({x \in names : x <= m}) = j
<1>5. Order(d) = [j \in 1..n |-> name(j)]
  BY DEF Order
<1> HIDE DEF name, n
<1>3. Order(d) = [j \in 1..n |-> Order(d)[j]]
  BY <1>5
<1>4. IsSeq(Order(d)) /\ Len(Order(d)) = n
  BY <1>2, <1>3, FunctionIsSeq
<1> QED
  BY <1>4, SeqIs

\* The table speaks of the frames.
LEMMA TableBelowAll ==
    ASSUME NEW w, CycleInv(w), w.frames # <<>> PROVE TableBelow(w, Len(w.frames))
<1>1. Len(w.frames) \in Nat \ {0} /\ Level(w) = Len(w.frames) - 1
  BY CurIs DEF CycleInv
<1> QED
  BY <1>1 DEF TableBelow, CycleInv, SoundTable, Entered

LEMMA BuildEntryIs ==
    ASSUME NEW w, CycleInv(w), w.frames # <<>>, NEW d, NEW type, NEW entered, NEW n
    PROVE  LET e == BuildEntry(w, d, type, entered, n)
           IN  DOMAIN e = EntryFields /\ e.instr = "none" /\ Sound(w, e, Len(w.frames))
<1> DEFINE own == IF w.nochdir THEN Buffer ELSE Path(FALSE, <<n>>)
           e0  == Entry(n, Cur(w).len + 1, own)
           i   == Lookup(d, n)
           e1  == [Failed(e0, "NS") EXCEPT !.acc = Cur(w).acc]
           e2  == [e0 EXCEPT !.info = "NSOK"]
           e3  == Stat(w, e0, FALSE, i, Len(w.frames))
           e   == BuildEntry(w, d, type, entered, n)
<1>1. DOMAIN e0 = EntryFields /\ e0.instr = "none"
  BY DEF Entry, EntryFields
<1>2. e \in {e1, e2, e3}
  BY DEF BuildEntry
<1> HIDE DEF e0, e, own, i
<1>3. DOMAIN e1 = EntryFields /\ e1.instr = "none" /\ e1.info = "NS"
  BY <1>1 DEF Failed, EntryFields
<1>4. DOMAIN e2 = EntryFields /\ e2.instr = "none" /\ e2.info = "NSOK"
  BY <1>1 DEF EntryFields
<1>5. DOMAIN e3 = EntryFields /\ e3.instr = "none" /\ Sound(w, e3, Len(w.frames))
  <2>1. Len(w.frames) \in Nat
    BY CurIs DEF CycleInv
  <2>2. TableBelow(w, Len(w.frames))
    BY TableBelowAll
  <2> DEFINE no == FALSE
             r  == Stat(w, e0, no, i, Len(w.frames))
  <2> HIDE DEF no
  <2>3. DOMAIN r = EntryFields /\ r.instr = e0.instr /\ Sound(w, r, Len(w.frames))
    BY <1>1, <2>1, <2>2, StatIs
  <2> QED
    BY <1>1, <2>3 DEF no
<1> HIDE DEF e1, e2, e3
<1>6. Sound(w, e1, Len(w.frames)) /\ Sound(w, e2, Len(w.frames))
  BY <1>3, <1>4 DEF Sound
<1> QED
  BY <1>2, <1>3, <1>4, <1>5, <1>6 DEF e

LEMMA BuildInv ==
    ASSUME TreeOK, NEW w, CycleInv(w), w.frames # <<>>, Cur(w).info = "D",
           w.child.state # "live", NEW type, NEW f
    PROVE  LET b == Build(w, type, f)
           IN  /\ Kept(w, b.w) /\ IsList(b.list)
               /\ b.list # <<>> => /\ Cur(b.w).info = "D" /\ Cur(b.w).ino = Cur(w).ino
                                   /\ SoundList(b.w, b.list, Len(w.frames))
<1> DEFINE cur   == Cur(w)
           d     == Opened(w)
           down  == IF type = "names" THEN [ok |-> TRUE, cwd |-> w.cwd]
                    ELSE ChangeDir(w, cur, d, f = "chdir")
           names == Order(d)
           stats == w.nochdir /\ type # "names" /\ names # <<>> /\ f # "readdir"
           ecur  == [cur EXCEPT !.dont = @ \/ ~down.ok]
           at    == SetCur(w, ecur)
           path  == IF ~w.nochdir THEN at.path
                    ELSE PathOf(w, cur, IF stats THEN <<Last(names)>> ELSE <<>>)
           in    == [at EXCEPT !.cwd = down.cwd, !.path = path]
           back  == BuildReturn(w, in, f)
           list  == [j \in DOMAIN names |-> BuildEntry(in, d, type, down.ok, names[j])]
           info  == IF type = "read" THEN "DNR" ELSE "ERR"
           err   == SetCur(in, [Cur(in) EXCEPT !.info = "ERR"])
           stops == [err EXCEPT !.stop = TRUE]
           over  == SetCur(in, [Cur(in) EXCEPT !.info = "DP"])
           out1  == [in EXCEPT !.cwd = back.cwd]
           b     == Build(w, type, f)
<1>1. b =
         IF f = "opendir" \/ d \notin Dirs
         THEN [w |-> SetCur(w, Failed(cur, info)), list |-> <<>>]
         ELSE IF f = "fstat" \/ d # cur.ino
         THEN [w |-> SetCur(w, Failed(cur, "ERR")), list |-> <<>>]
         ELSE IF ListingFails(type, names, f) THEN [w |-> stops, list |-> <<>>]
         ELSE IF names = <<>> THEN [w |-> IF type = "read" THEN over ELSE in, list |-> <<>>]
         ELSE IF ~(type = "list" /\ down.ok) THEN [w |-> in, list |-> list]
         ELSE IF back.ok THEN [w |-> out1, list |-> list]
         ELSE [w |-> stops, list |-> <<>>]
  BY DEF Build
<1>2. DOMAIN cur = EntryFields /\ cur.info = "D" /\ (cur.instr = "again" => ~IsDirectory(cur))
  BY CurIs DEF CycleInv, SoundFrames
<1>3. Kept(w, at) /\ Cur(at) = ecur /\ ecur.info = "D" /\ ecur.ino = cur.ino
      /\ DOMAIN ecur = EntryFields /\ ecur.instr # "again"
  <2> HIDE DEF cur, down
  <2>1. DOMAIN ecur = EntryFields /\ ecur.info = cur.info /\ ecur.ino = cur.ino
        /\ ecur.instr = cur.instr /\ ecur.cycle = cur.cycle
    BY <1>2 DEF EntryFields
  <2> HIDE DEF ecur
  <2>2. Alters(cur, ecur) /\ ecur.instr # "again"
    BY <1>2, <2>1 DEF Alters, IsDirectory
  <2>3. Kept(w, SetCur(w, ecur)) /\ Cur(SetCur(w, ecur)) = ecur
    BY <2>2, AlterCur DEF cur
  <2> QED
    BY <1>2, <2>1, <2>2, <2>3
<1> HIDE DEF at, b, down, path, names, ecur
<1>4. Kept(w, in) /\ Cur(in) = ecur
  <2>1. /\ DOMAIN in = Fields /\ in.frames = at.frames /\ in.cycles = at.cycles
        /\ in.child = at.child /\ in.ub = at.ub
    BY <1>3 DEF Kept, CycleInv, Shaped, Fields
  <2> HIDE DEF in
  <2>2. CycleInv(in) /\ Cur(in) = Cur(at)
    BY <1>3, <2>1, SameEntries DEF Kept
  <2> QED
    BY <1>3, <2>1, <2>2 DEF Kept
<1> HIDE DEF in, back
<1>5. Kept(w, out1) /\ Cur(out1) = ecur
  <2>1. /\ DOMAIN out1 = Fields /\ out1.frames = in.frames /\ out1.cycles = in.cycles
        /\ out1.child = in.child /\ out1.ub = in.ub
    BY <1>4 DEF Kept, CycleInv, Shaped, Fields
  <2> HIDE DEF out1
  <2>2. CycleInv(out1) /\ Cur(out1) = Cur(in)
    BY <1>4, <2>1, SameEntries DEF Kept
  <2> QED
    BY <1>4, <2>1, <2>2 DEF Kept
<1>6. ASSUME NEW x \in {"ERR", "DP"}
      PROVE  Kept(w, SetCur(in, [Cur(in) EXCEPT !.info = x]))
  <2> DEFINE e == [Cur(in) EXCEPT !.info = x]
  <2>1. DOMAIN e = EntryFields /\ e.info = x /\ e.ino = ecur.ino /\ e.instr = ecur.instr
    BY <1>3, <1>4 DEF EntryFields
  <2> HIDE DEF e
  <2>2. Alters(Cur(in), e)
    BY <1>3, <1>4, <2>1 DEF Alters, IsDirectory
  <2>3. in.child.state # "live" /\ CycleInv(in) /\ in.frames # <<>>
    BY <1>4 DEF Kept
  <2>4. Kept(in, SetCur(in, e))
    BY <2>2, <2>3, AlterCur
  <2> QED
    BY <1>4, <2>4 DEF Kept, e
<1>7. Kept(w, over) /\ Kept(w, err)
  BY <1>6
<1> HIDE DEF over, err
<1>8. Kept(w, stops)
  <2>1. /\ DOMAIN stops = Fields /\ stops.frames = err.frames /\ stops.cycles = err.cycles
        /\ stops.child = err.child /\ stops.ub = err.ub
    BY <1>7 DEF Kept, CycleInv, Shaped, Fields
  <2> HIDE DEF stops
  <2>2. CycleInv(stops)
    BY <1>7, <2>1, SameEntries DEF Kept
  <2> QED
    BY <1>7, <2>1, <2>2 DEF Kept
<1>9. ASSUME NEW x \in {"DNR", "ERR"} PROVE Kept(w, SetCur(w, Failed(cur, x)))
  <2> DEFINE e == Failed(cur, x)
  <2>1. DOMAIN e = EntryFields /\ e.info = x /\ e.ino = cur.ino /\ e.instr = cur.instr
    BY <1>2 DEF EntryFields, Failed
  <2> HIDE DEF e
  <2>2. Alters(cur, e)
    BY <1>2, <2>1 DEF Alters, IsDirectory
  <2>3. Kept(w, SetCur(w, e))
    BY <2>2, AlterCur
  <2> QED
    BY <2>3 DEF e
<1>10. Kept(w, SetCur(w, Failed(cur, info))) /\ Kept(w, SetCur(w, Failed(cur, "ERR")))
  BY <1>9
<1> HIDE DEF out1, stops, d, cur, info
<1>11. d \in Dirs => IsList(list) /\ SoundList(in, list, Len(w.frames))
  <2> SUFFICES ASSUME d \in Dirs PROVE IsList(list) /\ SoundList(in, list, Len(w.frames))
    OBVIOUS
  <2>1. Len(names) \in Nat /\ DOMAIN names = 1..Len(names)
    BY OrderIs DEF names
  <2>2. list = [j \in 1..Len(names) |-> list[j]] /\ DOMAIN list = 1..Len(names)
    BY <2>1
  <2>3. \A j \in 1..Len(names) : list[j] = BuildEntry(in, d, type, down.ok, names[j])
    BY <2>1
  <2> HIDE DEF list
  <2>4. IsSeq(list)
    BY <2>1, <2>2, FunctionIsSeq
  <2>5. CycleInv(in) /\ in.frames # <<>> /\ Len(in.frames) = Len(w.frames)
    BY <1>4 DEF Kept
  <2>6. ASSUME NEW j \in 1..Len(names)
        PROVE  DOMAIN list[j] = EntryFields /\ list[j].instr = "none"
               /\ Sound(in, list[j], Len(w.frames))
    BY <2>3, <2>5, BuildEntryIs
  <2> QED
    BY <2>2, <2>4, <2>6 DEF IsList, SoundList
<1>12. SoundList(out1, list, Len(w.frames)) <=> SoundList(in, list, Len(w.frames))
  <2>1. out1.frames = in.frames
    BY <1>4 DEF out1, Kept, CycleInv, Shaped, Fields
  <2> HIDE DEF list
  <2> QED
    BY <2>1 DEF SoundList, Sound
<1> HIDE DEF list
<1>13. \/ b.list = <<>> /\ b.w \in {SetCur(w, Failed(cur, info)), SetCur(w, Failed(cur, "ERR")),
                                    stops, over, in}
       \/ d \in Dirs /\ b.list = list /\ b.w \in {in, out1}
  <2>1. \/ b = [w |-> SetCur(w, Failed(cur, info)), list |-> <<>>]
        \/ b = [w |-> SetCur(w, Failed(cur, "ERR")), list |-> <<>>]
        \/ b = [w |-> stops, list |-> <<>>]
        \/ b = [w |-> over, list |-> <<>>]
        \/ b = [w |-> in, list |-> <<>>]
        \/ d \in Dirs /\ b = [w |-> in, list |-> list]
        \/ d \in Dirs /\ b = [w |-> out1, list |-> list]
    BY <1>1
  <2> QED
    BY <2>1
<1>14. Cur(in).info = "D" /\ Cur(in).ino = cur.ino /\ Cur(out1).info = "D" /\ Cur(out1).ino = cur.ino
  BY <1>3, <1>4, <1>5
<1>15. CASE b.list = <<>> /\ b.w \in {SetCur(w, Failed(cur, info)), SetCur(w, Failed(cur, "ERR")),
                                      stops, over, in}
  <2>1. Kept(w, b.w)
    BY <1>4, <1>7, <1>8, <1>10, <1>15
  <2> QED
    BY <1>15, <2>1, NoList DEF b
<1>16. CASE d \in Dirs /\ b.list = list /\ b.w \in {in, out1}
  <2>1. Kept(w, b.w) /\ Cur(b.w).info = "D" /\ Cur(b.w).ino = cur.ino
    BY <1>4, <1>5, <1>14, <1>16
  <2>2. IsList(b.list) /\ SoundList(b.w, b.list, Len(w.frames))
    BY <1>11, <1>12, <1>16
  <2> QED
    BY <2>1, <2>2 DEF b, cur
<1> QED
  BY <1>13, <1>15, <1>16
----------------------------------------------------------------------------
(* The calls of fts_read.                                                  *)

\* The list is none that was freed, or whose parent was.
Fresh(w) == w.child.state \in {"none", "live"} /\ ~w.ub

\* What a step has to show.
Good(v, w) == CycleInv(w) /\ (Fresh(v) => Fresh(w))

LEMMA KeptIsGood == ASSUME NEW v, NEW w, Kept(v, w) PROVE Good(v, w)
  BY DEF Kept, Good, Fresh

LEMMA ReadAgainGood == ASSUME CycleInv(s), NEW f, ReadAgain(f) PROVE Good(s, s')
<1> DEFINE n == Noinstr(s)
<1>1. s.frames # <<>> /\ Cur(s).instr = "again" /\ s' = StatCur(n, FALSE, f)
  BY DEF ReadAgain, Walking, Returns
<1>2. ~IsDirectory(Cur(s))
  BY <1>1, CurIs DEF CycleInv, SoundFrames
<1>3. Kept(s, n) /\ Cur(n).instr = "none" /\ Cur(n).info = Cur(s).info
  BY <1>1, NoinstrInv
<1> HIDE DEF n
<1>4. ~IsDirectory(Cur(n)) /\ Cur(n).instr # "again" /\ CycleInv(n) /\ n.frames # <<>>
  BY <1>2, <1>3 DEF IsDirectory, Kept
<1>7. Untabled(n)
  BY <1>4, NotDirectory
<1> DEFINE no == FALSE
<1> HIDE DEF no
<1>5. Kept(n, StatCur(n, no, f))
  BY <1>4, <1>7, StatCurInv
<1>6. Kept(n, s')
  BY <1>1, <1>5 DEF no
<1> QED
  BY <1>3, <1>6 DEF Kept, Good, Fresh

LEMMA ReadFollowGood == ASSUME CycleInv(s), NEW f, ReadFollow(f) PROVE Good(s, s')
<1> DEFINE n == Noinstr(s)
<1>1. s.frames # <<>> /\ IsLink(Cur(s)) /\ s' = FollowCur(n, f)
  BY DEF ReadFollow, Walking, Returns
<1>2. Kept(s, n) /\ Cur(n).instr = "none" /\ Cur(n).info = Cur(s).info
  BY <1>1, NoinstrInv
<1> HIDE DEF n
<1>3. ~IsDirectory(Cur(n)) /\ Cur(n).instr # "again" /\ CycleInv(n) /\ n.frames # <<>>
  BY <1>1, <1>2 DEF IsDirectory, IsLink, Kept
<1>5. Untabled(n)
  BY <1>3, NotDirectory
<1>4. Kept(n, s')
  BY <1>1, <1>3, <1>5, FollowCurInv
<1> QED
  BY <1>2, <1>4 DEF Kept, Good, Fresh

LEMMA ReadSkipGood == ASSUME CycleInv(s), ReadSkip PROVE Good(s, s')
<1> DEFINE n == Noinstr(s)
           c == CloseSym(n)
           d == DropList(c)
           w == CyclePop(d, {Cur(s)})
           e == [Cur(w) EXCEPT !.info = "DP"]
<1>1. s.frames # <<>> /\ Cur(s).info = "D" /\ s' = SetCur(w, e)
  BY DEF ReadSkip, Walking, Returns
<1>2. Kept(s, n) /\ Cur(n).instr = "none" /\ Cur(n).info = Cur(s).info
  BY <1>1, NoinstrInv
<1> HIDE DEF n
<1>3. Kept(n, c) /\ Cur(c).instr = "none" /\ Cur(c).info = Cur(s).info
  BY <1>2, CloseSymInv DEF Kept
<1> HIDE DEF c
<1>4. /\ CycleInv(d) /\ d.frames = c.frames /\ d.cycles = c.cycles /\ d.child = NoChild
      /\ (c.child.state # "freed" /\ ~c.ub => ~d.ub)
  BY <1>3, DropListInv DEF Kept
<1> HIDE DEF d
<1>5. Popped(d, w) /\ w.child = d.child
  BY <1>4, CyclePopIs DEF CycleInv, Shaped
<1> HIDE DEF w
<1>6. d.child.state # "live"
  BY <1>4, NoList
<1>7. CycleInv(w) /\ Cur(w) = Cur(d) /\ w.frames # <<>>
  BY <1>3, <1>4, <1>5, <1>6, PoppedInv DEF Popped, Kept
<1>8. Cur(d) = Cur(c) /\ w.child.state = "none"
  BY <1>4, <1>5, NoList DEF Cur
<1>9. DOMAIN Cur(w) = EntryFields
  BY <1>7, CurIs DEF CycleInv
<1>10. DOMAIN e = EntryFields /\ e.info = "DP" /\ e.ino = Cur(w).ino /\ e.instr = "none"
  BY <1>3, <1>7, <1>8, <1>9 DEF EntryFields
<1> HIDE DEF e
<1>11. Alters(Cur(w), e)
  BY <1>10 DEF Alters, IsDirectory
<1>12. Kept(w, s')
  BY <1>1, <1>7, <1>8, <1>11, AlterCur
<1>13. Fresh(s) => ~d.ub
  BY <1>2, <1>3, <1>4 DEF Kept, Fresh
<1> QED
  BY <1>5, <1>8, <1>12, <1>13 DEF Kept, Good, Fresh, Popped

LEMMA ReadPushFailsGood == ASSUME CycleInv(s), NEW f, ReadPushFails(f) PROVE Good(s, s')
<1> DEFINE v == [s EXCEPT !.stop = TRUE]
           n == Noinstr(s)
           e == Failed(Cur(n), "ERR")
<1>1. /\ s.frames # <<>> /\ Cur(s).info = "D" /\ s' = SetCur(v, e)
      /\ Cur(s).ino \notin DOMAIN s.cycles
  BY DEF ReadPushFails, Walking, Returns, Descends, PushFails
<1>2. Kept(s, n) /\ Cur(n).instr = "none" /\ Cur(n).ino = Cur(s).ino
  BY <1>1, NoinstrInv
<1> HIDE DEF n
<1>3. DOMAIN Cur(n) = EntryFields
  BY <1>2, CurIs DEF CycleInv, Kept
<1>4. DOMAIN e = EntryFields /\ e.info = "ERR" /\ e.ino = Cur(s).ino /\ e.instr = "none"
  BY <1>2, <1>3 DEF Failed, EntryFields
<1> HIDE DEF e
<1>5. /\ DOMAIN v = Fields /\ v.frames = s.frames /\ v.cycles = s.cycles
      /\ v.child = s.child /\ v.ub = s.ub
  BY DEF CycleInv, Shaped, Fields
<1> HIDE DEF v
<1>6. CycleInv(v) /\ Cur(v) = Cur(s) /\ v.frames # <<>>
  BY <1>1, <1>5, SameEntries
<1>7. Alters(Cur(v), e)
  BY <1>4, <1>6 DEF Alters, IsDirectory
<1>8. v.child.state # "live"
  BY <1>1, <1>5 DEF CycleInv, SoundChild
<1>9. Kept(v, s')
  BY <1>1, <1>6, <1>7, <1>8, AlterCur
<1> QED
  BY <1>5, <1>9 DEF Kept, Good, Fresh

\* The directory fts_read is about to descend into is in the table, and a list of
\* names only is gone.
LEMMA Descending ==
    ASSUME CycleInv(s), s.frames # <<>>, Cur(s).info = "D"
    PROVE  LET w == DropNames(CyclePush(Noinstr(s)))
           IN  /\ CycleInv(w) /\ w.frames # <<>> /\ Cur(w).info = "D" /\ Cur(w).instr = "none"
               /\ (Fresh(s) => Fresh(w))
<1> DEFINE n == Noinstr(s)
           p == CyclePush(n)
           w == DropNames(p)
<1>1. Kept(s, n) /\ Cur(n).instr = "none" /\ Cur(n).info = "D"
  BY NoinstrInv
<1> HIDE DEF n
<1>2. CycleInv(p) /\ p.frames = n.frames /\ p.child = n.child /\ p.ub = n.ub
  BY <1>1, CyclePushInv DEF Kept
<1> HIDE DEF p
<1>3. /\ CycleInv(w) /\ w.frames = p.frames
      /\ w.child = NoChild \/ w.child = p.child
      /\ (p.child.state # "freed" /\ ~p.ub => ~w.ub)
  BY <1>2, DropNamesInv
<1> HIDE DEF w
<1>4. w.frames # <<>> /\ Cur(w) = Cur(n)
  BY <1>1, <1>2, <1>3 DEF Kept, Cur
<1>5. Fresh(s) => Fresh(w)
  BY <1>1, <1>2, <1>3, NoList DEF Fresh, Kept
<1> QED
  BY <1>1, <1>3, <1>4, <1>5 DEF w, p, n

LEMMA ReadBuildGood == ASSUME TreeOK, CycleInv(s), NEW f, ReadBuild(f) PROVE Good(s, s')
<1> DEFINE w == DropNames(CyclePush(Noinstr(s)))
           b == Build(w, "read", f)
<1>1. /\ s.frames # <<>> /\ Cur(s).info = "D" /\ w.child.state = "none"
      /\ IF b.list # <<>> THEN s' = Enter(b.w, b.list) ELSE s' = b.w
  <2> HIDE DEF w, b
  <2> QED
    BY DEF ReadBuild, Walking, Returns, Descends, w, b
<1>2. /\ CycleInv(w) /\ w.frames # <<>> /\ Cur(w).info = "D"
      /\ (Fresh(s) => Fresh(w))
  BY <1>1, Descending
<1> HIDE DEF w
<1>3. /\ Kept(w, b.w) /\ IsList(b.list)
      /\ b.list # <<>> => Cur(b.w).info = "D" /\ SoundList(b.w, b.list, Len(w.frames))
  BY <1>1, <1>2, BuildInv
<1> HIDE DEF b
<1>4. CASE b.list = <<>>
  BY <1>1, <1>2, <1>3, <1>4, KeptIsGood DEF Good
<1>5. CASE b.list # <<>>
  <2>1. CycleInv(b.w) /\ b.w.frames # <<>> /\ Len(b.w.frames) = Len(w.frames)
    BY <1>3 DEF Kept
  <2>2. CycleInv(s') /\ s'.child = NoChild /\ s'.ub = b.w.ub
    BY <1>1, <1>3, <1>5, <2>1, EnterInv
  <2> QED
    BY <1>2, <1>3, <2>2, NoList DEF Good, Fresh, Kept
<1> QED
  BY <1>4, <1>5

\* The entries of a list that cannot be entered keep the path of their directory.
WithPath(list, acc) == [j \in DOMAIN list |-> [list[j] EXCEPT !.acc = acc]]

LEMMA Repathed ==
    ASSUME NEW w, NEW k, NEW list, IsList(list), list # <<>>, SoundList(w, list, k), NEW acc
    PROVE  /\ IsList(WithPath(list, acc)) /\ WithPath(list, acc) # <<>>
           /\ SoundList(w, WithPath(list, acc), k)
<1> DEFINE r == WithPath(list, acc)
<1>1. Len(list) \in Nat \ {0} /\ DOMAIN list = 1..Len(list)
  BY SeqIs DEF IsList
<1>2. r = [j \in 1..Len(list) |-> r[j]] /\ DOMAIN r = 1..Len(list)
  BY <1>1 DEF WithPath
<1>3. ASSUME NEW j \in 1..Len(list)
      PROVE  /\ DOMAIN r[j] = EntryFields /\ r[j].info = list[j].info /\ r[j].ino = list[j].ino
             /\ r[j].cycle = list[j].cycle /\ r[j].instr = list[j].instr
  <2>1. r[j] = [list[j] EXCEPT !.acc = acc] /\ DOMAIN list[j] = EntryFields
    BY <1>1 DEF IsList, WithPath
  <2> HIDE DEF r
  <2> QED
    BY <2>1 DEF EntryFields
<1> HIDE DEF r
<1>4. IsSeq(r) /\ Len(r) = Len(list)
  BY <1>1, <1>2, FunctionIsSeq
<1>5. r # <<>>
  BY <1>1, <1>4, SeqIs
<1>6. ASSUME NEW j \in 1..Len(list) PROVE Sound(w, r[j], k) /\ r[j].instr # "again"
  BY <1>1, <1>3 DEF SoundList, Sound
<1> QED
  BY <1>2, <1>3, <1>4, <1>5, <1>6 DEF IsList, SoundList, r

LEMMA ReadListedGood == ASSUME CycleInv(s), NEW f, ReadListed(f) PROVE Good(s, s')
<1> DEFINE w    == DropNames(CyclePush(Noinstr(s)))
           down == ChangeDir(w, Cur(w), Resolve(w.cwd, AccPath(w, Cur(w))), f = "chdir")
           acc  == [j \in DOMAIN w.child.list |-> [w.child.list[j] EXCEPT !.acc = Cur(w).acc]]
           to   == [w EXCEPT !.cwd = down.cwd]
           e    == [Cur(w) EXCEPT !.dont = TRUE, !.err = TRUE]
           dont == SetCur(w, e)
           ub   == [w EXCEPT !.ub = TRUE]
<1>1. /\ s.frames # <<>> /\ Cur(s).info = "D" /\ w.child.state # "none"
      /\ IF w.child.state = "live"
         THEN s' = Enter(to, w.child.list) \/ s' = Enter(dont, acc)
         ELSE s' = ub
  <2>1. s.frames # <<>> /\ Cur(s).info = "D" /\ w.child.state # "none"
    BY DEF ReadListed, Walking, Returns, Descends
  <2>2. IF w.child.state = "live"
        THEN s' = Enter(IF down.ok THEN to ELSE dont, IF down.ok THEN w.child.list ELSE acc)
        ELSE s' = ub
    <3> HIDE DEF w
    <3> QED
      BY DEF ReadListed, Returns, w
  <2> HIDE DEF w, to, dont, acc, ub, down
  <2> QED
    BY <2>1, <2>2
<1>2. /\ CycleInv(w) /\ w.frames # <<>> /\ Cur(w).info = "D" /\ Cur(w).instr = "none"
      /\ (Fresh(s) => Fresh(w))
  BY <1>1, Descending
<1> HIDE DEF w, down
<1>3. DOMAIN w = Fields /\ IsList(w.child.list)
  BY <1>2 DEF CycleInv, Shaped
<1>4. CASE w.child.state # "live"
  <2>1. /\ s' = ub /\ DOMAIN ub = Fields /\ ub.frames = w.frames /\ ub.cycles = w.cycles
        /\ ub.child = w.child
    BY <1>1, <1>3, <1>4 DEF Fields
  <2> HIDE DEF ub
  <2>2. CycleInv(ub)
    BY <1>2, <2>1, SameEntries
  <2>3. ~Fresh(w)
    BY <1>1, <1>4 DEF Fresh
  <2> QED
    BY <1>2, <2>1, <2>2, <2>3 DEF Good
<1>5. CASE w.child.state = "live" /\ s' = Enter(to, w.child.list)
  <2>1. /\ DOMAIN to = Fields /\ to.frames = w.frames /\ to.cycles = w.cycles
        /\ to.child = w.child /\ to.ub = w.ub
    BY <1>3 DEF Fields
  <2> HIDE DEF to
  <2>2. CycleInv(to) /\ Cur(to).info = "D" /\ to.frames # <<>>
    BY <1>2, <2>1, SameEntries
  <2>3. w.child.list # <<>> /\ SoundList(to, w.child.list, Len(to.frames))
    BY <1>5, <2>1, <2>2 DEF CycleInv, SoundChild
  <2>4. CycleInv(s') /\ s'.child = NoChild /\ s'.ub = to.ub
    BY <1>3, <1>5, <2>2, <2>3, EnterInv
  <2> QED
    BY <1>2, <2>1, <2>4, NoList DEF Good, Fresh
<1>6. CASE w.child.state = "live" /\ s' = Enter(dont, acc)
  <2>1. DOMAIN Cur(w) = EntryFields
    BY <1>2, CurIs DEF CycleInv
  <2>2. DOMAIN e = EntryFields /\ e.info = "D" /\ e.ino = Cur(w).ino /\ e.instr = "none"
        /\ e.cycle = Cur(w).cycle
    BY <1>2, <2>1 DEF EntryFields
  <2> HIDE DEF e
  <2>3. Alters(Cur(w), e)
    BY <1>2, <2>2 DEF Alters, IsDirectory
  <2>4. Kept(w, dont) /\ Cur(dont) = e
    BY <1>2, <2>2, <2>3, AlterCur
  <2> HIDE DEF dont
  <2>5. w.child.list # <<>> /\ SoundList(dont, w.child.list, Len(dont.frames))
    BY <1>6, <2>4 DEF Kept, CycleInv, SoundChild
  <2>6. IsList(acc) /\ acc # <<>> /\ SoundList(dont, acc, Len(dont.frames))
    <3>1. IsList(w.child.list) /\ w.child.list # <<>>
          /\ SoundList(dont, w.child.list, Len(dont.frames))
      BY <1>3, <2>5
    <3>2. acc = WithPath(w.child.list, Cur(w).acc)
      BY DEF WithPath
    <3> HIDE DEF acc
    <3>3. /\ IsList(WithPath(w.child.list, Cur(w).acc)) /\ WithPath(w.child.list, Cur(w).acc) # <<>>
          /\ SoundList(dont, WithPath(w.child.list, Cur(w).acc), Len(dont.frames))
      BY <3>1, Repathed
    <3> QED
      BY <3>2, <3>3
  <2> HIDE DEF acc
  <2>7. CycleInv(s') /\ s'.child = NoChild /\ s'.ub = dont.ub
    BY <1>6, <2>2, <2>4, <2>6, EnterInv DEF Kept
  <2> QED
    BY <1>2, <2>4, <2>7, NoList DEF Good, Fresh, Kept
<1> QED
  BY <1>1, <1>4, <1>5, <1>6

LEMMA ReadRootGood == ASSUME CycleInv(s), NEW f, ReadRoot(f) PROVE Good(s, s')
<1> DEFINE free == Free(s)
           p    == [ent |-> Head(Rest(s)), rest |-> Tail(Rest(s))]
           w    == [free EXCEPT !.frames = <<p>>]
           stop == [w EXCEPT !.stop = TRUE]
           to   == [w EXCEPT !.cwd = IF s.nochdir THEN @ ELSE s.rfd]
<1>1. /\ s.frames # <<>> /\ Cur(s).info # "D" /\ Level(s) = 0 /\ Rest(s) # <<>>
      /\ s' = stop \/ s' = Load(to)
  BY DEF ReadRoot, Moves, Walking, Returns
<1>2. CycleInv(free) /\ Popped(s, free) /\ Untabled(free)
  BY <1>1, FreeInv
<1> HIDE DEF free
<1>3. /\ DOMAIN w = Fields /\ w.frames = <<p>> /\ w.cycles = free.cycles
      /\ w.child = free.child /\ w.ub = free.ub
  BY <1>2 DEF Popped, Fields
<1>4. free.frames # <<>> /\ Rest(free) = Rest(s) /\ Level(free) = 0 /\ Len(free.frames) = 1
  <2>1. free.frames = s.frames
    BY <1>2 DEF Popped
  <2>2. Len(s.frames) \in Nat /\ Level(s) = Len(s.frames) - 1
    BY <1>1, CurIs DEF CycleInv
  <2> QED
    BY <1>1, <2>1, <2>2 DEF Rest, Level
<1>5. /\ IsFrame(p) /\ \E j \in DOMAIN Rest(s) : p.ent = Rest(s)[j]
      /\ \A j \in DOMAIN p.rest : \E i \in DOMAIN Rest(s) : p.rest[j] = Rest(s)[i]
  <2>1. IsList(Rest(s))
    BY <1>1, CurIs DEF CycleInv
  <2>2. /\ Len(Rest(s)) \in Nat \ {0} /\ p.ent = Rest(s)[1]
        /\ IsSeq(p.rest) /\ Len(p.rest) = Len(Rest(s)) - 1
        /\ \A j \in 1..Len(Rest(s)) - 1 : p.rest[j] = Rest(s)[j + 1]
    BY <1>1, <2>1, SeqTail DEF IsList
  <2>3. DOMAIN Rest(s) = 1..Len(Rest(s)) /\ DOMAIN p.rest = 1..Len(Rest(s)) - 1
    BY <2>1, <2>2, SeqIs DEF IsList
  <2>4. DOMAIN p = {"ent", "rest"}
    OBVIOUS
  <2> HIDE DEF p
  <2>5. 1 \in DOMAIN Rest(s) /\ \A j \in DOMAIN p.rest : j + 1 \in DOMAIN Rest(s)
    <3>1. ASSUME NEW m \in Nat \ {0} PROVE 1 \in 1..m /\ \A j \in 1..m - 1 : j + 1 \in 1..m
      OBVIOUS
    <3> QED
      BY <2>2, <2>3, <3>1
  <2>6. \A j \in DOMAIN p.rest : p.rest[j] = Rest(s)[j + 1]
    BY <2>2, <2>3
  <2>7. DOMAIN p.ent = EntryFields /\ \A j \in DOMAIN p.rest : DOMAIN p.rest[j] = EntryFields
    BY <2>1, <2>2, <2>5, <2>6 DEF IsList
  <2> QED
    BY <2>2, <2>4, <2>5, <2>6, <2>7 DEF IsFrame, IsList
<1> HIDE DEF p, w
<1>6. IsSeq(<<p>>) /\ Len(<<p>>) = 1 /\ <<p>>[1] = p
  <2>1. <<p>> \in Seq({p})
    OBVIOUS
  <2> QED
    BY <2>1, InSeq
<1>7. MovedOn(free, w)
  BY <1>3, <1>4, <1>5, <1>6 DEF MovedOn
<1>8. CycleInv(w) /\ w.frames # <<>>
  BY <1>2, <1>4, <1>7, MovedOnInv
<1>9. ASSUME NEW v, DOMAIN v = Fields, v.frames = w.frames, v.cycles = w.cycles,
             v.child = w.child, v.ub = w.ub
      PROVE  Good(s, v) /\ Good(s, Load(v))
  <2>1. CycleInv(v) /\ v.frames # <<>>
    BY <1>8, <1>9, SameEntries
  <2>2. Kept(v, Load(v))
    BY <2>1, LoadInv
  <2>3. Fresh(s) => Fresh(v)
    BY <1>2, <1>3, <1>9 DEF Fresh, Popped
  <2> QED
    BY <2>1, <2>2, <2>3 DEF Good, Fresh, Kept
<1>10. /\ DOMAIN stop = Fields /\ stop.frames = w.frames /\ stop.cycles = w.cycles
       /\ stop.child = w.child /\ stop.ub = w.ub
  BY <1>3 DEF Fields
<1>11. /\ DOMAIN to = Fields /\ to.frames = w.frames /\ to.cycles = w.cycles
       /\ to.child = w.child /\ to.ub = w.ub
  BY <1>3 DEF Fields
<1> HIDE DEF stop, to
<1>12. Good(s, stop) /\ Good(s, Load(to))
  BY <1>9, <1>10, <1>11
<1> QED
  BY <1>1, <1>12

LEMMA ReadDoneGood == ASSUME CycleInv(s), ReadDone PROVE Good(s, s')
<1> DEFINE free == Free(s)
<1>1. /\ s.frames # <<>> /\ Cur(s).info # "D" /\ Level(s) = 0
      /\ s' = [free EXCEPT !.frames = <<>>]
  BY DEF ReadDone, Moves, Walking, Returns
<1>2. CycleInv(free) /\ Popped(s, free) /\ Untabled(free)
  BY <1>1, FreeInv
<1> HIDE DEF free
<1>3. /\ DOMAIN s' = Fields /\ s'.frames = <<>> /\ s'.cycles = free.cycles
      /\ s'.child = free.child /\ s'.ub = free.ub
  BY <1>1, <1>2 DEF Popped, Fields
<1>4. Level(free) = 0
  BY <1>1, <1>2 DEF Popped, Level
<1>5. DOMAIN free.cycles = {}
  <2> SUFFICES ASSUME NEW i \in DOMAIN free.cycles PROVE FALSE
    OBVIOUS
  <2>1. free.cycles[i] \in 0..Level(free) /\ free.cycles[i] # Level(free)
    BY <1>2 DEF CycleInv, SoundTable, Entered, Untabled
  <2> QED
    BY <1>4, <2>1
<1>6. free.child.state # "live" /\ DOMAIN free.child = {"state", "list"} /\ IsList(free.child.list)
  BY <1>2 DEF Untabled, CycleInv, Shaped
<1>7. CycleInv(s')
  BY <1>3, <1>5, <1>6, NoFrames
<1> QED
  BY <1>2, <1>3, <1>7 DEF Good, Fresh, Popped

LEMMA ReadSiblingGood == ASSUME CycleInv(s), NEW f, ReadSibling(f) PROVE Good(s, s')
<1> DEFINE n    == Len(s.frames)
           q    == Rest(s)
           k    == NotSkipped(q)
           free == FreeUpTo(s, SubSeq(q, 1, k - 1))
           p    == [ent |-> q[k], rest |-> SubSeq(q, k + 1, Len(q))]
           next == [free EXCEPT !.frames[n] = p]
           foll == FollowCur(next, f)
           noin == Noinstr(foll)
<1>1. /\ s.frames # <<>> /\ Cur(s).info # "D" /\ k > 0
      /\ s' = Named(noin) \/ s' = Named(next)
  BY DEF ReadSibling, Moves, Walking, Returns
<1>2. CycleInv(free) /\ Popped(s, free) /\ Untabled(free)
  BY <1>1, FreeUpToInv
<1> HIDE DEF free
<1>3. /\ n \in Nat \ {0} /\ DOMAIN s.frames = 1..n /\ Level(s) = n - 1
      /\ IsList(q) /\ IsSeq(s.frames)
  BY <1>1, CurIs DEF CycleInv, Shaped
<1>4. free.frames = s.frames /\ Rest(free) = q /\ Level(free) = n - 1 /\ free.frames # <<>>
  BY <1>1, <1>2, <1>3 DEF Popped, Rest, Level
<1>5. Len(q) \in Nat /\ DOMAIN q = 1..Len(q) /\ k \in 1..Len(q)
  <2>1. k = 0 \/ k \in 1..Len(q)
    BY <1>3, NotSkippedIs DEF IsList
  <2> QED
    BY <1>1, <1>3, <2>1, SeqIs DEF IsList
<1>6. IsFrame(p) /\ p.ent = q[k] /\ \A j \in DOMAIN p.rest : \E i \in DOMAIN q : p.rest[j] = q[i]
  <2>1. k + 1 \in Nat \ {0} /\ k + 1 <= Len(q) + 1 /\ Len(q) <= Len(q)
    BY <1>5
  <2>2. /\ IsSeq(p.rest) /\ Len(p.rest) = Len(q) - (k + 1) + 1
        /\ \A j \in 1..Len(q) - (k + 1) + 1 : p.rest[j] = q[(k + 1) + j - 1]
    BY <1>3, <1>5, <2>1, SeqPart DEF IsList
  <2>3. DOMAIN p = {"ent", "rest"} /\ p.ent = q[k]
    OBVIOUS
  <2> HIDE DEF p
  <2>4. DOMAIN p.rest = 1..Len(q) - (k + 1) + 1
    BY <2>2, SeqIs
  <2>5. \A j \in DOMAIN p.rest : (k + 1) + j - 1 \in DOMAIN q
    BY <1>5, <2>4
  <2>6. \A j \in DOMAIN p.rest : \E i \in DOMAIN q : p.rest[j] = q[i]
    BY <2>2, <2>4, <2>5
  <2>7. DOMAIN p.ent = EntryFields /\ \A j \in DOMAIN p.rest : DOMAIN p.rest[j] = EntryFields
    BY <1>3, <1>5, <2>3, <2>6 DEF IsList
  <2> QED
    BY <2>2, <2>3, <2>6, <2>7 DEF IsFrame, IsList
<1> HIDE DEF p, k, q
<1>7. /\ DOMAIN next = Fields /\ next.frames = [s.frames EXCEPT ![n] = p]
      /\ next.cycles = free.cycles /\ next.child = free.child /\ next.ub = free.ub
  BY <1>2, <1>4 DEF Popped, Fields
<1> HIDE DEF next
<1>8. /\ IsSeq(next.frames) /\ Len(next.frames) = n /\ next.frames[n] = p
      /\ \A j \in 1..n \ {n} : next.frames[j] = s.frames[j]
  BY <1>3, <1>7, SeqExcept
<1>9. \A j \in 1..n - 1 : next.frames[j] = free.frames[j]
  BY <1>3, <1>4, <1>8
<1>10. MovedOn(free, next)
  BY <1>4, <1>5, <1>6, <1>7, <1>8, <1>9 DEF MovedOn
<1>11. CycleInv(next) /\ next.frames # <<>> /\ Cur(next).instr # "again" /\ Untabled(next)
  BY <1>2, <1>4, <1>10, MovedOnInv
<1>12. Fresh(s) => Fresh(next)
  BY <1>2, <1>7 DEF Fresh, Popped
<1>13. Kept(next, Named(next))
  BY <1>11, NamedInv
<1>14. Kept(next, foll)
  BY <1>11, FollowCurInv
<1> HIDE DEF foll
<1>15. Kept(foll, noin)
  BY <1>14, NoinstrInv DEF Kept
<1> HIDE DEF noin
<1>16. Kept(noin, Named(noin))
  BY <1>15, NamedInv DEF Kept
<1>17. Good(next, Named(next)) /\ Good(next, foll) /\ Good(foll, noin) /\ Good(noin, Named(noin))
  BY <1>13, <1>14, <1>15, <1>16, KeptIsGood
<1> QED
  BY <1>1, <1>12, <1>17 DEF Good

LEMMA ReadUpGood == ASSUME CycleInv(s), NEW f, ReadUp(f) PROVE Good(s, s')
<1> DEFINE free == FreeUpTo(s, Rest(s))
           w    == [free EXCEPT !.frames = Front(@),
                                !.path = PathOf(s, Last(Front(s.frames)).ent, <<>>)]
           back == Back(w, f)
           left == IF Level(w) = 0 THEN w ELSE CloseSym(w)
           e    == PostOrder(Cur(left))
           post == SetCur(left, e)
<1>1. /\ s.frames # <<>> /\ Cur(s).info # "D" /\ Level(s) > 0
      /\ s' = [post EXCEPT !.cwd = back.cwd] \/ s' = [left EXCEPT !.stop = TRUE]
  BY DEF ReadUp, Moves, Walking, Returns
<1>2. CycleInv(free) /\ Popped(s, free) /\ Untabled(free)
  BY <1>1, FreeUpToInv
<1> HIDE DEF free
<1>3. /\ DOMAIN w = Fields /\ w.frames = Front(free.frames) /\ w.cycles = free.cycles
      /\ w.child = free.child /\ w.ub = free.ub
  BY <1>2 DEF Popped, Fields
<1> HIDE DEF w
<1>4. free.frames # <<>> /\ Level(free) > 0
  BY <1>1, <1>2 DEF Popped, Level
<1>5. CycleInv(w) /\ w.frames # <<>> /\ Cur(w).info = "D"
  BY <1>2, <1>3, <1>4, FrontInv
<1>6. Fresh(s) => Fresh(w)
  BY <1>2, <1>3 DEF Fresh, Popped
<1>7. Cur(w).instr # "again"
  BY <1>5, CurIs DEF CycleInv, SoundFrames, IsDirectory
<1>8. Kept(w, CloseSym(w)) /\ Cur(CloseSym(w)).info = "D" /\ Cur(CloseSym(w)).instr # "again"
  BY <1>5, <1>7, CloseSymInv
<1>9. Kept(w, w)
  BY <1>5 DEF Kept
<1>10. Kept(w, left) /\ Cur(left).info = "D" /\ Cur(left).instr # "again"
  BY <1>5, <1>7, <1>8, <1>9
<1> HIDE DEF left, back
<1>11. DOMAIN Cur(left) = EntryFields
  BY <1>10, CurIs DEF Kept, CycleInv
<1>12. /\ DOMAIN e = EntryFields /\ e.info \in {"ERR", "DP"} /\ e.ino = Cur(left).ino
       /\ e.instr = Cur(left).instr
  BY <1>11 DEF PostOrder, EntryFields
<1> HIDE DEF e
<1>13. Alters(Cur(left), e)
  BY <1>10, <1>12 DEF Alters, IsDirectory
<1>14. left.child.state # "live"
  BY <1>2, <1>3, <1>10 DEF Kept, Untabled
<1>15. Kept(left, post)
  BY <1>10, <1>13, <1>14, AlterCur DEF Kept
<1> HIDE DEF post
<1>16. ASSUME NEW u, Kept(w, u), NEW v, DOMAIN v = Fields, v.frames = u.frames,
              v.cycles = u.cycles, v.child = u.child, v.ub = u.ub
       PROVE  Good(s, v)
  <2>1. CycleInv(v)
    BY <1>16, SameEntries DEF Kept
  <2> QED
    BY <1>6, <1>16, <2>1 DEF Good, Fresh, Kept
<1>17. CASE s' = [post EXCEPT !.cwd = back.cwd]
  <2>1. Kept(w, post)
    BY <1>10, <1>15 DEF Kept
  <2>2. /\ DOMAIN s' = Fields /\ s'.frames = post.frames /\ s'.cycles = post.cycles
        /\ s'.child = post.child /\ s'.ub = post.ub
    BY <1>17, <2>1 DEF Kept, CycleInv, Shaped, Fields
  <2> QED
    BY <1>16, <2>1, <2>2
<1>18. CASE s' = [left EXCEPT !.stop = TRUE]
  <2>1. /\ DOMAIN s' = Fields /\ s'.frames = left.frames /\ s'.cycles = left.cycles
        /\ s'.child = left.child /\ s'.ub = left.ub
    BY <1>10, <1>18 DEF Kept, CycleInv, Shaped, Fields
  <2> QED
    BY <1>10, <1>16, <2>1
<1> QED
  BY <1>1, <1>17, <1>18
LEMMA ReadEndGood == ASSUME CycleInv(s), ReadEnd PROVE Good(s, s')
  BY DEF ReadEnd, Returns, Good
----------------------------------------------------------------------------
(* fts_set.                                                                *)

LEMMA SetGood ==
    ASSUME CycleInv(s), asks.instrs \cap Again = {}, NEW instr, Set(instr) PROVE Good(s, s')
<1> DEFINE e == [Cur(s) EXCEPT !.instr = instr]
<1>1. s.frames # <<>> /\ <<Cur(s).info, instr>> \in asks.instrs /\ s' = SetCur(s, e)
  BY DEF Set, Walking
<1>2. DOMAIN Cur(s) = EntryFields
  BY <1>1, CurIs DEF CycleInv
<1>3. /\ DOMAIN e = EntryFields /\ e.info = Cur(s).info /\ e.ino = Cur(s).ino
      /\ e.cycle = Cur(s).cycle /\ e.instr = instr
  BY <1>2 DEF EntryFields
<1> HIDE DEF e
<1>4. instr = "again" => ~IsDirectory(Cur(s))
  BY <1>1 DEF Again, IsDirectory
<1>5. Alters(Cur(s), e)
  BY <1>3, <1>4 DEF Alters, IsDirectory
<1>6. s.child.state = "live" => e.info = "D"
  BY <1>3 DEF CycleInv, SoundChild
<1>7. Kept(s, s')
  BY <1>1, <1>5, <1>6, AlterCur
<1> QED
  BY <1>7, KeptIsGood

\* An instruction other than FTS_AGAIN leaves a list sound.
LEMMA InstructedIs ==
    ASSUME NEW list, IsList(list), NEW j, NEW instr
    PROVE  LET r == [list EXCEPT ![j].instr = instr]
           IN  /\ IsList(r) /\ (r = <<>> => list = <<>>)
               /\ instr # "again" => \A w, k : SoundList(w, list, k) => SoundList(w, r, k)
<1> DEFINE r == [list EXCEPT ![j].instr = instr]
<1>1. Len(list) \in Nat /\ DOMAIN list = 1..Len(list)
  BY SeqIs DEF IsList
<1>2. r = [i \in 1..Len(list) |-> r[i]] /\ DOMAIN r = 1..Len(list)
  BY <1>1
<1>3. ASSUME NEW i \in 1..Len(list)
      PROVE  /\ DOMAIN r[i] = EntryFields /\ r[i].info = list[i].info /\ r[i].ino = list[i].ino
             /\ r[i].cycle = list[i].cycle
             /\ r[i].instr = list[i].instr \/ r[i].instr = instr
  <2>1. DOMAIN list[i] = EntryFields /\ (r[i] = list[i] \/ r[i] = [list[i] EXCEPT !.instr = instr])
    BY <1>1 DEF IsList
  <2> HIDE DEF r
  <2> QED
    BY <2>1 DEF EntryFields
<1> HIDE DEF r
<1>4. IsSeq(r) /\ Len(r) = Len(list)
  BY <1>1, <1>2, FunctionIsSeq
<1>5. r = <<>> => list = <<>>
  BY <1>1, <1>4, SeqIs DEF IsList
<1>6. ASSUME instr # "again", NEW w, NEW k, SoundList(w, list, k), NEW i \in 1..Len(list)
      PROVE  Sound(w, r[i], k) /\ r[i].instr # "again"
  BY <1>1, <1>3, <1>6 DEF SoundList, Sound
<1>7. ASSUME instr # "again", NEW w, NEW k, SoundList(w, list, k) PROVE SoundList(w, r, k)
  BY <1>2, <1>6, <1>7 DEF SoundList
<1> QED
  BY <1>2, <1>3, <1>4, <1>5, <1>7 DEF IsList, r

LEMMA SetListedGood ==
    ASSUME CycleInv(s), NEW j, NEW instr, instr # "again", SetListed(j, instr)
    PROVE  Good(s, s')
<1> DEFINE list == s.child.list
           r    == [list EXCEPT ![j].instr = instr]
<1>1. DOMAIN s = Fields /\ DOMAIN s.child = {"state", "list"} /\ IsList(list)
  BY DEF CycleInv, Shaped
<1>2. s.child.state = "live" /\ s' = [s EXCEPT !.child.list[j].instr = instr]
  BY DEF SetListed
<1>3. /\ DOMAIN s' = Fields /\ s'.frames = s.frames /\ s'.cycles = s.cycles /\ s'.ub = s.ub
      /\ DOMAIN s'.child = {"state", "list"} /\ s'.child.state = "live" /\ s'.child.list = r
  BY <1>1, <1>2 DEF Fields
<1>4. /\ IsList(r) /\ (r = <<>> => list = <<>>)
      /\ \A w, k : SoundList(w, list, k) => SoundList(w, r, k)
  <2> HIDE DEF list
  <2> QED
    BY <1>1, InstructedIs
<1> HIDE DEF r
<1>5. Cur(s') = Cur(s) /\ Level(s') = Level(s)
  BY <1>3 DEF Cur, Level
<1>6. \A e, k : Sound(s', e, k) <=> Sound(s, e, k)
  BY <1>3 DEF Sound
<1>7. \A q, k : SoundList(s', q, k) <=> SoundList(s, q, k)
  BY <1>6 DEF SoundList
<1>8. Shaped(s')
  BY <1>3, <1>4 DEF Shaped, CycleInv
<1>9. SoundFrames(s')
  BY <1>3, <1>6, <1>7 DEF CycleInv, SoundFrames
<1>10. SoundTable(s')
  BY <1>3, <1>5 DEF CycleInv, SoundTable, Entered
<1>11. SoundChild(s')
  BY <1>2, <1>3, <1>4, <1>5, <1>7 DEF CycleInv, SoundChild
<1> QED
  BY <1>2, <1>3, <1>8, <1>9, <1>10, <1>11 DEF Good, Fresh, CycleInv

LEMMA SetRootGood ==
    ASSUME CycleInv(s), NEW j, NEW instr, instr # "again", SetRoot(j, instr)
    PROVE  Good(s, s')
<1> DEFINE n == Len(s.frames)
           p == [s.frames[1] EXCEPT !.rest = [@ EXCEPT ![j].instr = instr]]
<1>1. s.frames # <<>> /\ s' = [s EXCEPT !.frames[1].rest[j].instr = instr]
  BY DEF SetRoot, Walking
<1>2. /\ IsSeq(s.frames) /\ n \in Nat \ {0} /\ DOMAIN s.frames = 1..n /\ Level(s) = n - 1
      /\ \A k \in 1..n : IsFrame(s.frames[k])
  BY <1>1, CurIs DEF CycleInv, Shaped
<1>3. 1 \in DOMAIN s.frames /\ IsFrame(s.frames[1])
  BY <1>2
<1>4. /\ DOMAIN s' = Fields /\ s'.frames = [s.frames EXCEPT ![1] = p] /\ s'.cycles = s.cycles
      /\ s'.child = s.child /\ s'.ub = s.ub
  BY <1>1, <1>3 DEF Fields, CycleInv, Shaped
<1>5. /\ DOMAIN p = {"ent", "rest"} /\ p.ent = s.frames[1].ent
      /\ p.rest = [s.frames[1].rest EXCEPT ![j].instr = instr]
  BY <1>3 DEF IsFrame
<1> HIDE DEF p
<1>6. IsList(p.rest) /\ \A w, k : SoundList(w, s.frames[1].rest, k) => SoundList(w, p.rest, k)
  <2> DEFINE list == s.frames[1].rest
             r    == [list EXCEPT ![j].instr = instr]
  <2>1. IsList(list) /\ p.rest = r
    BY <1>3, <1>5 DEF IsFrame
  <2> HIDE DEF list
  <2>2. IsList(r) /\ \A w, k : SoundList(w, list, k) => SoundList(w, r, k)
    BY <2>1, InstructedIs
  <2> HIDE DEF r
  <2> QED
    BY <2>1, <2>2 DEF list
<1>7. IsFrame(p)
  BY <1>3, <1>5, <1>6 DEF IsFrame
<1>8. /\ IsSeq(s'.frames) /\ Len(s'.frames) = n /\ s'.frames[1] = p
      /\ \A k \in DOMAIN s.frames \ {1} : s'.frames[k] = s.frames[k]
  BY <1>2, <1>3, <1>4, SeqExcept
<1>9. DOMAIN s'.frames = 1..n /\ s'.frames # <<>> /\ Level(s') = n - 1
  BY <1>2, <1>8, SeqIs DEF Level
<1>10. \A k \in 1..n : /\ IsFrame(s'.frames[k]) /\ s'.frames[k].ent = s.frames[k].ent
                       /\ \A w, m : SoundList(w, s.frames[k].rest, m)
                                       => SoundList(w, s'.frames[k].rest, m)
  BY <1>2, <1>5, <1>6, <1>7, <1>8
<1>11. Shaped(s')
  BY <1>4, <1>8, <1>9, <1>10 DEF Shaped, CycleInv
<1>12. Cur(s') = Cur(s)
  <2>1. n \in 1..n
    BY <1>2
  <2> QED
    BY <1>8, <1>10, <2>1 DEF Cur, Last
<1>13. ASSUME NEW k \in Int, k <= n, NEW list, SoundList(s, list, k) PROVE SoundList(s', list, k)
  <2>1. \A i \in 1..k : s'.frames[i].ent.ino = s.frames[i].ent.ino
    BY <1>2, <1>10, <1>13
  <2> QED
    BY <1>13, <2>1, SoundListSame
<1>14. ASSUME NEW k \in 1..n
       PROVE  /\ Sound(s', s'.frames[k].ent, k - 1) /\ SoundList(s', s'.frames[k].rest, k - 1)
              /\ k < n => s'.frames[k].ent.info = "D"
              /\ s'.frames[k].ent.instr = "again" => ~IsDirectory(s'.frames[k].ent)
  <2>1. k - 1 \in Int /\ k - 1 <= n
    BY <1>2
  <2>2. \A i \in 1..k - 1 : s'.frames[i].ent.ino = s.frames[i].ent.ino
    BY <1>2, <1>10
  <2>3. /\ Sound(s, s.frames[k].ent, k - 1) /\ SoundList(s, s.frames[k].rest, k - 1)
        /\ k < n => s.frames[k].ent.info = "D"
        /\ s.frames[k].ent.instr = "again" => ~IsDirectory(s.frames[k].ent)
    BY <1>2 DEF CycleInv, SoundFrames
  <2>4. Sound(s', s.frames[k].ent, k - 1)
    BY <2>1, <2>2, <2>3, SoundSame
  <2>5. SoundList(s', s'.frames[k].rest, k - 1)
    BY <1>10, <1>13, <2>1, <2>3
  <2> QED
    BY <1>10, <2>3, <2>4, <2>5
<1>15. SoundFrames(s')
  BY <1>8, <1>9, <1>14 DEF SoundFrames
<1>16. ASSUME NEW i \in DOMAIN s'.cycles PROVE Entered(s', i)
  <2>1. s.cycles[i] \in 0..n - 1 /\ Entered(s, i)
    BY <1>2, <1>4 DEF CycleInv, SoundTable, Entered
  <2>2. s.cycles[i] + 1 \in 1..n
    BY <1>2, <2>1
  <2> QED
    BY <1>2, <1>4, <1>9, <1>10, <2>1, <2>2 DEF Entered
<1>17. SoundChild(s')
  BY <1>2, <1>4, <1>8, <1>9, <1>12, <1>13 DEF CycleInv, SoundChild
<1> QED
  BY <1>4, <1>11, <1>15, <1>16, <1>17 DEF Good, Fresh, CycleInv, SoundTable
----------------------------------------------------------------------------
(* fts_children and fts_close.                                             *)

\* The list that fts_build made becomes fts_child.
LEMMA ListMade ==
    ASSUME NEW w, CycleInv(w), w.frames # <<>>, Cur(w).info = "D", Cur(w).ino \in DOMAIN w.cycles,
           NEW list, IsList(list), list # <<>>, SoundList(w, list, Len(w.frames)),
           NEW v, DOMAIN v = Fields, v.frames = w.frames, v.cycles = w.cycles,
           DOMAIN v.child = {"state", "list"}, v.child.list = list
    PROVE  CycleInv(v)
<1>1. Cur(v) = Cur(w) /\ Level(v) = Level(w)
  BY DEF Cur, Level
<1>2. \A e, k : Sound(v, e, k) <=> Sound(w, e, k)
  BY DEF Sound
<1>3. \A q, k : SoundList(v, q, k) <=> SoundList(w, q, k)
  BY <1>2 DEF SoundList
<1>4. Shaped(v)
  BY DEF CycleInv, Shaped
<1>5. SoundFrames(v)
  BY <1>2, <1>3 DEF CycleInv, SoundFrames
<1>6. SoundTable(v)
  BY <1>1 DEF CycleInv, SoundTable, Entered
<1>7. SoundChild(v)
  BY <1>1, <1>3 DEF SoundChild
<1> QED
  BY <1>4, <1>5, <1>6, <1>7 DEF CycleInv

\* fts_children leaves a list that was freed only when open(".") fails.
LEMMA ChildrenGood ==
    ASSUME TreeOK, CycleInv(s), NEW type, NEW f, Children(type, f)
    PROVE  CycleInv(s') /\ (Fresh(s) /\ f # "dot" => Fresh(s'))
<1> DEFINE freed == FreeChild(s)
           w     == [freed EXCEPT !.nameonly = @ \/ type = "names"]
           push  == CyclePush(w)
           b     == Build(push, type, f)
           to    == IF b.list = <<>> THEN NoChild ELSE [state |-> "live", list |-> b.list]
           live  == [b.w EXCEPT !.child = to]
           back  == [live EXCEPT !.cwd = s.cwd]
<1>1. /\ s.frames # <<>> /\ Cur(s).info = "D"
      /\ \/ PushFails(s, f) /\ s' = w
         \/ s' = live
         \/ f = "dot" /\ s' = push
         \/ s' = back
  <2>1. s.frames # <<>> /\ Cur(s).info = "D"
    BY DEF Children, Walking
  <2>2. \/ PushFails(s, f) /\ s' = w
        \/ s' = live
        \/ f = "dot" /\ s' = push
        \/ s' = back
    <3> DEFINE saves == Level(s) = 0 /\ ~AccPath(s, Cur(s)).abs /\ ~s.nochdir
    <3>1. s' = IF PushFails(s, f) THEN w ELSE IF ~saves \/ f = "cwdfd" THEN live
               ELSE IF f = "dot" THEN push ELSE back
      BY DEF Children
    <3> HIDE DEF w, live, push, back, saves
    <3> QED
      BY <3>1
  <2> QED
    BY <2>1, <2>2
<1>2. /\ CycleInv(freed) /\ freed.frames = s.frames /\ freed.cycles = s.cycles
      /\ DOMAIN freed = Fields /\ freed.child.state # "live"
      /\ (s.child.state = "none" => freed = s)
      /\ (s.child.state # "freed" /\ ~s.ub => ~freed.ub)
  BY FreeChildInv
<1> HIDE DEF freed
<1>3. /\ DOMAIN w = Fields /\ w.frames = freed.frames /\ w.cycles = freed.cycles
      /\ w.child = freed.child /\ w.ub = freed.ub
  BY <1>2 DEF Fields
<1> HIDE DEF w
<1>4. CycleInv(w) /\ Cur(w) = Cur(s) /\ w.frames # <<>> /\ Cur(w).info = "D"
  <2>1. CycleInv(w)
    BY <1>2, <1>3, SameEntries
  <2>2. w.frames = s.frames
    BY <1>2, <1>3
  <2> QED
    BY <1>1, <2>1, <2>2 DEF Cur
<1>5. /\ CycleInv(push) /\ push.frames = w.frames /\ push.child = w.child /\ push.ub = w.ub
      /\ Cur(w).ino \in DOMAIN push.cycles
  BY <1>4, CyclePushInv
<1> HIDE DEF push
<1>6. Cur(push) = Cur(w) /\ push.frames # <<>> /\ push.child.state # "live"
  BY <1>2, <1>3, <1>4, <1>5 DEF Cur
<1>7. /\ Kept(push, b.w) /\ IsList(b.list)
      /\ b.list # <<>> => /\ Cur(b.w).info = "D" /\ Cur(b.w).ino = Cur(push).ino
                          /\ SoundList(b.w, b.list, Len(push.frames))
  BY <1>4, <1>5, <1>6, BuildInv
<1> HIDE DEF b
<1>8. DOMAIN b.w = Fields /\ b.w.frames # <<>> /\ CycleInv(b.w) /\ b.w.cycles = push.cycles
      /\ Len(b.w.frames) = Len(push.frames) /\ b.w.ub = push.ub
  BY <1>7 DEF Kept, CycleInv, Shaped
<1>9. /\ DOMAIN live = Fields /\ live.frames = b.w.frames /\ live.cycles = b.w.cycles
      /\ live.child = to /\ live.ub = b.w.ub
  BY <1>8 DEF Fields
<1> HIDE DEF live
<1>10. DOMAIN to = {"state", "list"} /\ to.state \in {"none", "live"}
  BY NoList
<1>11. CycleInv(live)
  <2>1. CASE b.list = <<>>
    <3>1. to = NoChild
      BY <2>1
    <3>2. live.child.state # "live" /\ IsList(live.child.list) /\ DOMAIN live.child = {"state", "list"}
      BY <1>9, <1>10, <3>1, NoList
    <3> QED
      BY <1>8, <1>9, <3>2, ChildGone
  <2>2. CASE b.list # <<>>
    <3>1. to.list = b.list
      BY <2>2
    <3>2. Cur(b.w).info = "D" /\ Cur(b.w).ino \in DOMAIN b.w.cycles
      BY <1>5, <1>6, <1>7, <1>8, <2>2
    <3>3. SoundList(b.w, b.list, Len(b.w.frames))
      BY <1>7, <1>8, <2>2
    <3> HIDE DEF to
    <3> QED
      BY <1>7, <1>8, <1>9, <1>10, <2>2, <3>1, <3>2, <3>3, ListMade
  <2> QED
    BY <2>1, <2>2
<1> HIDE DEF to
<1>12. /\ DOMAIN back = Fields /\ back.frames = live.frames /\ back.cycles = live.cycles
       /\ back.child = live.child /\ back.ub = live.ub
  BY <1>9 DEF Fields
<1> HIDE DEF back
<1>13. CycleInv(back)
  BY <1>11, <1>12, SameEntries
<1>14. Fresh(s) => ~b.w.ub
  BY <1>2, <1>3, <1>5, <1>8 DEF Fresh
<1>15. CASE PushFails(s, f) /\ s' = w
  <2>1. s.child.state # "live"
    BY <1>15 DEF PushFails, CycleInv, SoundChild
  <2>2. Fresh(s) => w.child = s.child /\ w.ub = s.ub
    BY <1>2, <1>3, <2>1 DEF Fresh
  <2> QED
    BY <1>4, <1>15, <2>2 DEF Fresh
<1>16. CASE s' = live
  BY <1>9, <1>10, <1>11, <1>14, <1>16 DEF Fresh
<1>17. CASE f = "dot" /\ s' = push
  BY <1>5, <1>17
<1>18. CASE s' = back
  BY <1>9, <1>10, <1>12, <1>13, <1>14, <1>18 DEF Fresh
<1> QED
  BY <1>1, <1>15, <1>16, <1>17, <1>18

LEMMA CloseGood == ASSUME CycleInv(s), NEW f, Close(f) PROVE Good(s, s')
<1> DEFINE w    == IF s.frames = <<>> THEN s ELSE CloseSym(s)
           open == {k \in DOMAIN w.frames : w.frames[k].ent.sym = "open"}
<1>1. s' = [w EXCEPT !.frames = <<>>, !.child = NoChild, !.cycles = <<>>, !.closed = TRUE,
                     !.lost = @ + Cardinality(open), !.ub = @ \/ w.child.state = "freed",
                     !.cwd = CwdAtClose(f)]
  BY DEF Close
<1>2. DOMAIN w = Fields /\ w.child = s.child /\ w.ub = s.ub
  <2>1. s.frames # <<>> => Kept(s, CloseSym(s))
    BY CloseSymInv
  <2> QED
    BY <2>1 DEF Kept, CycleInv, Shaped
<1> HIDE DEF w, open
<1>3. /\ DOMAIN s' = Fields /\ s'.frames = <<>> /\ s'.cycles = <<>> /\ s'.child = NoChild
      /\ s'.ub = (w.ub \/ w.child.state = "freed")
  BY <1>1, <1>2 DEF Fields
<1>4. DOMAIN s'.cycles = {}
  BY <1>3
<1>5. CycleInv(s')
  BY <1>3, <1>4, NoList, NoFrames
<1>6. Fresh(s) => Fresh(s')
  BY <1>2, <1>3, NoList DEF Fresh
<1> QED
  BY <1>5, <1>6 DEF Good
----------------------------------------------------------------------------
(* The invariant.                                                          *)

LEMMA RootEntryIs ==
    ASSUME NEW w, w.cycles = <<>>, NEW path, NEW f
    PROVE  /\ DOMAIN RootEntry(w, path, f) = EntryFields
           /\ RootEntry(w, path, f).instr = "none" /\ Sound(w, RootEntry(w, path, f), 0)
<1> DEFINE e == Entry(0, Len(path.names), path)
           follow == w.comfollow
           i == IF f = "stat" THEN None ELSE Resolve(Home, path)
           r == Stat(w, e, follow, i, 0)
<1>1. RootEntry(w, path, f) = r
  BY DEF RootEntry
<1>2. DOMAIN e = EntryFields /\ e.instr = "none"
  BY DEF Entry, EntryFields
<1>3. DOMAIN <<>> = {}
  OBVIOUS
<1>4. TableBelow(w, 0)
  BY <1>3 DEF TableBelow
<1> HIDE DEF e, i, follow
<1>5. DOMAIN r = EntryFields /\ r.instr = e.instr /\ Sound(w, r, 0)
  BY <1>2, <1>4, StatIs
<1> QED
  BY <1>1, <1>2, <1>5

LEMMA StreamInv == ASSUME NEW walk, NEW f PROVE CycleInv(Stream(walk, f)) /\ Fresh(Stream(walk, f))
<1> DEFINE w == [frames |-> <<>>, child |-> NoChild, path |-> Buffer, cycles |-> <<>>,
                 logical |-> walk.logical, comfollow |-> walk.comfollow,
                 nochdir |-> walk.logical \/ walk.nochdir \/ f = "dot",
                 rfd |-> RootFd(walk, f), stop |-> FALSE, nameonly |-> FALSE, cwd |-> Home,
                 lost |-> 0, twice |-> FALSE, ub |-> FALSE, closed |-> FALSE]
           root == Entry(0, 0, Buffer)
           list == [k \in DOMAIN Roots |-> RootEntry(w, Roots[k], f)]
           p == [ent |-> root, rest |-> list]
           v == [w EXCEPT !.frames = <<p>>]
<1>1. v = Stream(walk, f)
  BY DEF Stream
<1>2. w.cycles = <<>> /\ w.child = NoChild /\ w.ub = FALSE /\ DOMAIN w = Fields
  BY DEF Fields
<1> HIDE DEF w
<1>3. /\ DOMAIN v = Fields /\ v.frames = <<p>> /\ v.cycles = <<>> /\ v.child = NoChild
      /\ v.ub = FALSE
  BY <1>2 DEF Fields
<1>4. Len(Roots) \in Nat /\ DOMAIN Roots = 1..Len(Roots)
  BY FtsAssumption, LenProperties
<1>5. list = [k \in 1..Len(Roots) |-> list[k]] /\ DOMAIN list = 1..Len(Roots)
  BY <1>4
<1>6. ASSUME NEW k \in 1..Len(Roots)
      PROVE  DOMAIN list[k] = EntryFields /\ list[k].instr = "none" /\ Sound(w, list[k], 0)
  <2>1. list[k] = RootEntry(w, Roots[k], f)
    BY <1>4
  <2> HIDE DEF list
  <2> QED
    BY <1>2, <2>1, RootEntryIs
<1> HIDE DEF list
<1>7. IsList(list)
  BY <1>4, <1>5, <1>6, FunctionIsSeq DEF IsList
<1>8. DOMAIN root = EntryFields /\ root.info = "INIT" /\ root.instr = "none"
  BY DEF Entry, EntryFields
<1> HIDE DEF root
<1>9. IsFrame(p) /\ p.ent = root /\ p.rest = list
  BY <1>7, <1>8 DEF IsFrame
<1> HIDE DEF p, v
<1>10. IsSeq(<<p>>) /\ Len(<<p>>) = 1 /\ <<p>>[1] = p
  <2>1. <<p>> \in Seq({p})
    OBVIOUS
  <2> QED
    BY <2>1, InSeq
<1>11. DOMAIN v.frames = 1..1 /\ v.frames[1] = p /\ Len(v.frames) = 1
  BY <1>3, <1>10, SeqIs
<1>12. Shaped(v)
  BY <1>3, <1>9, <1>10, <1>11, NoList DEF Shaped
<1>13. Sound(v, root, 0)
  BY <1>8 DEF Sound
<1>14. ASSUME NEW k \in 1..Len(Roots) PROVE Sound(v, list[k], 0)
  <2>1. \A j \in 1..0 : v.frames[j].ent.ino = w.frames[j].ent.ino
    OBVIOUS
  <2> QED
    BY <1>6, <2>1, SoundSame
<1>15. SoundList(v, list, 0)
  BY <1>5, <1>6, <1>14 DEF SoundList
<1>16. SoundFrames(v)
  BY <1>8, <1>9, <1>11, <1>13, <1>15 DEF SoundFrames
<1>17. DOMAIN v.cycles = {} /\ v.child.state = "none"
  BY <1>3, NoList
<1> QED
  BY <1>1, <1>3, <1>12, <1>16, <1>17 DEF CycleInv, SoundTable, SoundChild, Fresh

LEMMA WalkInit == ASSUME NoneAgain, Init PROVE WalkInv /\ Fresh(s)
<1>1. PICK walk \in Walks, f \in Strikes("open") \cap {"ok", "stat", "dot"} :
         /\ tree \in walk.trees
         /\ s = Stream(walk, f)
         /\ asks = [instrs |-> walk.instrs, children |-> walk.children]
  BY DEF Init
<1>2. TreeOK
  BY <1>1, FtsAssumption DEF IsWalk, TreeOK
<1>3. asks.instrs \cap Again = {}
  BY <1>1 DEF NoneAgain
<1> QED
  BY <1>1, <1>2, <1>3, StreamInv DEF WalkInv

LEMMA RenameTree ==
    ASSUME TreeOK, NEW d \in Dirs, NEW e \in Dirs, NEW n \in Names, NEW m \in Names,
           Rename(d, n, e, m)
    PROVE  TreeOK'
<1> DEFINE gone == [tree EXCEPT ![d] = [k \in DOMAIN @ \ {n} |-> @[k]]]
           to   == [k \in DOMAIN gone[e] \cup {m} |-> IF k = m THEN tree[d][n] ELSE gone[e][k]]
<1>1. tree' = [gone EXCEPT ![e] = to]
  BY DEF Rename
<1>2. DOMAIN gone = Dirs /\ \A c \in Dirs : DOMAIN gone[c] \subseteq Names
  BY DEF TreeOK
<1> HIDE DEF gone
<1>3. DOMAIN to \subseteq Names
  BY <1>2
<1> HIDE DEF to
<1> QED
  BY <1>1, <1>2, <1>3 DEF TreeOK

\* What every step shows.
LEMMA WalkStep ==
    ASSUME NoneAgain, WalkInv, [Next]_vars
    PROVE  WalkInv' /\ (<<"children", "dot">> \notin Faults /\ Fresh(s) => Fresh(s'))
<1> DEFINE Goal == TreeOK' /\ asks' = asks /\ CycleInv(s')
                   /\ (<<"children", "dot">> \notin Faults /\ Fresh(s) => Fresh(s'))
<1>1. TreeOK /\ asks.instrs \cap Again = {} /\ CycleInv(s)
  BY DEF WalkInv
<1>2. ASSUME Good(s, s'), tree' = tree, asks' = asks PROVE Goal
  BY <1>1, <1>2 DEF TreeOK, Good
<1> HIDE DEF Goal
<1>3. ASSUME UNCHANGED vars PROVE Goal
  <2>1. s' = s /\ tree' = tree /\ asks' = asks
    BY <1>3 DEF vars
  <2>2. Good(s, s')
    BY <1>1, <2>1 DEF Good
  <2> QED
    BY <1>2, <2>1, <2>2
<1>4. ASSUME ReadPlain PROVE Goal
  <2>1. tree' = tree /\ asks' = asks
    BY <1>4 DEF ReadPlain, ReadEnd, ReadSkip, ReadDone, Returns
  <2>2. Good(s, s')
    BY <1>1, <1>4, ReadEndGood, ReadSkipGood, ReadDoneGood DEF ReadPlain
  <2> QED
    BY <1>2, <2>1, <2>2
<1>5. ASSUME NEW f \in Strikes("read"), Read(f) PROVE Goal
  <2>1. tree' = tree /\ asks' = asks
    BY <1>5 DEF Read, ReadAgain, ReadFollow, ReadPushFails, ReadBuild, ReadListed, ReadRoot,
                ReadSibling, ReadUp, Returns
  <2>2. Good(s, s')
    BY <1>1, <1>5, ReadAgainGood, ReadFollowGood, ReadPushFailsGood, ReadBuildGood,
       ReadListedGood, ReadRootGood, ReadSiblingGood, ReadUpGood DEF Read
  <2> QED
    BY <1>2, <2>1, <2>2
<1>6. ASSUME NEW type \in asks.children, NEW f \in Strikes("children"), Children(type, f)
      PROVE  Goal
  <2>1. tree' = tree /\ asks' = asks
    BY <1>6 DEF Children
  <2>2. TreeOK'
    BY <1>1, <2>1 DEF TreeOK
  <2>3. CycleInv(s') /\ (Fresh(s) /\ f # "dot" => Fresh(s'))
    BY <1>1, <1>6, ChildrenGood
  <2>4. <<"children", "dot">> \notin Faults => f # "dot"
    BY DEF Strikes
  <2> QED
    BY <2>1, <2>2, <2>3, <2>4 DEF Goal
<1>7. ASSUME NEW f \in Strikes("close"), Close(f) PROVE Goal
  <2>1. tree' = tree /\ asks' = asks
    BY <1>7 DEF Close
  <2> QED
    BY <1>1, <1>2, <1>7, <2>1, CloseGood
<1>8. ASSUME NEW instr \in {"again", "follow", "skip"}, Set(instr) PROVE Goal
  <2>1. tree' = tree /\ asks' = asks
    BY <1>8 DEF Set
  <2> QED
    BY <1>1, <1>2, <1>8, <2>1, SetGood
<1>9. ASSUME NEW instr \in ListedInstrs, NEW j, SetListed(j, instr) \/ SetRoot(j, instr)
      PROVE  Goal
  <2>1. tree' = tree /\ asks' = asks
    BY <1>9 DEF SetListed, SetRoot
  <2>2. instr # "again"
    BY DEF NoneAgain
  <2> QED
    BY <1>1, <1>2, <1>9, <2>1, <2>2, SetListedGood, SetRootGood
<1>10. ASSUME NEW d \in Dirs, NEW e \in Dirs, NEW n \in Names, NEW m \in Names,
              Rename(d, n, e, m)
       PROVE  Goal
  <2>1. s' = s /\ asks' = asks
    BY <1>10 DEF Rename
  <2>2. TreeOK'
    BY <1>1, <1>10, RenameTree
  <2> QED
    BY <1>1, <2>1, <2>2 DEF Goal
<1>11. Goal
  <2>1. \/ ReadPlain
        \/ \E f \in Strikes("read") : Read(f)
        \/ \E type \in asks.children, f \in Strikes("children") : Children(type, f)
        \/ \E f \in Strikes("close") : Close(f)
        \/ \E instr \in {"again", "follow", "skip"} : Set(instr)
        \/ \E instr \in ListedInstrs, j \in DOMAIN s.child.list \cup DOMAIN Roots :
              SetListed(j, instr) \/ SetRoot(j, instr)
        \/ \E d, e \in Dirs, n, m \in Names : Rename(d, n, e, m)
        \/ UNCHANGED vars
    BY DEF Next
  <2> QED
    BY <1>3, <1>4, <1>5, <1>6, <1>7, <1>8, <1>9, <1>10, <2>1
<1> QED
  BY <1>1, <1>11 DEF WalkInv, Goal

LEMMA WalkAlways == ASSUME NoneAgain PROVE Spec => []WalkInv
<1>1. Init => WalkInv
  BY WalkInit
<1>2. WalkInv /\ [Next]_vars => WalkInv'
  BY WalkStep
<1> QED
  BY <1>1, <1>2, PTL DEF Spec
----------------------------------------------------------------------------
(* The theorems.                                                           *)

\* The table of directories speaks of entries that exist and still are the
\* directory they were entered for: fts_cycle_push and fts_cycle_pop are called
\* in step with the walk on every path of fts_read and fts_children, whatever
\* fails or is renamed.  A program that asks for a directory with FTS_AGAIN is left out.
THEOREM TableLive == ASSUME NoneAgain PROVE Spec => []CycleTableLive
<1>1. WalkInv => CycleTableLive
  BY DEF WalkInv, CycleInv, SoundTable, Entered, CycleTableLive
<1> QED
  BY <1>1, WalkAlways, PTL

\* fts_cycle of an FTS_DC entry leads to a live entry of the same directory above
\* it, and the walk is never in a directory twice, in every file system: whatever
\* fails or is renamed, fts_stat looks through the entries above and the table.
THEOREM CyclesAreAncestors == ASSUME NoneAgain PROVE Spec => []CycleIsAncestor
<1>1. ASSUME WalkInv PROVE CycleIsAncestor
  <2> SUFFICES ASSUME Walking PROVE
        /\ \A k \in DOMAIN s.frames :
              \A e \in {s.frames[k].ent} \cup Range(s.frames[k].rest) : CycleOf(e, k - 1)
        /\ s.child.state = "live" =>
              \A e \in Range(s.child.list) : CycleOf(e, Level(s) + 1)
        /\ \A j, k \in 1..Len(s.frames) - 1 :
              s.frames[j].ent.ino = s.frames[k].ent.ino => j = k
    BY DEF CycleIsAncestor
  <2>1. CycleInv(s) /\ s.frames # <<>>
    BY <1>1 DEF WalkInv, Walking
  <2>2. Len(s.frames) \in Nat \ {0} /\ DOMAIN s.frames = 1..Len(s.frames)
        /\ Level(s) + 1 = Len(s.frames)
    BY <2>1, CurIs DEF CycleInv
  <2>3. ASSUME NEW e, NEW k, Sound(s, e, k) PROVE CycleOf(e, k)
    BY <2>3 DEF Sound, CycleOf
  <2>4. ASSUME NEW list, NEW k, SoundList(s, list, k), NEW e \in Range(list) PROVE CycleOf(e, k)
    <3>1. PICK j \in DOMAIN list : e = list[j]
      BY DEF Range
    <3> QED
      BY <2>3, <2>4, <3>1 DEF SoundList
  <2>5. ASSUME NEW k \in DOMAIN s.frames, NEW e \in {s.frames[k].ent} \cup Range(s.frames[k].rest)
        PROVE  CycleOf(e, k - 1)
    <3>1. Sound(s, s.frames[k].ent, k - 1) /\ SoundList(s, s.frames[k].rest, k - 1)
      BY <2>1 DEF CycleInv, SoundFrames
    <3> QED
      BY <2>3, <2>4, <3>1
  <2>6. ASSUME s.child.state = "live", NEW e \in Range(s.child.list)
        PROVE  CycleOf(e, Level(s) + 1)
    BY <2>1, <2>2, <2>4, <2>6 DEF CycleInv, SoundChild
  <2>7. ASSUME NEW j \in 1..Len(s.frames) - 1, NEW k \in 1..Len(s.frames) - 1, j < k
        PROVE  s.frames[j].ent.ino # s.frames[k].ent.ino
    <3>1. k \in DOMAIN s.frames /\ k < Len(s.frames) /\ j \in 1..k - 1
      BY <2>2, <2>7
    <3>2. s.frames[k].ent.info = "D" /\ Sound(s, s.frames[k].ent, k - 1)
      BY <2>1, <3>1 DEF CycleInv, SoundFrames
    <3> QED
      BY <3>1, <3>2 DEF Sound
  <2>8. ASSUME NEW j \in 1..Len(s.frames) - 1, NEW k \in 1..Len(s.frames) - 1,
               s.frames[j].ent.ino = s.frames[k].ent.ino
        PROVE  j = k
    <3>1. j \in Int /\ k \in Int /\ ~(j < k) /\ ~(k < j)
      BY <2>2, <2>7, <2>8
    <3> QED
      BY <3>1
  <2> QED
    BY <2>5, <2>6, <2>8
<1> QED
  BY <1>1, WalkAlways, PTL

\* The list of fts_children is never used, nor freed again, after it was freed or
\* the directory it was made for was, in every sequence of calls, whatever fails
\* or is renamed; but the open of "." in fts_children must not fail, which
\* returns with fts_child pointing to the list it has freed.
THEOREM NoListStale ==
    ASSUME NoneAgain, <<"children", "dot">> \notin Faults PROVE Spec => []NoStaleList
<1>1. Init => WalkInv /\ Fresh(s)
  BY WalkInit
<1>2. (WalkInv /\ Fresh(s)) /\ [Next]_vars => (WalkInv /\ Fresh(s))'
  BY WalkStep
<1>3. WalkInv /\ Fresh(s) => NoStaleList
  BY DEF Fresh, NoStaleList
<1> QED
  BY <1>1, <1>2, <1>3, PTL DEF Spec
===============================================================================
