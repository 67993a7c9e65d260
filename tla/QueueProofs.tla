----------------------------- MODULE QueueProofs -----------------------------
(***************************************************************************)
(* What holds of the lists of queue.h for every set of elements and heads: *)
(* after every macro the lists are linked as their kind wants it, a macro  *)
(* does to the sequence of elements what its name says, and a loop that    *)
(* removes the element at hand misses none.                                *)
(*                                                                         *)
(* The invariant is that there is a sequence of elements per head, no      *)
(* element in two places, that memory represents (Linked).  The macros of  *)
(* the six kinds make one of four changes to memory: an element is put     *)
(* behind a field (Inserted), taken away from behind it (Removed),         *)
(* exchanged (Replaced), or a list is put behind another (Joined).  That   *)
(* these keep memory linked is shown once for all kinds, and of each macro *)
(* which of them it makes and where.                                       *)
(***************************************************************************)
EXTENDS Queue, FiniteSetTheorems, SequenceTheorems, NaturalsInduction, WellFoundedInduction, TLAPS

----------------------------------------------------------------------------
(* Sequences.                                                              *)

\* A set of numbers has a smallest one.
LEMMA LeastIs == ASSUME NEW T, T \subseteq Nat, T # {} PROVE \E x \in T : \A y \in T : x <= y
<1>1. PICK x \in T : \A y \in T : ~(<<y, x>> \in OpToRel(<, Nat))
  BY NatLessThanWellFounded, WFMin
<1>2. \A y \in T : ~(y < x)
  BY <1>1 DEF OpToRel
<1> QED
  BY <1>2

\* An element is put at position i + 1, and the following move up.
LEMMA InsertIs ==
    ASSUME NEW S, NEW s \in Seq(S), NEW i \in 0..Len(s), NEW e \in S
    PROVE  /\ InsertAt(s, i + 1, e) \in Seq(S) /\ Len(InsertAt(s, i + 1, e)) = Len(s) + 1
           /\ \A j \in 1..Len(s) + 1 :
                 InsertAt(s, i + 1, e)[j] = IF j <= i THEN s[j] ELSE IF j = i + 1 THEN e ELSE s[j - 1]
<1> DEFINE p == SubSeq(s, 1, i)
           q == SubSeq(s, i + 1, Len(s))
<1>1. Len(s) \in Nat /\ i \in Nat /\ i <= Len(s)
  BY LenProperties
<1>2. p \in Seq(S) /\ Len(p) = i /\ \A j \in 1..i : p[j] = s[j]
  <2>1. \A j \in 1..i : s[j] \in S
    BY <1>1, ElementOfSeq
  <2> QED
    BY <1>1, <2>1, SubSeqProperties
<1>3. q \in Seq(S) /\ Len(q) = Len(s) - i /\ \A j \in 1..Len(s) - i : q[j] = s[i + j]
  <2>1. \A j \in i + 1..Len(s) : s[j] \in S
    BY <1>1, ElementOfSeq
  <2>2. /\ q \in Seq(S) /\ Len(q) = IF i + 1 <= Len(s) THEN Len(s) - (i + 1) + 1 ELSE 0
        /\ \A j \in 1..Len(s) - (i + 1) + 1 : q[j] = s[(i + 1) + j - 1]
    BY <1>1, <2>1, SubSeqProperties
  <2> HIDE DEF q
  <2> QED
    BY <1>1, <2>2
<1> HIDE DEF p, q
<1>4. <<e>> \in Seq(S) /\ Len(<<e>>) = 1 /\ <<e>>[1] = e
  OBVIOUS
<1>5. /\ p \o <<e>> \in Seq(S) /\ Len(p \o <<e>>) = i + 1
      /\ \A j \in 1..i + 1 : (p \o <<e>>)[j] = IF j <= i THEN s[j] ELSE e
  <2>1. PICK o : o = <<e>>
    OBVIOUS
  <2>2. /\ p \o o \in Seq(S) /\ Len(p \o o) = Len(p) + Len(o)
        /\ \A j \in 1..Len(p) + Len(o) : (p \o o)[j] = IF j <= Len(p) THEN p[j] ELSE o[j - Len(p)]
    BY <1>2, <1>4, <2>1, ConcatProperties
  <2>3. \A j \in 1..i + 1 : j <= i \/ j - i = 1
    BY <1>1
  <2> QED
    BY <1>1, <1>2, <1>4, <2>1, <2>2, <2>3
<1>6. PICK u : u = p \o <<e>>
  OBVIOUS
<1>7. /\ u \o q \in Seq(S) /\ Len(u \o q) = Len(u) + Len(q)
      /\ \A j \in 1..Len(u) + Len(q) : (u \o q)[j] = IF j <= Len(u) THEN u[j] ELSE q[j - Len(u)]
  <2>1. u \in Seq(S)
    BY <1>5, <1>6
  <2> QED
    BY <1>3, <2>1, ConcatProperties
<1>8. InsertAt(s, i + 1, e) = u \o q
  <2>1. (i + 1) - 1 = i
    BY <1>1
  <2> QED
    BY <1>6, <2>1 DEF InsertAt, p, q
<1>9. Len(u) + Len(q) = Len(s) + 1 /\ Len(u) = i + 1
  BY <1>1, <1>3, <1>5, <1>6
<1>10. ASSUME NEW j \in 1..Len(s) + 1
       PROVE  (u \o q)[j] = IF j <= i THEN s[j] ELSE IF j = i + 1 THEN e ELSE s[j - 1]
  <2>1. CASE j <= i + 1
    BY <1>1, <1>5, <1>6, <1>7, <1>9, <2>1
  <2>2. CASE j > i + 1
    <3>1. j - (i + 1) \in 1..Len(s) - i /\ i + (j - (i + 1)) = j - 1
      BY <1>1, <2>2
    <3>2. (u \o q)[j] = q[j - (i + 1)]
      BY <1>1, <1>7, <1>9, <2>2
    <3>3. ~(j <= i) /\ j # i + 1
      BY <1>1, <2>2
    <3> QED
      BY <1>3, <3>1, <3>2, <3>3
  <2>3. j <= i + 1 \/ j > i + 1
    BY <1>1
  <2> QED
    BY <2>1, <2>2, <2>3
<1> QED
  BY <1>7, <1>8, <1>9, <1>10

\* The element at position i + 1 is taken out, and the following move down.
LEMMA RemoveIs ==
    ASSUME NEW S, NEW s \in Seq(S), NEW i \in 0..Len(s) - 1
    PROVE  /\ RemoveAt(s, i + 1) \in Seq(S) /\ Len(RemoveAt(s, i + 1)) = Len(s) - 1
           /\ \A j \in 1..Len(s) - 1 : RemoveAt(s, i + 1)[j] = IF j <= i THEN s[j] ELSE s[j + 1]
<1> DEFINE p == SubSeq(s, 1, i)
           q == SubSeq(s, i + 2, Len(s))
<1>1. Len(s) \in Nat /\ i \in Nat /\ i + 1 <= Len(s)
  BY LenProperties
<1>2. p \in Seq(S) /\ Len(p) = i /\ \A j \in 1..i : p[j] = s[j]
  <2>1. \A j \in 1..i : s[j] \in S
    BY <1>1, ElementOfSeq
  <2> QED
    BY <1>1, <2>1, SubSeqProperties
<1>3. q \in Seq(S) /\ Len(q) = Len(s) - (i + 1) /\ \A j \in 1..Len(s) - (i + 1) : q[j] = s[i + 1 + j]
  <2>1. \A j \in i + 2..Len(s) : s[j] \in S
    BY <1>1, ElementOfSeq
  <2>2. /\ q \in Seq(S) /\ Len(q) = IF i + 2 <= Len(s) THEN Len(s) - (i + 2) + 1 ELSE 0
        /\ \A j \in 1..Len(s) - (i + 2) + 1 : q[j] = s[(i + 2) + j - 1]
    BY <1>1, <2>1, SubSeqProperties
  <2> HIDE DEF q
  <2> QED
    BY <1>1, <2>2
<1> HIDE DEF p, q
<1>4. /\ p \o q \in Seq(S) /\ Len(p \o q) = Len(p) + Len(q)
      /\ \A j \in 1..Len(p) + Len(q) : (p \o q)[j] = IF j <= Len(p) THEN p[j] ELSE q[j - Len(p)]
  BY <1>2, <1>3, ConcatProperties
<1>5. RemoveAt(s, i + 1) = p \o q
  <2>1. (i + 1) - 1 = i /\ (i + 1) + 1 = i + 2
    BY <1>1
  <2> QED
    BY <2>1 DEF RemoveAt, p, q
<1>6. Len(p) + Len(q) = Len(s) - 1
  BY <1>1, <1>2, <1>3
<1>7. ASSUME NEW j \in 1..Len(s) - 1 PROVE (p \o q)[j] = IF j <= i THEN s[j] ELSE s[j + 1]
  <2>1. CASE j <= i
    BY <1>1, <1>2, <1>4, <1>6, <2>1
  <2>2. CASE j > i
    <3>1. j - i \in 1..Len(s) - (i + 1) /\ i + 1 + (j - i) = j + 1
      BY <1>1, <2>2
    <3>2. (p \o q)[j] = q[j - i]
      BY <1>1, <1>2, <1>4, <1>6, <2>2
    <3> QED
      BY <1>1, <1>3, <2>2, <3>1, <3>2
  <2>3. j <= i \/ j > i
    BY <1>1
  <2> QED
    BY <2>1, <2>2, <2>3
<1> QED
  BY <1>4, <1>5, <1>6, <1>7

----------------------------------------------------------------------------
(* Memory that represents lists.                                           *)

\* A pointer as it is stored in a field of h, or of an element of its list.
Mask(h, v) == IF kind = "XSIMPLEQ" THEN Xor(h, v) ELSE v

Tailed == kind \notin {"SLIST", "LIST"}
Backed == kind \in {"LIST", "TAILQ"}

\* No element is in two places of the lists L.
Once(L) ==
    \A g, h \in Heads : \A i \in 1..Len(L[g]), j \in 1..Len(L[h]) : L[g][i] = L[h][j] => g = h /\ i = j

AreLists(L) == L \in [Heads -> Seq(Elms)] /\ Once(L)

\* The field after i elements of h, and the element that follows them.
FieldOf(L, h, i) == IF i = 0 THEN FirstAt(h) ELSE NextAt(L[h][i])
ElmAt(L, h, i) == IF i < Len(L[h]) THEN L[h][i + 1] ELSE Null

LinkedIn(mem, L) ==
    /\ \A h \in Heads : \A i \in 0..Len(L[h]) : mem[FieldOf(L, h, i)] = Mask(h, ElmAt(L, h, i))
    /\ Tailed => \A h \in Heads : mem[LastAt(h)] = Mask(h, FieldOf(L, h, Len(L[h])))
    /\ Backed => \A h \in Heads : \A i \in 1..Len(L[h]) : mem[PrevAt(L[h][i])] = FieldOf(L, h, i - 1)

\* Fields of different things, or of a different name, have different addresses.
LEMMA Addresses ==
    /\ \A g, h : FirstAt(g) = FirstAt(h) => g = h
    /\ \A g, h : LastAt(g) = LastAt(h) => g = h
    /\ \A e, f : NextAt(e) = NextAt(f) => e = f
    /\ \A e, f : PrevAt(e) = PrevAt(f) => e = f
    /\ \A g, h : FirstAt(g) # LastAt(h)
    /\ \A h, e : FirstAt(h) # NextAt(e) /\ FirstAt(h) # PrevAt(e)
    /\ \A h, e : LastAt(h) # NextAt(e) /\ LastAt(h) # PrevAt(e)
    /\ \A e, f : NextAt(e) # PrevAt(f)
<1>1. "first" # "last" /\ "first" # "next" /\ "first" # "prev" /\ "last" # "next" /\ "last" # "prev"
      /\ "next" # "prev"
  OBVIOUS
<1>2. \A a, b, x, y : <<a, x>> = <<b, y>> => a = b /\ x = y
  OBVIOUS
<1> QED
  BY <1>1, <1>2 DEF FirstAt, LastAt, NextAt, PrevAt

LEMMA InFields ==
    /\ \A h \in Heads : FirstAt(h) \in Fields /\ LastAt(h) \in Fields
    /\ \A e \in Elms : NextAt(e) \in Fields /\ PrevAt(e) \in Fields
<1>1. ASSUME NEW h \in Heads PROVE FirstAt(h) \in Fields /\ LastAt(h) \in Fields
  <2>1. {FirstAt(h), LastAt(h)} \in {{FirstAt(g), LastAt(g)} : g \in Heads}
    OBVIOUS
  <2>2. FirstAt(h) \in {FirstAt(h), LastAt(h)} /\ LastAt(h) \in {FirstAt(h), LastAt(h)}
    OBVIOUS
  <2>3. UNION {{FirstAt(g), LastAt(g)} : g \in Heads} \subseteq Fields
    BY Zenon DEF Fields
  <2> QED
    BY <2>1, <2>2, <2>3
<1>2. ASSUME NEW e \in Elms PROVE NextAt(e) \in Fields /\ PrevAt(e) \in Fields
  <2>1. {NextAt(e), PrevAt(e)} \in {{NextAt(f), PrevAt(f)} : f \in Elms}
    OBVIOUS
  <2>2. NextAt(e) \in {NextAt(e), PrevAt(e)} /\ PrevAt(e) \in {NextAt(e), PrevAt(e)}
    OBVIOUS
  <2>3. UNION {{NextAt(f), PrevAt(f)} : f \in Elms} \subseteq Fields
    BY Zenon DEF Fields
  <2> QED
    BY <2>1, <2>2, <2>3
<1> QED
  BY <1>1, <1>2

\* A mask is taken off by putting it on again, and hides no difference.
LEMMA MaskIs ==
    ASSUME NEW h \in Heads
    PROVE  /\ \A v \in Bare : Xor(h, Xor(h, v)) = v
           /\ \A v \in Bare, w \in Bare : Mask(h, v) = Mask(h, w) => v = w
           /\ ~cookie => \A v : Xor(h, v) = v /\ Mask(h, v) = v
           /\ kind # "XSIMPLEQ" => \A v : Mask(h, v) = v
           /\ kind = "XSIMPLEQ" => \A v : Mask(h, v) = Xor(h, v)
<1>1. \A v \in Bare : <<"masked", h, v>> \notin Bare
  BY QueueAssumption
<1>2. \A v \in Bare : <<"masked", h, v>>[2] = h /\ <<"masked", h, v>>[3] = v
  OBVIOUS
<1>3. \A v \in Bare : Xor(h, Xor(h, v)) = v
  BY <1>1, <1>2 DEF Xor
<1>4. \A v \in Bare, w \in Bare : Xor(h, v) = Xor(h, w) => v = w
  BY <1>3
<1> QED
  BY <1>3, <1>4 DEF Xor, Mask

\* What is in the fields of a list.
LEMMA ListFields ==
    ASSUME NEW L, AreLists(L), NEW h \in Heads
    PROVE  /\ L[h] \in Seq(Elms) /\ Len(L[h]) \in Nat
           /\ \A i \in 1..Len(L[h]) : L[h][i] \in Elms
           /\ \A i \in 0..Len(L[h]) : FieldOf(L, h, i) \in Fields /\ ElmAt(L, h, i) \in Elms \cup {Null}
           /\ \A i \in 0..Len(L[h]) - 1 : ElmAt(L, h, i) = L[h][i + 1] /\ ElmAt(L, h, i) \in Elms
           /\ ElmAt(L, h, Len(L[h])) = Null /\ Null \notin Elms
<1>1. L[h] \in Seq(Elms)
  BY DEF AreLists
<1>2. Len(L[h]) \in Nat /\ \A i \in 1..Len(L[h]) : L[h][i] \in Elms
  BY <1>1, LenProperties, ElementOfSeq
<1>3. ASSUME NEW i \in 0..Len(L[h]) PROVE FieldOf(L, h, i) \in Fields
  <2>1. i # 0 => i \in 1..Len(L[h])
    BY <1>2
  <2> QED
    BY <1>2, <2>1, InFields DEF FieldOf
<1>4. ASSUME NEW i \in 0..Len(L[h]) PROVE i < Len(L[h]) => ElmAt(L, h, i) = L[h][i + 1] /\ L[h][i + 1] \in Elms
  <2>1. i < Len(L[h]) => i + 1 \in 1..Len(L[h])
    BY <1>2
  <2> QED
    BY <1>2, <2>1 DEF ElmAt
<1>5. ASSUME NEW i \in 0..Len(L[h]) PROVE ~(i < Len(L[h])) => ElmAt(L, h, i) = Null
  BY DEF ElmAt
<1>6. \A i \in 0..Len(L[h]) - 1 : i \in 0..Len(L[h]) /\ i < Len(L[h])
  BY <1>2
<1>7. Len(L[h]) \in 0..Len(L[h]) /\ ~(Len(L[h]) < Len(L[h]))
  BY <1>2
<1> QED
  BY <1>1, <1>2, <1>3, <1>4, <1>5, <1>6, <1>7, QueueAssumption

\* No field is that of two places.
LEMMA FieldsDiffer ==
    ASSUME NEW L, AreLists(L), NEW g \in Heads, NEW h \in Heads, NEW i \in 0..Len(L[g])
    PROVE  /\ \A j \in 0..Len(L[h]) : FieldOf(L, g, i) = FieldOf(L, h, j) => g = h /\ i = j
           /\ \A x : FieldOf(L, g, i) # LastAt(x) /\ FieldOf(L, g, i) # PrevAt(x)
           /\ \A e : FieldOf(L, g, i) = NextAt(e) => i \in 1..Len(L[g]) /\ L[g][i] = e
<1>1. Len(L[g]) \in Nat /\ Len(L[h]) \in Nat
  BY ListFields
<1>2. i = 0 \/ i \in 1..Len(L[g])
  BY <1>1
<1>3. \A j \in 0..Len(L[h]) : j = 0 \/ j \in 1..Len(L[h])
  BY <1>1
<1>4. ASSUME NEW j \in 0..Len(L[h]), FieldOf(L, g, i) = FieldOf(L, h, j) PROVE g = h /\ i = j
  <2>1. CASE i = 0
    BY <1>1, <2>1, <1>4, Addresses DEF FieldOf
  <2>2. CASE i # 0
    <3>1. j # 0 /\ L[g][i] = L[h][j]
      BY <1>4, <2>2, Addresses DEF FieldOf
    <3> QED
      BY <1>2, <1>3, <2>2, <3>1 DEF AreLists, Once
  <2> QED
    BY <2>1, <2>2
<1>5. \A x : FieldOf(L, g, i) # LastAt(x) /\ FieldOf(L, g, i) # PrevAt(x)
  BY Addresses DEF FieldOf
<1>6. \A e : FieldOf(L, g, i) = NextAt(e) => i \in 1..Len(L[g]) /\ L[g][i] = e
  BY <1>2, Addresses DEF FieldOf
<1> QED
  BY <1>4, <1>5, <1>6

\* As addresses and elements are not masked pointers, their masks may be compared.
LEMMA Unmasked ==
    /\ Elms \cup {Null} \cup Fields \subseteq Bare
    /\ \A a \in Fields : a # Null /\ a \notin Elms
  BY QueueAssumption DEF Bare

----------------------------------------------------------------------------
(* The four changes to memory, and the lists it represents after each.     *)

\* e is put into h, after i elements.
Put(L, h, i, e) == [L EXCEPT ![h] = InsertAt(@, i + 1, e)]

Inserted(mem, mem2, L, h, i, e) ==
    /\ mem2[FieldOf(L, h, i)] = Mask(h, e)
    /\ mem2[NextAt(e)] = Mask(h, ElmAt(L, h, i))
    /\ Tailed => mem2[LastAt(h)] = Mask(h, IF i = Len(L[h]) THEN NextAt(e) ELSE FieldOf(L, h, Len(L[h])))
    /\ Backed => /\ mem2[PrevAt(e)] = FieldOf(L, h, i)
                 /\ i < Len(L[h]) => mem2[PrevAt(ElmAt(L, h, i))] = NextAt(e)
    /\ \A a \in Fields : /\ a \notin {FieldOf(L, h, i), NextAt(e), LastAt(h), PrevAt(e)}
                         /\ i < Len(L[h]) => a # PrevAt(ElmAt(L, h, i))
                         => mem2[a] = mem[a]

\* e is in no list.
Fresh(L, e) == \A h \in Heads : \A i \in 1..Len(L[h]) : L[h][i] # e

LEMMA PutIs ==
    ASSUME NEW L, AreLists(L), NEW h \in Heads, NEW i \in 0..Len(L[h]), NEW e \in Elms,
           Fresh(L, e)
    PROVE  /\ AreLists(Put(L, h, i, e))
           /\ \A g \in Heads : g # h => Put(L, h, i, e)[g] = L[g]
           /\ Len(Put(L, h, i, e)[h]) = Len(L[h]) + 1
           /\ \A j \in 1..Len(L[h]) + 1 :
                 Put(L, h, i, e)[h][j] = IF j <= i THEN L[h][j] ELSE IF j = i + 1 THEN e ELSE L[h][j - 1]
<1> DEFINE w == InsertAt(L[h], i + 1, e)
           M == Put(L, h, i, e)
<1>1. L \in [Heads -> Seq(Elms)] /\ L[h] \in Seq(Elms) /\ Len(L[h]) \in Nat
  BY ListFields DEF AreLists
<1>2. /\ w \in Seq(Elms) /\ Len(w) = Len(L[h]) + 1
      /\ \A j \in 1..Len(L[h]) + 1 :
            w[j] = IF j <= i THEN L[h][j] ELSE IF j = i + 1 THEN e ELSE L[h][j - 1]
  <2>1. PICK s : s = L[h]
    OBVIOUS
  <2>2. s \in Seq(Elms) /\ i \in 0..Len(s)
    BY <1>1, <2>1
  <2> HIDE DEF w
  <2>3. /\ InsertAt(s, i + 1, e) \in Seq(Elms) /\ Len(InsertAt(s, i + 1, e)) = Len(s) + 1
        /\ \A j \in 1..Len(s) + 1 :
              InsertAt(s, i + 1, e)[j] = IF j <= i THEN s[j] ELSE IF j = i + 1 THEN e ELSE s[j - 1]
    BY <2>2, InsertIs
  <2>4. w = InsertAt(s, i + 1, e)
    BY <2>1 DEF w
  <2> QED
    BY <2>1, <2>3, <2>4
<1> HIDE DEF w
<1>3. M \in [Heads -> Seq(Elms)] /\ M[h] = w /\ \A g \in Heads : g # h => M[g] = L[g]
  <2>1. M = [L EXCEPT ![h] = w]
    BY DEF Put, w
  <2> HIDE DEF M
  <2> QED
    BY <1>1, <1>2, <2>1
<1> HIDE DEF M
<1>4. ASSUME NEW g \in Heads, NEW k \in Heads, NEW a \in 1..Len(M[g]), NEW b \in 1..Len(M[k]), M[g][a] = M[k][b]
      PROVE  g = k /\ a = b
  <2> DEFINE from(c) == IF c <= i THEN c ELSE c - 1
  <2>1. ASSUME NEW c \in 1..Len(L[h]) + 1, c # i + 1
        PROVE  from(c) \in 1..Len(L[h]) /\ w[c] = L[h][from(c)]
    <3>1. CASE c <= i
      BY <1>1, <1>2, <2>1, <3>1
    <3>2. CASE ~(c <= i)
      <4>1. c - 1 \in 1..Len(L[h])
        BY <1>1, <2>1, <3>2
      <4> QED
        BY <1>2, <2>1, <3>2, <4>1
    <3> QED
      BY <3>1, <3>2
  <2>2. \A c \in 1..Len(L[h]) + 1, d \in 1..Len(L[h]) + 1 :
           c # i + 1 /\ d # i + 1 /\ from(c) = from(d) => c = d
    BY <1>1
  <2> HIDE DEF from
  <2>3. w[i + 1] = e
    <3>1. i + 1 \in 1..Len(L[h]) + 1 /\ ~(i + 1 <= i)
      BY <1>1
    <3> QED
      BY <1>2, <3>1
  <2>4. CASE g = h /\ k = h
    <3>1. a \in 1..Len(L[h]) + 1 /\ b \in 1..Len(L[h]) + 1 /\ w[a] = w[b]
      BY <1>2, <1>3, <1>4, <2>4
    <3>2. CASE a # i + 1 /\ b # i + 1
      <4>1. from(a) \in 1..Len(L[h]) /\ from(b) \in 1..Len(L[h]) /\ L[h][from(a)] = L[h][from(b)]
        BY <2>1, <3>1, <3>2
      <4>2. from(a) = from(b)
        BY <4>1 DEF AreLists, Once
      <4> QED
        BY <2>2, <2>4, <3>1, <3>2, <4>2
    <3>3. CASE a = i + 1 \/ b = i + 1
      <4>1. \A c \in 1..Len(L[h]) + 1 : c # i + 1 => w[c] # e
        BY <2>1 DEF Fresh
      <4> QED
        BY <2>3, <2>4, <3>1, <3>3, <4>1
    <3> QED
      BY <3>2, <3>3
  <2>5. CASE g = h /\ k # h
    <3>1. a \in 1..Len(L[h]) + 1 /\ b \in 1..Len(L[k]) /\ w[a] = L[k][b]
      BY <1>2, <1>3, <1>4, <2>5
    <3>2. a # i + 1
      BY <2>3, <3>1 DEF Fresh
    <3>3. from(a) \in 1..Len(L[h]) /\ L[h][from(a)] = L[k][b]
      BY <2>1, <3>1, <3>2
    <3> QED
      BY <2>5, <3>1, <3>3 DEF AreLists, Once
  <2>6. CASE g # h /\ k = h
    <3>1. b \in 1..Len(L[h]) + 1 /\ a \in 1..Len(L[g]) /\ w[b] = L[g][a]
      BY <1>2, <1>3, <1>4, <2>6
    <3>2. b # i + 1
      BY <2>3, <3>1 DEF Fresh
    <3>3. from(b) \in 1..Len(L[h]) /\ L[h][from(b)] = L[g][a]
      BY <2>1, <3>1, <3>2
    <3> QED
      BY <2>6, <3>1, <3>3 DEF AreLists, Once
  <2>7. CASE g # h /\ k # h
    BY <1>3, <1>4, <2>7 DEF AreLists, Once
  <2> QED
    BY <2>4, <2>5, <2>6, <2>7
<1> QED
  BY <1>2, <1>3, <1>4 DEF AreLists, Once, M

LEMMA InsertedLinked ==
    ASSUME NEW mem, NEW mem2, NEW L, AreLists(L), LinkedIn(mem, L),
           NEW h \in Heads, NEW i \in 0..Len(L[h]), NEW e \in Elms,
           Fresh(L, e),
           Inserted(mem, mem2, L, h, i, e)
    PROVE  LinkedIn(mem2, Put(L, h, i, e))
<1> DEFINE M == Put(L, h, i, e)
<1>1. /\ AreLists(M) /\ \A g \in Heads : g # h => M[g] = L[g]
      /\ Len(M[h]) = Len(L[h]) + 1
      /\ \A j \in 1..Len(L[h]) + 1 : M[h][j] = IF j <= i THEN L[h][j] ELSE IF j = i + 1 THEN e ELSE L[h][j - 1]
  BY PutIs
<1> HIDE DEF M
<1>2. PICK n : n = Len(L[h]) /\ n \in Nat /\ i \in 0..n
  BY ListFields
<1>3. \A g \in Heads : g # h => \A j : FieldOf(M, g, j) = FieldOf(L, g, j) /\ ElmAt(M, g, j) = ElmAt(L, g, j)
  BY <1>1 DEF FieldOf, ElmAt
<1>4. ASSUME NEW j \in 0..n + 1
      PROVE  FieldOf(M, h, j) = IF j <= i THEN FieldOf(L, h, j)
                                ELSE IF j = i + 1 THEN NextAt(e) ELSE FieldOf(L, h, j - 1)
  <2>1. CASE j = 0
    BY <1>2, <2>1 DEF FieldOf
  <2>2. CASE j # 0
    <3>1. j \in 1..n + 1 /\ (~(j <= i) /\ j # i + 1 => j - 1 # 0)
      BY <1>2, <2>2
    <3> QED
      BY <1>1, <1>2, <2>2, <3>1 DEF FieldOf
  <2> QED
    BY <2>1, <2>2
<1>5. ASSUME NEW j \in 0..n + 1
      PROVE  ElmAt(M, h, j) = IF j < i THEN ElmAt(L, h, j) ELSE IF j = i THEN e ELSE ElmAt(L, h, j - 1)
  <2>1. CASE j = n + 1
    <3>1. ~(j < Len(M[h])) /\ ~(j - 1 < n) /\ ~(j < i) /\ j # i
      BY <1>1, <1>2, <2>1
    <3> QED
      BY <1>2, <3>1 DEF ElmAt
  <2>2. CASE j # n + 1
    <3>1. j + 1 \in 1..n + 1 /\ j < Len(M[h]) /\ (j < i => j < n) /\ (j + 1 <= i <=> j < i)
          /\ (j + 1 = i + 1 <=> j = i) /\ (j + 1) - 1 = j /\ (j - 1) + 1 = j
      BY <1>1, <1>2, <2>2
    <3>2. M[h][j + 1] = IF j < i THEN L[h][j + 1] ELSE IF j = i THEN e ELSE L[h][j]
      BY <1>1, <1>2, <3>1
    <3>3. ~(j < i) /\ j # i => j - 1 < n
      BY <1>2, <2>2
    <3> QED
      BY <1>2, <3>1, <3>2, <3>3 DEF ElmAt
  <2> QED
    BY <2>1, <2>2
<1>6. /\ mem2[FieldOf(L, h, i)] = Mask(h, e)
      /\ mem2[NextAt(e)] = Mask(h, ElmAt(L, h, i))
      /\ Tailed => mem2[LastAt(h)] = Mask(h, IF i = n THEN NextAt(e) ELSE FieldOf(L, h, n))
      /\ Backed => /\ mem2[PrevAt(e)] = FieldOf(L, h, i)
                   /\ i < n => mem2[PrevAt(ElmAt(L, h, i))] = NextAt(e)
      /\ \A a \in Fields : /\ a \notin {FieldOf(L, h, i), NextAt(e), LastAt(h), PrevAt(e)}
                           /\ i < n => a # PrevAt(ElmAt(L, h, i))
                           => mem2[a] = mem[a]
  BY <1>2 DEF Inserted
<1>7. ASSUME NEW g \in Heads, NEW j \in 0..Len(L[g]), g # h \/ j # i
      PROVE  mem2[FieldOf(L, g, j)] = Mask(g, ElmAt(L, g, j))
  <2>1. FieldOf(L, g, j) \in Fields /\ FieldOf(L, g, j) # FieldOf(L, h, i) /\ FieldOf(L, g, j) # NextAt(e)
    <3>1. FieldOf(L, g, j) \in Fields
      BY ListFields
    <3>2. FieldOf(L, g, j) # FieldOf(L, h, i)
      BY <1>7, FieldsDiffer
    <3>3. FieldOf(L, g, j) # NextAt(e)
      BY FieldsDiffer DEF Fresh
    <3> QED
      BY <3>1, <3>2, <3>3
  <2>2. \A x : FieldOf(L, g, j) # LastAt(x) /\ FieldOf(L, g, j) # PrevAt(x)
    BY FieldsDiffer
  <2>3. mem2[FieldOf(L, g, j)] = mem[FieldOf(L, g, j)]
    BY <1>6, <2>1, <2>2
  <2> QED
    BY <2>3 DEF LinkedIn
<1>8. ASSUME NEW g \in Heads, NEW j \in 0..Len(M[g]) PROVE mem2[FieldOf(M, g, j)] = Mask(g, ElmAt(M, g, j))
  <2>1. CASE g # h
    BY <1>1, <1>3, <1>7, <2>1
  <2>2. CASE g = h
    <3>1. j \in 0..n + 1
      BY <1>1, <1>2, <2>2
    <3>2. CASE j < i
      <4>1. j <= i /\ j \in 0..n /\ j # i
        BY <1>2, <3>1, <3>2
      <4> QED
        BY <1>2, <1>4, <1>5, <1>7, <2>2, <3>1, <3>2, <4>1
    <3>3. CASE j = i
      <4>1. j <= i /\ ~(j < i)
        BY <1>2, <3>3
      <4> QED
        BY <1>4, <1>5, <1>6, <2>2, <3>1, <3>3, <4>1
    <3>4. CASE j = i + 1
      <4>1. ~(j <= i) /\ ~(j < i) /\ j # i /\ j - 1 = i
        BY <1>2, <3>4
      <4> QED
        BY <1>4, <1>5, <1>6, <2>2, <3>1, <3>4, <4>1
    <3>5. CASE j > i + 1
      <4>1. ~(j <= i) /\ ~(j < i) /\ j # i /\ j # i + 1 /\ j - 1 \in 0..n /\ j - 1 # i
        BY <1>2, <3>1, <3>5
      <4> QED
        BY <1>2, <1>4, <1>5, <1>7, <2>2, <3>1, <4>1
    <3> QED
      BY <1>2, <3>1, <3>2, <3>3, <3>4, <3>5
  <2> QED
    BY <2>1, <2>2
<1>9. ASSUME Tailed, NEW g \in Heads PROVE mem2[LastAt(g)] = Mask(g, FieldOf(M, g, Len(M[g])))
  <2>1. CASE g # h
    <3>1. LastAt(g) \in Fields /\ LastAt(g) # NextAt(e) /\ LastAt(g) # LastAt(h) /\ \A x : LastAt(g) # PrevAt(x)
      BY <2>1, InFields, Addresses
    <3>2. LastAt(g) # FieldOf(L, h, i)
      BY FieldsDiffer
    <3>3. mem2[LastAt(g)] = mem[LastAt(g)]
      BY <1>6, <3>1, <3>2
    <3> QED
      BY <1>1, <1>3, <1>9, <2>1, <3>3 DEF LinkedIn
  <2>2. CASE g = h
    <3>1. FieldOf(M, h, n + 1) = IF i = n THEN NextAt(e) ELSE FieldOf(L, h, n)
      <4>1. n + 1 \in 0..n + 1 /\ ~(n + 1 <= i) /\ (n + 1 = i + 1 <=> i = n) /\ (n + 1) - 1 = n
        BY <1>2
      <4> QED
        BY <1>4, <4>1
    <3> QED
      BY <1>1, <1>2, <1>6, <1>9, <2>2, <3>1
  <2> QED
    BY <2>1, <2>2
<1>10. ASSUME Backed, NEW g \in Heads, NEW j \in 1..Len(L[g]), g # h \/ j # i + 1
       PROVE  mem2[PrevAt(L[g][j])] = FieldOf(L, g, j - 1)
  <2>1. L[g][j] \in Elms /\ L[g][j] # e
    BY ListFields DEF Fresh
  <2>2. PrevAt(L[g][j]) \in Fields /\ PrevAt(L[g][j]) # PrevAt(e) /\ PrevAt(L[g][j]) # LastAt(h)
        /\ PrevAt(L[g][j]) # NextAt(e)
    BY <2>1, InFields, Addresses
  <2>3. PrevAt(L[g][j]) # FieldOf(L, h, i)
    BY FieldsDiffer
  <2>4. i < n => PrevAt(L[g][j]) # PrevAt(ElmAt(L, h, i))
    <3>1. SUFFICES ASSUME i < n, PrevAt(L[g][j]) = PrevAt(ElmAt(L, h, i)) PROVE FALSE
      OBVIOUS
    <3>2. ElmAt(L, h, i) = L[h][i + 1] /\ i + 1 \in 1..Len(L[h])
      BY <1>2, <3>1 DEF ElmAt
    <3>3. L[g][j] = L[h][i + 1]
      BY <3>1, <3>2, Addresses
    <3> QED
      BY <1>10, <3>2, <3>3 DEF AreLists, Once
  <2>5. mem2[PrevAt(L[g][j])] = mem[PrevAt(L[g][j])]
    BY <1>6, <2>2, <2>3, <2>4
  <2> QED
    BY <1>10, <2>5 DEF LinkedIn
<1>11. ASSUME Backed, NEW g \in Heads, NEW j \in 1..Len(M[g]) PROVE mem2[PrevAt(M[g][j])] = FieldOf(M, g, j - 1)
  <2>1. CASE g # h
    BY <1>1, <1>3, <1>10, <1>11, <2>1
  <2>2. CASE g = h
    <3>1. j \in 1..n + 1 /\ j - 1 \in 0..n + 1
      BY <1>1, <1>2, <2>2
    <3>2. CASE j <= i
      <4>1. j - 1 <= i /\ j \in 1..n /\ j # i + 1
        BY <1>2, <3>1, <3>2
      <4> QED
        BY <1>1, <1>2, <1>4, <1>10, <1>11, <2>2, <3>1, <3>2, <4>1
    <3>3. CASE j = i + 1
      <4>1. j - 1 <= i /\ ~(j <= i) /\ j - 1 = i
        BY <1>2, <3>3
      <4> QED
        BY <1>1, <1>2, <1>4, <1>6, <1>11, <2>2, <3>1, <3>3, <4>1
    <3>4. CASE j = i + 2
      <4>1. ~(j - 1 <= i) /\ ~(j <= i) /\ j # i + 1 /\ j - 1 = i + 1 /\ i < n
        BY <1>2, <3>1, <3>4
      <4>2. M[h][j] = ElmAt(L, h, i)
        BY <1>1, <1>2, <3>1, <4>1 DEF ElmAt
      <4> QED
        BY <1>4, <1>6, <1>11, <2>2, <3>1, <4>1, <4>2
    <3>5. CASE j > i + 2
      <4>1. ~(j - 1 <= i) /\ ~(j <= i) /\ j # i + 1 /\ j - 1 # i + 1 /\ j - 1 \in 1..n
        BY <1>2, <3>1, <3>5
      <4>2. mem2[PrevAt(L[h][j - 1])] = FieldOf(L, h, (j - 1) - 1)
        BY <1>2, <1>10, <1>11, <4>1
      <4> QED
        BY <1>1, <1>2, <1>4, <2>2, <3>1, <4>1, <4>2
    <3> QED
      BY <1>2, <3>1, <3>2, <3>3, <3>4, <3>5
  <2> QED
    BY <2>1, <2>2
<1> QED
  BY <1>8, <1>9, <1>11 DEF LinkedIn, M

\* The element after i others is taken out of h.
Take(L, h, i) == [L EXCEPT ![h] = RemoveAt(@, i + 1)]

Removed(mem, mem2, L, h, i) ==
    /\ mem2[FieldOf(L, h, i)] = Mask(h, ElmAt(L, h, i + 1))
    /\ Tailed => mem2[LastAt(h)] = Mask(h, FieldOf(L, h, IF i + 1 = Len(L[h]) THEN i ELSE Len(L[h])))
    /\ Backed => (i + 1 < Len(L[h]) => mem2[PrevAt(ElmAt(L, h, i + 1))] = FieldOf(L, h, i))
    /\ \A a \in Fields : /\ a \notin {FieldOf(L, h, i), LastAt(h)}
                         /\ a \notin {NextAt(ElmAt(L, h, i)), PrevAt(ElmAt(L, h, i))}
                         /\ i + 1 < Len(L[h]) => a # PrevAt(ElmAt(L, h, i + 1))
                         => mem2[a] = mem[a]

LEMMA TakeIs ==
    ASSUME NEW L, AreLists(L), NEW h \in Heads, NEW i \in 0..Len(L[h]) - 1
    PROVE  /\ AreLists(Take(L, h, i)) /\ Fresh(Take(L, h, i), L[h][i + 1])
           /\ \A g \in Heads : g # h => Take(L, h, i)[g] = L[g]
           /\ Len(Take(L, h, i)[h]) = Len(L[h]) - 1
           /\ \A j \in 1..Len(L[h]) - 1 : Take(L, h, i)[h][j] = IF j <= i THEN L[h][j] ELSE L[h][j + 1]
<1> DEFINE w == RemoveAt(L[h], i + 1)
           M == Take(L, h, i)
<1>1. L \in [Heads -> Seq(Elms)] /\ L[h] \in Seq(Elms) /\ Len(L[h]) \in Nat
  BY ListFields DEF AreLists
<1>2. /\ w \in Seq(Elms) /\ Len(w) = Len(L[h]) - 1
      /\ \A j \in 1..Len(L[h]) - 1 : w[j] = IF j <= i THEN L[h][j] ELSE L[h][j + 1]
  <2>1. PICK s : s = L[h]
    OBVIOUS
  <2>2. s \in Seq(Elms) /\ i \in 0..Len(s) - 1
    BY <1>1, <2>1
  <2> HIDE DEF w
  <2>3. /\ RemoveAt(s, i + 1) \in Seq(Elms) /\ Len(RemoveAt(s, i + 1)) = Len(s) - 1
        /\ \A j \in 1..Len(s) - 1 : RemoveAt(s, i + 1)[j] = IF j <= i THEN s[j] ELSE s[j + 1]
    BY <2>2, RemoveIs
  <2>4. w = RemoveAt(s, i + 1)
    BY <2>1 DEF w
  <2> QED
    BY <2>1, <2>3, <2>4
<1> HIDE DEF w
<1>3. M \in [Heads -> Seq(Elms)] /\ M[h] = w /\ \A g \in Heads : g # h => M[g] = L[g]
  <2>1. M = [L EXCEPT ![h] = w]
    BY DEF Take, w
  <2> HIDE DEF M
  <2> QED
    BY <1>1, <1>2, <2>1
<1> HIDE DEF M
<1> DEFINE from(c) == IF c <= i THEN c ELSE c + 1
<1>4. ASSUME NEW c \in 1..Len(L[h]) - 1
      PROVE  from(c) \in 1..Len(L[h]) /\ from(c) # i + 1 /\ w[c] = L[h][from(c)]
  <2>1. from(c) \in 1..Len(L[h]) /\ from(c) # i + 1
    BY <1>1
  <2>2. w[c] = L[h][from(c)]
    BY <1>2
  <2> QED
    BY <2>1, <2>2
<1>5. \A c \in 1..Len(L[h]) - 1, d \in 1..Len(L[h]) - 1 : from(c) = from(d) => c = d
  BY <1>1
<1> HIDE DEF from
<1>6. ASSUME NEW g \in Heads, NEW k \in Heads, NEW a \in 1..Len(M[g]), NEW b \in 1..Len(M[k]), M[g][a] = M[k][b]
      PROVE  g = k /\ a = b
  <2>1. CASE g = h /\ k = h
    <3>1. a \in 1..Len(L[h]) - 1 /\ b \in 1..Len(L[h]) - 1 /\ w[a] = w[b]
      BY <1>2, <1>3, <1>6, <2>1
    <3>2. from(a) \in 1..Len(L[h]) /\ from(b) \in 1..Len(L[h]) /\ L[h][from(a)] = L[h][from(b)]
      BY <1>4, <3>1
    <3>3. from(a) = from(b)
      BY <3>2 DEF AreLists, Once
    <3> QED
      BY <1>5, <2>1, <3>1, <3>3
  <2>2. CASE g = h /\ k # h
    <3>1. a \in 1..Len(L[h]) - 1 /\ b \in 1..Len(L[k]) /\ w[a] = L[k][b]
      BY <1>2, <1>3, <1>6, <2>2
    <3>2. from(a) \in 1..Len(L[h]) /\ L[h][from(a)] = L[k][b]
      BY <1>4, <3>1
    <3> QED
      BY <2>2, <3>1, <3>2 DEF AreLists, Once
  <2>3. CASE g # h /\ k = h
    <3>1. b \in 1..Len(L[h]) - 1 /\ a \in 1..Len(L[g]) /\ w[b] = L[g][a]
      BY <1>2, <1>3, <1>6, <2>3
    <3>2. from(b) \in 1..Len(L[h]) /\ L[h][from(b)] = L[g][a]
      BY <1>4, <3>1
    <3> QED
      BY <2>3, <3>1, <3>2 DEF AreLists, Once
  <2>4. CASE g # h /\ k # h
    BY <1>3, <1>6, <2>4 DEF AreLists, Once
  <2> QED
    BY <2>1, <2>2, <2>3, <2>4
<1>7. Fresh(M, L[h][i + 1])
  <2>1. SUFFICES ASSUME NEW g \in Heads, NEW j \in 1..Len(M[g]), M[g][j] = L[h][i + 1] PROVE FALSE
    BY DEF Fresh
  <2>2. i + 1 \in 1..Len(L[h])
    BY <1>1
  <2>3. CASE g = h
    <3>1. j \in 1..Len(L[h]) - 1 /\ w[j] = L[h][i + 1]
      BY <1>2, <1>3, <2>1, <2>3
    <3>2. from(j) \in 1..Len(L[h]) /\ from(j) # i + 1 /\ L[h][from(j)] = L[h][i + 1]
      BY <1>4, <3>1
    <3> QED
      BY <2>2, <3>2 DEF AreLists, Once
  <2>4. CASE g # h
    BY <1>3, <2>1, <2>2, <2>4 DEF AreLists, Once
  <2> QED
    BY <2>3, <2>4
<1>8. AreLists(M)
  <2>1. Once(M)
    BY <1>6 DEF Once
  <2> QED
    BY <1>3, <2>1 DEF AreLists
<1>9. /\ \A g \in Heads : g # h => M[g] = L[g]
      /\ Len(M[h]) = Len(L[h]) - 1
      /\ \A j \in 1..Len(L[h]) - 1 : M[h][j] = IF j <= i THEN L[h][j] ELSE L[h][j + 1]
  BY <1>2, <1>3
<1>10. M = Take(L, h, i)
  BY DEF M
<1> QED
  BY <1>7, <1>8, <1>9, <1>10

LEMMA TakeFields ==
    ASSUME NEW L, AreLists(L), NEW h \in Heads, NEW i \in 0..Len(L[h]) - 1,
           NEW M, M = Take(L, h, i), NEW n, n = Len(L[h])
    PROVE  /\ \A g \in Heads : g # h => \A j : FieldOf(M, g, j) = FieldOf(L, g, j) /\ ElmAt(M, g, j) = ElmAt(L, g, j)
           /\ \A j \in 0..n - 1 : FieldOf(M, h, j) = IF j <= i THEN FieldOf(L, h, j) ELSE FieldOf(L, h, j + 1)
           /\ \A j \in 0..n - 1 : ElmAt(M, h, j) = IF j < i THEN ElmAt(L, h, j) ELSE ElmAt(L, h, j + 1)
<1>1. /\ AreLists(M) /\ \A g \in Heads : g # h => M[g] = L[g]
      /\ Len(M[h]) = Len(L[h]) - 1
      /\ \A j \in 1..Len(L[h]) - 1 : M[h][j] = IF j <= i THEN L[h][j] ELSE L[h][j + 1]
  <2>1. /\ AreLists(Take(L, h, i)) /\ \A g \in Heads : g # h => Take(L, h, i)[g] = L[g]
        /\ Len(Take(L, h, i)[h]) = Len(L[h]) - 1
        /\ \A j \in 1..Len(L[h]) - 1 : Take(L, h, i)[h][j] = IF j <= i THEN L[h][j] ELSE L[h][j + 1]
    BY TakeIs
  <2> QED
    BY <2>1
<1>2. n \in Nat /\ i \in 0..n - 1
  BY ListFields
<1>3. \A g \in Heads : g # h => \A j : FieldOf(M, g, j) = FieldOf(L, g, j) /\ ElmAt(M, g, j) = ElmAt(L, g, j)
  BY <1>1 DEF FieldOf, ElmAt
<1>4. ASSUME NEW j \in 0..n - 1
      PROVE  FieldOf(M, h, j) = IF j <= i THEN FieldOf(L, h, j) ELSE FieldOf(L, h, j + 1)
  <2>1. CASE j = 0
    BY <1>2, <2>1 DEF FieldOf
  <2>2. CASE j # 0
    <3>1. j \in 1..n - 1 /\ j + 1 # 0
      BY <1>2, <2>2
    <3> QED
      BY <1>1, <1>2, <2>2, <3>1 DEF FieldOf
  <2> QED
    BY <2>1, <2>2
<1>5. ASSUME NEW j \in 0..n - 1
      PROVE  ElmAt(M, h, j) = IF j < i THEN ElmAt(L, h, j) ELSE ElmAt(L, h, j + 1)
  <2>1. CASE j = n - 1
    <3>1. ~(j < Len(M[h])) /\ ~(j + 1 < n) /\ ~(j < i)
      BY <1>1, <1>2, <2>1
    <3> QED
      BY <1>2, <3>1 DEF ElmAt
  <2>2. CASE j # n - 1
    <3>1. j + 1 \in 1..n - 1 /\ j < Len(M[h]) /\ (j < i => j < n) /\ (j + 1 <= i <=> j < i) /\ j + 1 < n
      BY <1>1, <1>2, <2>2
    <3>2. M[h][j + 1] = IF j < i THEN L[h][j + 1] ELSE L[h][j + 1 + 1]
      BY <1>1, <1>2, <3>1
    <3> QED
      BY <1>2, <3>1, <3>2 DEF ElmAt
  <2> QED
    BY <2>1, <2>2
<1> QED
  BY <1>3, <1>4, <1>5

LEMMA RemovedLinked ==
    ASSUME NEW mem, NEW mem2, NEW L, AreLists(L), LinkedIn(mem, L),
           NEW h \in Heads, NEW i \in 0..Len(L[h]) - 1, Removed(mem, mem2, L, h, i)
    PROVE  LinkedIn(mem2, Take(L, h, i))
<1> DEFINE M == Take(L, h, i)
<1>1. /\ AreLists(M) /\ \A g \in Heads : g # h => M[g] = L[g]
      /\ Len(M[h]) = Len(L[h]) - 1
      /\ \A j \in 1..Len(L[h]) - 1 : M[h][j] = IF j <= i THEN L[h][j] ELSE L[h][j + 1]
  BY TakeIs
<1> HIDE DEF M
<1>2. PICK n : n = Len(L[h]) /\ n \in Nat /\ i \in 0..n - 1
  BY ListFields
<1>3. \A g \in Heads : g # h => \A j : FieldOf(M, g, j) = FieldOf(L, g, j) /\ ElmAt(M, g, j) = ElmAt(L, g, j)
  BY TakeFields DEF M
<1>4. \A j \in 0..n - 1 : FieldOf(M, h, j) = IF j <= i THEN FieldOf(L, h, j) ELSE FieldOf(L, h, j + 1)
  BY <1>2, TakeFields DEF M
<1>5. \A j \in 0..n - 1 : ElmAt(M, h, j) = IF j < i THEN ElmAt(L, h, j) ELSE ElmAt(L, h, j + 1)
  BY <1>2, TakeFields DEF M
<1>6. /\ mem2[FieldOf(L, h, i)] = Mask(h, ElmAt(L, h, i + 1))
      /\ Tailed => mem2[LastAt(h)] = Mask(h, FieldOf(L, h, IF i + 1 = n THEN i ELSE n))
      /\ Backed => (i + 1 < n => mem2[PrevAt(ElmAt(L, h, i + 1))] = FieldOf(L, h, i))
      /\ \A a \in Fields : /\ a \notin {FieldOf(L, h, i), LastAt(h)}
                           /\ a \notin {NextAt(ElmAt(L, h, i)), PrevAt(ElmAt(L, h, i))}
                           /\ i + 1 < n => a # PrevAt(ElmAt(L, h, i + 1))
                           => mem2[a] = mem[a]
  BY <1>2 DEF Removed
<1>7. ElmAt(L, h, i) = L[h][i + 1] /\ FieldOf(L, h, i + 1) = NextAt(L[h][i + 1]) /\ i + 1 \in 0..n /\ i \in 0..n
      /\ i + 1 \in 1..n
  <2>1. i < n /\ i + 1 # 0 /\ i + 1 \in 0..n /\ i \in 0..n /\ i + 1 \in 1..n
    BY <1>2
  <2> QED
    BY <1>2, <2>1 DEF FieldOf, ElmAt
<1>8. ASSUME NEW g \in Heads, NEW j \in 0..Len(L[g]), g # h \/ (j # i /\ j # i + 1)
      PROVE  mem2[FieldOf(L, g, j)] = Mask(g, ElmAt(L, g, j))
  <2>1. FieldOf(L, g, j) \in Fields
    BY ListFields
  <2>2. FieldOf(L, g, j) # FieldOf(L, h, i)
    BY <1>2, <1>7, <1>8, FieldsDiffer
  <2>3. FieldOf(L, g, j) # NextAt(ElmAt(L, h, i))
    BY <1>2, <1>7, <1>8, FieldsDiffer
  <2>4. \A x : FieldOf(L, g, j) # LastAt(x) /\ FieldOf(L, g, j) # PrevAt(x)
    BY FieldsDiffer
  <2>5. mem2[FieldOf(L, g, j)] = mem[FieldOf(L, g, j)]
    BY <1>6, <2>1, <2>2, <2>3, <2>4
  <2> QED
    BY <2>5 DEF LinkedIn
<1>9. ASSUME NEW g \in Heads, NEW j \in 0..Len(M[g]) PROVE mem2[FieldOf(M, g, j)] = Mask(g, ElmAt(M, g, j))
  <2>1. CASE g # h
    BY <1>1, <1>3, <1>8, <2>1
  <2>2. CASE g = h
    <3>1. j \in 0..n - 1
      BY <1>1, <1>2, <2>2
    <3>2. CASE j < i
      <4>1. j <= i /\ j \in 0..n /\ j # i /\ j # i + 1
        BY <1>2, <3>1, <3>2
      <4> QED
        BY <1>2, <1>4, <1>5, <1>8, <2>2, <3>1, <3>2, <4>1
    <3>3. CASE j = i
      <4>1. j <= i /\ ~(j < i)
        BY <1>2, <3>3
      <4> QED
        BY <1>4, <1>5, <1>6, <2>2, <3>1, <3>3, <4>1
    <3>4. CASE j > i
      <4>1. ~(j <= i) /\ ~(j < i) /\ j + 1 \in 0..n /\ j + 1 # i /\ j + 1 # i + 1
        BY <1>2, <3>1, <3>4
      <4> QED
        BY <1>2, <1>4, <1>5, <1>8, <2>2, <3>1, <4>1
    <3> QED
      BY <1>2, <3>1, <3>2, <3>3, <3>4
  <2> QED
    BY <2>1, <2>2
<1>10. ASSUME Tailed, NEW g \in Heads PROVE mem2[LastAt(g)] = Mask(g, FieldOf(M, g, Len(M[g])))
  <2>1. CASE g # h
    <3>1. LastAt(g) \in Fields /\ LastAt(g) # LastAt(h) /\ \A x : LastAt(g) # PrevAt(x) /\ LastAt(g) # NextAt(x)
      BY <2>1, InFields, Addresses
    <3>2. LastAt(g) # FieldOf(L, h, i)
      BY <1>2, <1>7, FieldsDiffer
    <3>3. mem2[LastAt(g)] = mem[LastAt(g)]
      BY <1>6, <3>1, <3>2
    <3> QED
      BY <1>1, <1>3, <1>10, <2>1, <3>3 DEF LinkedIn
  <2>2. CASE g = h
    <3>1. FieldOf(M, h, n - 1) = FieldOf(L, h, IF i + 1 = n THEN i ELSE n)
      <4>1. n - 1 \in 0..n - 1 /\ (n - 1 <= i <=> i + 1 = n) /\ (n - 1) + 1 = n /\ (i + 1 = n => n - 1 = i)
        BY <1>2
      <4> QED
        BY <1>4, <4>1
    <3> QED
      BY <1>1, <1>2, <1>6, <1>10, <2>2, <3>1
  <2> QED
    BY <2>1, <2>2
<1>11. ASSUME Backed, NEW g \in Heads, NEW j \in 1..Len(L[g]), g # h \/ (j # i + 1 /\ j # i + 2)
       PROVE  mem2[PrevAt(L[g][j])] = FieldOf(L, g, j - 1)
  <2>1. L[g][j] \in Elms
    BY ListFields
  <2>2. PrevAt(L[g][j]) \in Fields /\ PrevAt(L[g][j]) # LastAt(h) /\ \A x : PrevAt(L[g][j]) # NextAt(x)
    BY <2>1, InFields, Addresses
  <2>3. PrevAt(L[g][j]) # FieldOf(L, h, i)
    BY <1>2, <1>7, FieldsDiffer
  <2>4. PrevAt(L[g][j]) # PrevAt(ElmAt(L, h, i))
    <3>1. SUFFICES ASSUME PrevAt(L[g][j]) = PrevAt(ElmAt(L, h, i)) PROVE FALSE
      OBVIOUS
    <3>2. L[g][j] = L[h][i + 1] /\ i + 1 \in 1..Len(L[h])
      BY <1>2, <1>7, <3>1, Addresses
    <3> QED
      BY <1>11, <3>2 DEF AreLists, Once
  <2>5. i + 1 < n => PrevAt(L[g][j]) # PrevAt(ElmAt(L, h, i + 1))
    <3>1. SUFFICES ASSUME i + 1 < n, PrevAt(L[g][j]) = PrevAt(ElmAt(L, h, i + 1)) PROVE FALSE
      OBVIOUS
    <3>2. ElmAt(L, h, i + 1) = L[h][i + 1 + 1] /\ i + 1 + 1 \in 1..Len(L[h]) /\ i + 1 + 1 = i + 2
      BY <1>2, <3>1 DEF ElmAt
    <3>3. L[g][j] = L[h][i + 1 + 1]
      BY <3>1, <3>2, Addresses
    <3> QED
      BY <1>11, <3>2, <3>3 DEF AreLists, Once
  <2>6. mem2[PrevAt(L[g][j])] = mem[PrevAt(L[g][j])]
    BY <1>6, <2>2, <2>3, <2>4, <2>5
  <2> QED
    BY <1>11, <2>6 DEF LinkedIn
<1>12. ASSUME Backed, NEW g \in Heads, NEW j \in 1..Len(M[g]) PROVE mem2[PrevAt(M[g][j])] = FieldOf(M, g, j - 1)
  <2>1. CASE g # h
    BY <1>1, <1>3, <1>11, <1>12, <2>1
  <2>2. CASE g = h
    <3>1. j \in 1..n - 1 /\ j - 1 \in 0..n - 1
      BY <1>1, <1>2, <2>2
    <3>2. CASE j <= i
      <4>1. j - 1 <= i /\ j \in 1..n /\ j # i + 1 /\ j # i + 2
        BY <1>2, <3>1, <3>2
      <4> QED
        BY <1>1, <1>2, <1>4, <1>11, <1>12, <2>2, <3>1, <3>2, <4>1
    <3>3. CASE j = i + 1
      <4>1. j - 1 <= i /\ ~(j <= i) /\ j - 1 = i /\ i + 1 < n /\ j = i + 1
        BY <1>2, <3>1, <3>3
      <4>2. M[h][j] = ElmAt(L, h, i + 1)
        BY <1>1, <1>2, <3>1, <4>1 DEF ElmAt
      <4>3. FieldOf(M, h, j - 1) = FieldOf(L, h, i)
        BY <1>4, <3>1, <4>1
      <4> QED
        BY <1>6, <1>12, <2>2, <4>1, <4>2, <4>3
    <3>4. CASE j > i + 1
      <4>1. ~(j - 1 <= i) /\ ~(j <= i) /\ j + 1 \in 1..n /\ j + 1 # i + 1 /\ j + 1 # i + 2
            /\ (j + 1) - 1 = (j - 1) + 1
        BY <1>2, <3>1, <3>4
      <4>2. mem2[PrevAt(L[h][j + 1])] = FieldOf(L, h, (j + 1) - 1)
        BY <1>2, <1>11, <1>12, <4>1
      <4>3. M[h][j] = L[h][j + 1] /\ FieldOf(M, h, j - 1) = FieldOf(L, h, (j - 1) + 1)
        BY <1>1, <1>2, <1>4, <3>1, <4>1
      <4> QED
        BY <2>2, <4>1, <4>2, <4>3
    <3> QED
      BY <1>2, <3>1, <3>2, <3>3, <3>4
  <2> QED
    BY <2>1, <2>2
<1> QED
  BY <1>9, <1>10, <1>12 DEF LinkedIn, M

\* f takes the place of the element after i others: that is taken out, and f put in.
Swap(L, h, i, f) == [L EXCEPT ![h] = ReplaceAt(@, i + 1, f)]

Replaced(mem, mem2, L, h, i, f) ==
    /\ mem2[FieldOf(L, h, i)] = Mask(h, f)
    /\ mem2[NextAt(f)] = Mask(h, ElmAt(L, h, i + 1))
    /\ Tailed => mem2[LastAt(h)] = Mask(h, IF i + 1 = Len(L[h]) THEN NextAt(f) ELSE FieldOf(L, h, Len(L[h])))
    /\ Backed => /\ mem2[PrevAt(f)] = FieldOf(L, h, i)
                 /\ i + 1 < Len(L[h]) => mem2[PrevAt(ElmAt(L, h, i + 1))] = NextAt(f)
    /\ \A a \in Fields : /\ a \notin {FieldOf(L, h, i), NextAt(f), LastAt(h), PrevAt(f)}
                         /\ a \notin {NextAt(ElmAt(L, h, i)), PrevAt(ElmAt(L, h, i))}
                         /\ i + 1 < Len(L[h]) => a # PrevAt(ElmAt(L, h, i + 1))
                         => mem2[a] = mem[a]

LEMMA SwapIs ==
    ASSUME NEW L, AreLists(L), NEW h \in Heads, NEW i \in 0..Len(L[h]) - 1, NEW f \in Elms, Fresh(L, f)
    PROVE  /\ Fresh(Take(L, h, i), f) /\ i \in 0..Len(Take(L, h, i)[h])
           /\ Swap(L, h, i, f) = Put(Take(L, h, i), h, i, f)
<1> DEFINE M == Take(L, h, i)
<1>1. /\ AreLists(M) /\ \A g \in Heads : g # h => M[g] = L[g]
      /\ Len(M[h]) = Len(L[h]) - 1
      /\ \A j \in 1..Len(L[h]) - 1 : M[h][j] = IF j <= i THEN L[h][j] ELSE L[h][j + 1]
  BY TakeIs
<1> HIDE DEF M
<1>2. PICK n : n = Len(L[h]) /\ n \in Nat /\ i \in 0..n - 1
  BY ListFields
<1>3. Fresh(M, f)
  <2>1. SUFFICES ASSUME NEW g \in Heads, NEW j \in 1..Len(M[g]), M[g][j] = f PROVE FALSE
    BY DEF Fresh
  <2>2. CASE g # h
    BY <1>1, <2>1, <2>2 DEF Fresh
  <2>3. CASE g = h
    <3>1. j \in 1..n - 1 /\ j \in 1..n /\ j + 1 \in 1..n
      BY <1>1, <1>2, <2>3
    <3> QED
      BY <1>1, <1>2, <2>1, <2>3, <3>1 DEF Fresh
  <2> QED
    BY <2>2, <2>3
<1>4. i \in 0..Len(M[h])
  BY <1>1, <1>2
<1>5. PICK N : N = Put(M, h, i, f)
  OBVIOUS
<1>6. /\ AreLists(N) /\ \A g \in Heads : g # h => N[g] = M[g]
      /\ Len(N[h]) = Len(M[h]) + 1
      /\ \A j \in 1..Len(M[h]) + 1 : N[h][j] = IF j <= i THEN M[h][j] ELSE IF j = i + 1 THEN f ELSE M[h][j - 1]
  BY <1>1, <1>3, <1>4, <1>5, PutIs
<1>7. PICK w : w = ReplaceAt(L[h], i + 1, f)
  OBVIOUS
<1>8. w \in Seq(Elms) /\ Len(w) = n /\ \A j \in 1..n : w[j] = IF j = i + 1 THEN f ELSE L[h][j]
  <2>1. i + 1 \in 1..n /\ L[h] \in Seq(Elms)
    BY <1>2, ListFields
  <2>2. PICK s : s = L[h]
    OBVIOUS
  <2>3. w = [s EXCEPT ![i + 1] = f]
    BY <1>7, <2>2 DEF ReplaceAt
  <2> QED
    BY <1>2, <2>1, <2>2, <2>3, ExceptSeq
<1>9. N[h] = w
  <2>1. N[h] \in Seq(Elms) /\ Len(N[h]) = n
    BY <1>1, <1>2, <1>6, ListFields
  <2>2. ASSUME NEW j \in 1..n PROVE N[h][j] = w[j]
    <3>1. CASE j <= i
      <4>1. j \in 1..n - 1 /\ j # i + 1
        BY <1>2, <3>1
      <4> QED
        BY <1>1, <1>2, <1>6, <1>8, <3>1, <4>1
    <3>2. CASE j = i + 1
      BY <1>1, <1>2, <1>6, <1>8, <3>2
    <3>3. CASE j > i + 1
      <4>1. j - 1 \in 1..n - 1 /\ ~(j <= i) /\ ~(j - 1 <= i) /\ j # i + 1 /\ (j - 1) + 1 = j
        BY <1>2, <3>3
      <4>2. N[h][j] = M[h][j - 1]
        BY <1>1, <1>2, <1>6, <4>1
      <4>3. M[h][j - 1] = L[h][j]
        BY <1>1, <1>2, <4>1
      <4> QED
        BY <1>8, <4>1, <4>2, <4>3
    <3> QED
      BY <1>2, <3>1, <3>2, <3>3
  <2> QED
    BY <1>8, <2>1, <2>2, SeqEqual
<1>10. PICK W : W = Swap(L, h, i, f)
  OBVIOUS
<1>11. W = N
  <2>1. W \in [Heads -> Seq(Elms)] /\ W[h] = w /\ \A g \in Heads : g # h => W[g] = L[g]
    BY <1>7, <1>8, <1>10 DEF Swap, AreLists
  <2>2. N \in [Heads -> Seq(Elms)] /\ \A g \in Heads : N[g] = W[g]
    BY <1>1, <1>6, <1>9, <2>1 DEF AreLists
  <2> QED
    BY <2>1, <2>2
<1> QED
  BY <1>3, <1>4, <1>5, <1>10, <1>11 DEF M

LEMMA ReplacedLinked ==
    ASSUME NEW mem, NEW mem2, NEW L, AreLists(L), LinkedIn(mem, L),
           NEW h \in Heads, NEW i \in 0..Len(L[h]) - 1, NEW f \in Elms, Fresh(L, f),
           Replaced(mem, mem2, L, h, i, f)
    PROVE  AreLists(Swap(L, h, i, f)) /\ LinkedIn(mem2, Swap(L, h, i, f))
<1>1. PICK n : n = Len(L[h]) /\ n \in Nat /\ i \in 0..n - 1
  BY ListFields
<1>2. PICK M : M = Take(L, h, i)
  OBVIOUS
<1>3. PICK e : e = ElmAt(L, h, i)
  OBVIOUS
<1>4. /\ FieldOf(L, h, i) \in Fields /\ FieldOf(L, h, n) \in Fields
      /\ e = L[h][i + 1] /\ e \in Elms /\ e # f
      /\ i + 1 < n => ElmAt(L, h, i + 1) \in Elms /\ ElmAt(L, h, i + 1) # e
  <2>1. i \in 0..n /\ n \in 0..n /\ i + 1 \in 1..n /\ (i + 1 < n => i + 1 \in 0..n - 1 /\ i + 1 + 1 \in 1..n)
        /\ i + 1 + 1 # i + 1
    BY <1>1
  <2>2. FieldOf(L, h, i) \in Fields /\ FieldOf(L, h, n) \in Fields
    BY <1>1, <2>1, ListFields
  <2>3. e = L[h][i + 1] /\ e \in Elms
    BY <1>1, <1>3, ListFields
  <2>4. i + 1 < n => ElmAt(L, h, i + 1) = L[h][i + 1 + 1] /\ ElmAt(L, h, i + 1) \in Elms
    BY <1>1, <2>1, ListFields
  <2>5. i + 1 < n => L[h][i + 1 + 1] # L[h][i + 1]
    BY <1>1, <2>1 DEF AreLists, Once
  <2> QED
    BY <1>1, <2>1, <2>2, <2>3, <2>4, <2>5 DEF Fresh
<1> DEFINE last == IF i + 1 = n THEN i ELSE n
           mem1 == [a \in Fields |->
                      IF a = FieldOf(L, h, i) THEN Mask(h, ElmAt(L, h, i + 1))
                      ELSE IF a = LastAt(h) THEN Mask(h, FieldOf(L, h, last))
                      ELSE IF i + 1 < n /\ a = PrevAt(ElmAt(L, h, i + 1)) THEN FieldOf(L, h, i)
                      ELSE IF a \in {NextAt(e), PrevAt(e)} THEN mem2[a] ELSE mem[a]]
<1>5. /\ mem1[FieldOf(L, h, i)] = Mask(h, ElmAt(L, h, i + 1))
      /\ mem1[LastAt(h)] = Mask(h, FieldOf(L, h, last))
      /\ i + 1 < n => mem1[PrevAt(ElmAt(L, h, i + 1))] = FieldOf(L, h, i)
      /\ \A a \in Fields : /\ a \notin {FieldOf(L, h, i), LastAt(h)}
                           /\ i + 1 < n => a # PrevAt(ElmAt(L, h, i + 1))
                           => mem1[a] = IF a \in {NextAt(e), PrevAt(e)} THEN mem2[a] ELSE mem[a]
  <2>1. LastAt(h) \in Fields /\ LastAt(h) # FieldOf(L, h, i) /\ \A x : LastAt(h) # PrevAt(x)
    BY <1>1, InFields, Addresses DEF FieldOf
  <2>2. \A x : FieldOf(L, h, i) # PrevAt(x)
    BY Addresses DEF FieldOf
  <2>3. i + 1 < n => PrevAt(ElmAt(L, h, i + 1)) \in Fields
    BY <1>4, InFields
  <2> HIDE DEF last
  <2> QED
    BY <1>4, <2>1, <2>2, <2>3
<1> HIDE DEF mem1
<1>6. LinkedIn(mem1, M)
  <2>1. Removed(mem, mem1, L, h, i)
    BY <1>1, <1>3, <1>5 DEF Removed
  <2> QED
    BY <1>2, <2>1, RemovedLinked
<1>7. AreLists(M) /\ Fresh(M, f) /\ i \in 0..Len(M[h]) /\ Swap(L, h, i, f) = Put(M, h, i, f)
      /\ Len(M[h]) = n - 1
  BY <1>1, <1>2, TakeIs, SwapIs
<1>8. /\ FieldOf(M, h, i) = FieldOf(L, h, i) /\ ElmAt(M, h, i) = ElmAt(L, h, i + 1)
      /\ FieldOf(M, h, n - 1) = FieldOf(L, h, last)
      /\ i = n - 1 <=> i + 1 = n
      /\ i < n - 1 <=> i + 1 < n
  <2>1. \A j \in 0..n - 1 : FieldOf(M, h, j) = IF j <= i THEN FieldOf(L, h, j) ELSE FieldOf(L, h, j + 1)
    BY <1>1, <1>2, TakeFields
  <2>2. \A j \in 0..n - 1 : ElmAt(M, h, j) = IF j < i THEN ElmAt(L, h, j) ELSE ElmAt(L, h, j + 1)
    BY <1>1, <1>2, TakeFields
  <2>3. n - 1 \in 0..n - 1 /\ i <= i /\ ~(i < i) /\ (n - 1 <= i <=> i + 1 = n) /\ (n - 1) + 1 = n
        /\ (i = n - 1 <=> i + 1 = n) /\ (i < n - 1 <=> i + 1 < n)
    BY <1>1
  <2>4. FieldOf(M, h, i) = FieldOf(L, h, i) /\ ElmAt(M, h, i) = ElmAt(L, h, i + 1)
    BY <1>1, <2>1, <2>2, <2>3
  <2>5. FieldOf(M, h, n - 1) = IF i + 1 = n THEN FieldOf(L, h, n - 1) ELSE FieldOf(L, h, n)
    BY <2>1, <2>3
  <2> QED
    BY <2>3, <2>4, <2>5
<1>9. Inserted(mem1, mem2, M, h, i, f)
  <2>1. /\ mem2[FieldOf(L, h, i)] = Mask(h, f)
        /\ mem2[NextAt(f)] = Mask(h, ElmAt(L, h, i + 1))
        /\ Tailed => mem2[LastAt(h)] = Mask(h, IF i + 1 = n THEN NextAt(f) ELSE FieldOf(L, h, n))
        /\ Backed => /\ mem2[PrevAt(f)] = FieldOf(L, h, i)
                     /\ i + 1 < n => mem2[PrevAt(ElmAt(L, h, i + 1))] = NextAt(f)
        /\ \A a \in Fields : /\ a \notin {FieldOf(L, h, i), NextAt(f), LastAt(h), PrevAt(f)}
                             /\ a \notin {NextAt(e), PrevAt(e)}
                             /\ i + 1 < n => a # PrevAt(ElmAt(L, h, i + 1))
                             => mem2[a] = mem[a]
    BY <1>1, <1>3 DEF Replaced
  <2>2. mem2[FieldOf(M, h, i)] = Mask(h, f) /\ mem2[NextAt(f)] = Mask(h, ElmAt(M, h, i))
    BY <1>8, <2>1
  <2>3. Tailed => mem2[LastAt(h)] = Mask(h, IF i = Len(M[h]) THEN NextAt(f) ELSE FieldOf(M, h, Len(M[h])))
    BY <1>7, <1>8, <2>1
  <2>4. Backed => /\ mem2[PrevAt(f)] = FieldOf(M, h, i)
                  /\ i < Len(M[h]) => mem2[PrevAt(ElmAt(M, h, i))] = NextAt(f)
    BY <1>7, <1>8, <2>1
  <2>5. ASSUME NEW a \in Fields, a \notin {FieldOf(M, h, i), NextAt(f), LastAt(h), PrevAt(f)},
               i < Len(M[h]) => a # PrevAt(ElmAt(M, h, i))
        PROVE  mem2[a] = mem1[a]
    <3>1. a \notin {FieldOf(L, h, i), NextAt(f), LastAt(h), PrevAt(f)}
          /\ (i + 1 < n => a # PrevAt(ElmAt(L, h, i + 1)))
      BY <1>7, <1>8, <2>5
    <3>2. mem1[a] = IF a \in {NextAt(e), PrevAt(e)} THEN mem2[a] ELSE mem[a]
      BY <1>5, <3>1
    <3>3. a \notin {NextAt(e), PrevAt(e)} => mem2[a] = mem[a]
      BY <2>1, <3>1
    <3> QED
      BY <3>2, <3>3
  <2> QED
    BY <2>2, <2>3, <2>4, <2>5 DEF Inserted
<1> QED
  BY <1>6, <1>7, <1>9, PutIs, InsertedLinked

\* The list of h, which has elements, is put behind that of g.
Joint(L, g, h) == [L EXCEPT ![g] = @ \o L[h], ![h] = <<>>]

Joined(mem, mem2, L, g, h) ==
    /\ mem2[FieldOf(L, g, Len(L[g]))] = ElmAt(L, h, 0)
    /\ mem2[LastAt(g)] = FieldOf(L, h, Len(L[h]))
    /\ mem2[FirstAt(h)] = Null /\ mem2[LastAt(h)] = FirstAt(h)
    /\ Backed => mem2[PrevAt(ElmAt(L, h, 0))] = FieldOf(L, g, Len(L[g]))
    /\ \A a \in Fields :
          a \notin {FieldOf(L, g, Len(L[g])), LastAt(g), FirstAt(h), LastAt(h), PrevAt(ElmAt(L, h, 0))}
          => mem2[a] = mem[a]

LEMMA JointIs ==
    ASSUME NEW L, AreLists(L), NEW g \in Heads, NEW h \in Heads, g # h
    PROVE  /\ AreLists(Joint(L, g, h))
           /\ \A k \in Heads : k \notin {g, h} => Joint(L, g, h)[k] = L[k]
           /\ Joint(L, g, h)[h] = <<>>
           /\ Len(Joint(L, g, h)[g]) = Len(L[g]) + Len(L[h])
           /\ \A j \in 1..Len(L[g]) + Len(L[h]) :
                 Joint(L, g, h)[g][j] = IF j <= Len(L[g]) THEN L[g][j] ELSE L[h][j - Len(L[g])]
<1>1. L \in [Heads -> Seq(Elms)] /\ L[g] \in Seq(Elms) /\ L[h] \in Seq(Elms)
  BY DEF AreLists
<1>2. PICK w : w = L[g] \o L[h]
  OBVIOUS
<1>n. PICK n : n = Len(L[g]) /\ n \in Nat
  BY ListFields
<1>k. PICK k : k = Len(L[h]) /\ k \in Nat
  BY ListFields
<1>nk. n \in Nat /\ k \in Nat
  BY <1>n, <1>k
<1>3. n = Len(L[g]) /\ k = Len(L[h])
  BY <1>n, <1>k
<1>4. w \in Seq(Elms) /\ Len(w) = n + k /\ \A j \in 1..n + k : w[j] = IF j <= n THEN L[g][j] ELSE L[h][j - n]
  <2>1. PICK s, t : s = L[g] /\ t = L[h]
    OBVIOUS
  <2> QED
    BY <1>1, <1>2, <1>3, <2>1, ConcatProperties
<1>5. PICK M : M = Joint(L, g, h)
  OBVIOUS
<1>6. <<>> \in Seq(Elms) /\ Len(<<>>) = 0
  BY EmptySeq
<1>7. /\ M \in [Heads -> Seq(Elms)] /\ M[g] = w /\ M[h] = <<>>
      /\ \A x \in Heads : x \notin {g, h} => M[x] = L[x]
  <2>1. M = [L EXCEPT ![g] = w, ![h] = <<>>]
    BY <1>1, <1>2, <1>5 DEF Joint
  <2>2. PICK W : W = [L EXCEPT ![g] = w]
    OBVIOUS
  <2>3. W \in [Heads -> Seq(Elms)] /\ W[g] = w /\ \A x \in Heads : x # g => W[x] = L[x]
    BY <1>1, <1>4, <2>2
  <2>4. M = [W EXCEPT ![h] = <<>>]
    BY Zenon, <2>1, <2>2
  <2> QED
    BY <1>6, <2>3, <2>4
<1> DEFINE home(x, a) == IF x = g /\ a > n THEN h ELSE x
           place(x, a) == IF x = g /\ a > n THEN a - n ELSE a
<1>8. ASSUME NEW x \in Heads, NEW a \in 1..Len(M[x])
      PROVE  /\ home(x, a) \in Heads /\ place(x, a) \in 1..Len(L[home(x, a)])
             /\ M[x][a] = L[home(x, a)][place(x, a)] /\ x # h
  <2>1. CASE x = g /\ a > n
    <3>0. a \in 1..n + k
      BY <1>4, <1>7, <2>1
    <3>1. a \in 1..n + k /\ ~(a <= n) /\ a - n \in 1..k
      BY <1>nk, <2>1, <3>0
    <3>2. home(x, a) = h /\ place(x, a) = a - n
      BY <2>1
    <3> HIDE DEF home, place
    <3> QED
      BY <1>3, <1>4, <1>7, <2>1, <3>1, <3>2
  <2>2. CASE x = g /\ ~(a > n)
    <3>0. a \in 1..n + k
      BY <1>4, <1>7, <2>2
    <3>1. a \in 1..n + k /\ a <= n /\ a \in 1..n
      BY <1>nk, <2>2, <3>0
    <3>2. home(x, a) = x /\ place(x, a) = a
      BY <2>2
    <3> HIDE DEF home, place
    <3> QED
      BY <1>3, <1>4, <1>7, <2>2, <3>1, <3>2
  <2>3. CASE x # g
    <3>1. home(x, a) = x /\ place(x, a) = a
      BY <2>3
    <3> HIDE DEF home, place
    <3>2. x # h
      BY <1>6, <1>7
    <3> QED
      BY <1>7, <2>3, <3>1, <3>2
  <2> QED
    BY <2>1, <2>2, <2>3
<1>9. ASSUME NEW x \in Heads, NEW y \in Heads, x # h, y # h, NEW a \in Int, NEW b \in Int,
             home(x, a) = home(y, b), place(x, a) = place(y, b)
      PROVE  x = y /\ a = b
  <2>1. CASE x = g /\ a > n
    <3>1. y = g /\ b > n
      BY <1>9, <2>1
    <3> QED
      BY <1>nk, <1>9, <2>1, <3>1
  <2>2. CASE ~(x = g /\ a > n)
    <3>1. ~(y = g /\ b > n)
      BY <1>9, <2>2
    <3> QED
      BY <1>9, <2>2, <3>1
  <2> QED
    BY <2>1, <2>2
<1> HIDE DEF home, place
<1>10. Once(M)
  <2>1. SUFFICES ASSUME NEW x \in Heads, NEW y \in Heads, NEW a \in 1..Len(M[x]), NEW b \in 1..Len(M[y]),
                        M[x][a] = M[y][b]
                 PROVE  x = y /\ a = b
    BY DEF Once
  <2>2. PICK p, q : p = home(x, a) /\ q = home(y, b)
    OBVIOUS
  <2>3. PICK c, d : c = place(x, a) /\ d = place(y, b)
    OBVIOUS
  <2>4. p \in Heads /\ q \in Heads /\ c \in 1..Len(L[p]) /\ d \in 1..Len(L[q]) /\ L[p][c] = L[q][d]
    BY <1>8, <2>1, <2>2, <2>3
  <2>5. p = q /\ c = d
    BY <2>4 DEF AreLists, Once
  <2>6. a \in Int /\ b \in Int /\ x # h /\ y # h
    BY <1>8
  <2>7. home(x, a) = home(y, b) /\ place(x, a) = place(y, b)
    BY <2>2, <2>3, <2>5
  <2> QED
    BY <1>9, <2>6, <2>7
<1> QED
  BY <1>3, <1>4, <1>5, <1>7, <1>10 DEF AreLists

LEMMA JointOfEmpty ==
    ASSUME NEW L, AreLists(L), NEW g \in Heads, NEW h \in Heads, g # h, L[h] = <<>>
    PROVE  Joint(L, g, h) = L
<1>1. L \in [Heads -> Seq(Elms)] /\ L[g] \in Seq(Elms)
  BY DEF AreLists
<1>2. L[g] \o L[h] = L[g]
  BY <1>1, ConcatEmptySeq
<1> QED
  BY <1>1, <1>2 DEF Joint

LEMMA JoinedLinked ==
    ASSUME NEW mem, NEW mem2, NEW L, AreLists(L), LinkedIn(mem, L), Tailed, kind # "XSIMPLEQ",
           NEW g \in Heads, NEW h \in Heads, g # h, L[h] # <<>>, Joined(mem, mem2, L, g, h)
    PROVE  LinkedIn(mem2, Joint(L, g, h))
<1>1. PICK M : M = Joint(L, g, h)
  OBVIOUS
<1>n. PICK n : n = Len(L[g]) /\ n \in Nat
  BY ListFields
<1>k. PICK k : k = Len(L[h]) /\ k \in Nat
  BY ListFields
<1>nk. n \in Nat /\ k \in Nat
  BY <1>n, <1>k
<1>2. n = Len(L[g]) /\ k = Len(L[h])
  BY <1>n, <1>k
<1>3. /\ AreLists(M)
      /\ \A x \in Heads : x \notin {g, h} => M[x] = L[x]
      /\ M[h] = <<>> /\ Len(M[h]) = 0
      /\ Len(M[g]) = n + k
      /\ \A j \in 1..n + k : M[g][j] = IF j <= n THEN L[g][j] ELSE L[h][j - n]
  <2>1. Len(<<>>) = 0
    OBVIOUS
  <2>2. /\ AreLists(Joint(L, g, h))
        /\ \A x \in Heads : x \notin {g, h} => Joint(L, g, h)[x] = L[x]
        /\ Joint(L, g, h)[h] = <<>>
        /\ Len(Joint(L, g, h)[g]) = Len(L[g]) + Len(L[h])
        /\ \A j \in 1..Len(L[g]) + Len(L[h]) :
              Joint(L, g, h)[g][j] = IF j <= Len(L[g]) THEN L[g][j] ELSE L[h][j - Len(L[g])]
    BY JointIs
  <2> QED
    BY <1>1, <1>2, <2>1, <2>2
<1>4. k > 0
  <2>1. L[h] \in Seq(Elms)
    BY ListFields
  <2>2. k # 0
    BY <1>2, <2>1, EmptySeq
  <2> QED
    BY <1>nk, <2>2
<1>5. \A x \in Heads : x \notin {g, h} =>
         \A j : FieldOf(M, x, j) = FieldOf(L, x, j) /\ ElmAt(M, x, j) = ElmAt(L, x, j)
  BY <1>3 DEF FieldOf, ElmAt
<1>6. ASSUME NEW j \in 0..n + k
      PROVE  FieldOf(M, g, j) = IF j <= n THEN FieldOf(L, g, j) ELSE FieldOf(L, h, j - n)
  <2>1. CASE j = 0
    BY <1>nk, <2>1 DEF FieldOf
  <2>2. CASE j # 0
    <3>1. j \in 1..n + k /\ (~(j <= n) => j - n # 0)
      BY <1>nk, <2>2
    <3> QED
      BY <1>3, <2>2, <3>1 DEF FieldOf
  <2> QED
    BY <2>1, <2>2
<1>7. ASSUME NEW j \in 0..n + k
      PROVE  ElmAt(M, g, j) = IF j < n THEN ElmAt(L, g, j) ELSE ElmAt(L, h, j - n)
  <2>1. CASE j = n + k
    <3>1. ~(j < Len(M[g])) /\ ~(j - n < k) /\ ~(j < n)
      BY <1>nk, <1>3, <2>1
    <3> QED
      BY <1>2, <3>1 DEF ElmAt
  <2>2. CASE j # n + k
    <3>1. j + 1 \in 1..n + k /\ j < Len(M[g]) /\ (j + 1 <= n <=> j < n) /\ (j + 1) - n = (j - n) + 1
          /\ (~(j < n) => j - n < k)
      BY <1>nk, <1>3, <2>2
    <3>2. M[g][j + 1] = IF j < n THEN L[g][j + 1] ELSE L[h][(j - n) + 1]
      BY <1>3, <3>1
    <3> QED
      BY <1>2, <3>1, <3>2 DEF ElmAt
  <2> QED
    BY <2>1, <2>2
<1>8. \A x \in Heads : \A v : Mask(x, v) = v
  BY MaskIs
<1>9. /\ mem2[FieldOf(L, g, n)] = ElmAt(L, h, 0)
      /\ mem2[LastAt(g)] = FieldOf(L, h, k)
      /\ mem2[FirstAt(h)] = Null /\ mem2[LastAt(h)] = FirstAt(h)
      /\ Backed => mem2[PrevAt(ElmAt(L, h, 0))] = FieldOf(L, g, n)
      /\ \A a \in Fields :
            a \notin {FieldOf(L, g, n), LastAt(g), FirstAt(h), LastAt(h), PrevAt(ElmAt(L, h, 0))}
            => mem2[a] = mem[a]
  BY <1>2 DEF Joined
<1>10. ASSUME NEW x \in Heads, NEW j \in 0..Len(L[x]), ~(x = g /\ j = n), ~(x = h /\ j = 0)
       PROVE  mem2[FieldOf(L, x, j)] = ElmAt(L, x, j)
  <2>1. FieldOf(L, x, j) \in Fields
    BY ListFields
  <2>2. FieldOf(L, x, j) # FieldOf(L, g, n)
    <3>1. n \in 0..Len(L[g])
      BY <1>nk, <1>2
    <3> QED
      BY <1>10, <3>1, FieldsDiffer
  <2>3. FieldOf(L, x, j) # FirstAt(h)
    <3>1. 0 \in 0..Len(L[h]) /\ FieldOf(L, h, 0) = FirstAt(h)
      BY <1>nk, <1>2 DEF FieldOf
    <3> QED
      BY <1>10, <3>1, FieldsDiffer
  <2>4. \A y : FieldOf(L, x, j) # LastAt(y) /\ FieldOf(L, x, j) # PrevAt(y)
    BY FieldsDiffer
  <2>5. mem2[FieldOf(L, x, j)] = mem[FieldOf(L, x, j)]
    BY <1>9, <2>1, <2>2, <2>3, <2>4
  <2> QED
    BY <1>8, <2>5 DEF LinkedIn
<1>11. ASSUME NEW x \in Heads, NEW j \in 0..Len(M[x]) PROVE mem2[FieldOf(M, x, j)] = ElmAt(M, x, j)
  <2>1. CASE x \notin {g, h}
    BY <1>3, <1>5, <1>10, <2>1
  <2>2. CASE x = h
    <3>1. j = 0 /\ FieldOf(M, x, j) = FirstAt(h) /\ ElmAt(M, x, j) = Null
      BY <1>3, <2>2 DEF FieldOf, ElmAt
    <3> QED
      BY <1>9, <3>1
  <2>3. CASE x = g
    <3>1. j \in 0..n + k
      BY <1>3, <2>3
    <3>2. CASE j < n
      <4>1. j <= n /\ j \in 0..n /\ j # n
        BY <1>nk, <3>1, <3>2
      <4> QED
        BY <1>2, <1>6, <1>7, <1>10, <2>3, <3>1, <3>2, <4>1
    <3>3. CASE j = n
      <4>1. j <= n /\ ~(j < n) /\ j - n = 0
        BY <1>nk, <3>3
      <4> QED
        BY <1>6, <1>7, <1>9, <2>3, <3>1, <3>3, <4>1
    <3>4. CASE j > n
      <4>1. ~(j <= n) /\ ~(j < n) /\ j - n \in 0..k /\ j - n # 0
        BY <1>nk, <3>1, <3>4
      <4> QED
        BY <1>2, <1>6, <1>7, <1>10, <2>3, <3>1, <4>1
    <3> QED
      BY <1>nk, <3>1, <3>2, <3>3, <3>4
  <2> QED
    BY <2>1, <2>2, <2>3
<1>12. ASSUME NEW x \in Heads PROVE mem2[LastAt(x)] = FieldOf(M, x, Len(M[x]))
  <2>1. CASE x \notin {g, h}
    <3>1. LastAt(x) \in Fields /\ LastAt(x) \notin {LastAt(g), LastAt(h), FirstAt(h), PrevAt(ElmAt(L, h, 0))}
      BY <2>1, InFields, Addresses
    <3>2. LastAt(x) # FieldOf(L, g, n)
      BY Addresses DEF FieldOf
    <3>3. mem2[LastAt(x)] = mem[LastAt(x)]
      BY <1>9, <3>1, <3>2
    <3> QED
      BY <1>3, <1>5, <1>8, <2>1, <3>3 DEF LinkedIn
  <2>2. CASE x = h
    BY <1>3, <1>9, <2>2 DEF FieldOf
  <2>3. CASE x = g
    <3>1. n + k \in 0..n + k /\ ~(n + k <= n) /\ (n + k) - n = k
      BY <1>nk, <1>4
    <3> QED
      BY <1>3, <1>6, <1>9, <2>3, <3>1
  <2> QED
    BY <2>1, <2>2, <2>3
<1>13. ASSUME Backed, NEW x \in Heads, NEW j \in 1..Len(L[x]), ~(x = h /\ j = 1)
       PROVE  mem2[PrevAt(L[x][j])] = FieldOf(L, x, j - 1)
  <2>1. L[x][j] \in Elms
    BY ListFields
  <2>2. PrevAt(L[x][j]) \in Fields /\ PrevAt(L[x][j]) \notin {LastAt(g), FirstAt(h), LastAt(h)}
    BY <2>1, InFields, Addresses
  <2>3. PrevAt(L[x][j]) # FieldOf(L, g, n)
    BY Addresses DEF FieldOf
  <2>4. PrevAt(L[x][j]) # PrevAt(ElmAt(L, h, 0))
    <3>1. SUFFICES ASSUME PrevAt(L[x][j]) = PrevAt(ElmAt(L, h, 0)) PROVE FALSE
      OBVIOUS
    <3>2. ElmAt(L, h, 0) = L[h][1] /\ 1 \in 1..Len(L[h])
      BY <1>nk, <1>2, <1>4 DEF ElmAt
    <3>3. L[x][j] = L[h][1]
      BY <3>1, <3>2, Addresses
    <3> QED
      BY <1>13, <3>2, <3>3 DEF AreLists, Once
  <2>5. mem2[PrevAt(L[x][j])] = mem[PrevAt(L[x][j])]
    BY <1>9, <2>2, <2>3, <2>4
  <2> QED
    BY <1>13, <2>5 DEF LinkedIn
<1>14. ASSUME Backed, NEW x \in Heads, NEW j \in 1..Len(M[x]) PROVE mem2[PrevAt(M[x][j])] = FieldOf(M, x, j - 1)
  <2>1. CASE x \notin {g, h}
    BY <1>3, <1>5, <1>13, <1>14, <2>1
  <2>2. CASE x = h
    BY <1>3, <2>2
  <2>3. CASE x = g
    <3>1. j \in 1..n + k /\ j - 1 \in 0..n + k
      BY <1>nk, <1>3, <2>3
    <3>2. CASE j <= n
      <4>1. j - 1 <= n /\ j \in 1..n
        BY <1>nk, <3>1, <3>2
      <4>2. mem2[PrevAt(L[g][j])] = FieldOf(L, g, j - 1)
        BY <1>2, <1>13, <1>14, <4>1
      <4>3. M[g][j] = L[g][j] /\ FieldOf(M, g, j - 1) = FieldOf(L, g, j - 1)
        BY <1>3, <1>6, <3>1, <3>2, <4>1
      <4> QED
        BY <2>3, <4>2, <4>3
    <3>3. CASE j = n + 1
      <4>1. j - 1 <= n /\ ~(j <= n) /\ j - 1 = n /\ j - n = 1
        BY <1>nk, <3>3
      <4>2. M[g][j] = ElmAt(L, h, 0)
        <5>1. ElmAt(L, h, 0) = L[h][1]
          <6>1. 0 < k /\ 0 + 1 = 1
            BY <1>nk, <1>4
          <6> QED
            BY <1>2, <6>1 DEF ElmAt
        <5> QED
          BY <1>3, <3>1, <4>1, <5>1
      <4>3. FieldOf(M, g, j - 1) = FieldOf(L, g, n)
        BY <1>6, <3>1, <4>1
      <4> QED
        BY <1>9, <1>14, <2>3, <4>2, <4>3
    <3>4. CASE j > n + 1
      <4>1. ~(j - 1 <= n) /\ ~(j <= n) /\ j - n \in 1..k /\ j - n # 1 /\ (j - n) - 1 = (j - 1) - n
        BY <1>nk, <3>1, <3>4
      <4>2. mem2[PrevAt(L[h][j - n])] = FieldOf(L, h, (j - n) - 1)
        BY <1>2, <1>13, <1>14, <4>1
      <4>3. M[g][j] = L[h][j - n] /\ FieldOf(M, g, j - 1) = FieldOf(L, h, (j - 1) - n)
        BY <1>3, <1>6, <3>1, <4>1
      <4> QED
        BY <2>3, <4>1, <4>2, <4>3
    <3> QED
      BY <1>nk, <3>1, <3>2, <3>3, <3>4
  <2> QED
    BY <2>1, <2>2, <2>3
<1> QED
  BY <1>1, <1>8, <1>11, <1>12, <1>14 DEF LinkedIn

----------------------------------------------------------------------------
(* A list as it is walked is the list that memory represents.              *)

\* The links of a list as they are read.
LEMMA LinksRead ==
    ASSUME NEW L, AreLists(L), LinkedIn(m, L), NEW h \in Heads
    PROVE  /\ FirstOf(h) = ElmAt(L, h, 0)
           /\ \A i \in 1..Len(L[h]) : NextOf(h, L[h][i]) = ElmAt(L, h, i)
<1>1. ASSUME NEW i \in 0..Len(L[h])
      PROVE  (IF kind = "XSIMPLEQ" THEN Xor(h, m[FieldOf(L, h, i)]) ELSE m[FieldOf(L, h, i)]) = ElmAt(L, h, i)
  <2>1. m[FieldOf(L, h, i)] = Mask(h, ElmAt(L, h, i))
    BY DEF LinkedIn
  <2>2. ElmAt(L, h, i) \in Bare
    BY ListFields, Unmasked
  <2> QED
    BY <2>1, <2>2, MaskIs
<1>2. Len(L[h]) \in Nat
  BY ListFields
<1>3. 0 \in 0..Len(L[h]) /\ FieldOf(L, h, 0) = FirstAt(h)
  BY <1>2 DEF FieldOf
<1>4. \A i \in 1..Len(L[h]) : i \in 0..Len(L[h]) /\ FieldOf(L, h, i) = NextAt(L[h][i])
  BY <1>2 DEF FieldOf
<1> QED
  BY <1>1, <1>3, <1>4 DEF FirstOf, NextOf

\* There are no more elements in a list than there are.
LEMMA NotLonger ==
    ASSUME NEW L, AreLists(L), NEW h \in Heads
    PROVE  Cardinality(Elms) \in Nat /\ Len(L[h]) <= Cardinality(Elms)
<1>1. PICK n : n = Len(L[h]) /\ n \in Nat
  BY ListFields
<1>2. IsFiniteSet(Elms)
  BY QueueAssumption
<1>3. L[h] \in [1..n -> Elms]
  BY <1>1, ListFields, LenProperties
<1>4. \A i \in 1..n, j \in 1..n : L[h][i] = L[h][j] => i = j
  BY <1>1 DEF AreLists, Once
<1>5. L[h] \in Injection(1..n, Elms)
  BY <1>3, <1>4 DEF Injection, IsInjective
<1>6. Cardinality(1..n) <= Cardinality(Elms)
  BY <1>2, <1>5, FS_Injection
<1>7. Cardinality(1..n) = n
  BY <1>1, FS_Interval
<1>8. Cardinality(Elms) \in Nat
  BY <1>2, FS_CardinalityType
<1> QED
  BY <1>1, <1>6, <1>7, <1>8

\* How the walk goes on from an element p[1] with p[2] steps left, if f says how from the next.
Onward(h, f, p) ==
    LET n == NextOf(h, p[1])
    IN  <<p[1]>> \o (IF p[2] > 0 /\ n \in Elms THEN f[<<n, p[2] - 1>>] ELSE <<>>)

IsFrom(h, f, k) == f = [p \in Elms \X (0..k) |-> Onward(h, f, p)]

LEMMA OnwardSame ==
    ASSUME NEW h, NEW f, NEW g, NEW k \in Nat, NEW p \in Elms \X (0..k),
           \A q \in Elms \X (0..k - 1) : f[q] = g[q]
    PROVE  Onward(h, f, p) = Onward(h, g, p)
<1>1. CASE p[2] > 0 /\ NextOf(h, p[1]) \in Elms
  <2>1. p[2] \in 0..k
    OBVIOUS
  <2>2. p[2] - 1 \in 0..k - 1
    BY <1>1, <2>1
  <2>3. <<NextOf(h, p[1]), p[2] - 1>> \in Elms \X (0..k - 1)
    BY <1>1, <2>2
  <2>4. f[<<NextOf(h, p[1]), p[2] - 1>>] = g[<<NextOf(h, p[1]), p[2] - 1>>]
    BY <2>3
  <2> QED
    BY <2>4 DEF Onward
<1>2. CASE ~(p[2] > 0 /\ NextOf(h, p[1]) \in Elms)
  BY <1>2 DEF Onward
<1> QED
  BY <1>1, <1>2

LEMMA FromExists == ASSUME NEW h, NEW n \in Nat PROVE \E f : IsFrom(h, f, n)
<1> DEFINE T == {k \in Nat : ~\E f : IsFrom(h, f, k)}
<1>1. SUFFICES T = {}
  OBVIOUS
<1>2. SUFFICES ASSUME T # {} PROVE FALSE
  OBVIOUS
<1>3. PICK k \in T : \A y \in T : k <= y
  <2>1. T \subseteq Nat
    OBVIOUS
  <2> HIDE DEF T
  <2> QED
    BY <1>2, <2>1, LeastIs
<1>4. PICK g : k > 0 => IsFrom(h, g, k - 1)
  <2>1. CASE k > 0
    <3>1. k - 1 \in Nat /\ ~(k <= k - 1)
      BY <2>1
    <3>2. k - 1 \notin T
      BY <1>3, <3>1
    <3> QED
      BY <3>1, <3>2
  <2>2. CASE ~(k > 0)
    BY <2>2
  <2> QED
    BY <2>1, <2>2
<1>5. PICK f : f = [p \in Elms \X (0..k) |-> IF p[2] < k THEN g[p] ELSE Onward(h, g, p)]
  OBVIOUS
<1>6. k \in Nat
  OBVIOUS
<1>7. \A q \in Elms \X (0..k - 1) : q \in Elms \X (0..k) /\ q[2] < k /\ k > 0
  BY <1>6
<1>8. \A q \in Elms \X (0..k - 1) : f[q] = g[q]
  BY <1>5, <1>7
<1>9. ASSUME NEW p \in Elms \X (0..k) PROVE f[p] = Onward(h, g, p)
  <2>1. CASE p[2] < k
    <3>1. p[2] \in 0..k /\ p = <<p[1], p[2]>> /\ p[1] \in Elms
      OBVIOUS
    <3>2. p[2] \in 0..k - 1 /\ k > 0
      BY <1>6, <2>1, <3>1
    <3>3. p \in Elms \X (0..k - 1)
      BY <3>1, <3>2
    <3>4. g = [q \in Elms \X (0..k - 1) |-> Onward(h, g, q)]
      BY <1>4, <3>2 DEF IsFrom
    <3>5. PICK x : x = [q \in Elms \X (0..k - 1) |-> Onward(h, g, q)]
      OBVIOUS
    <3>6. x[p] = Onward(h, g, p)
      BY <3>3, <3>5
    <3> QED
      BY <1>8, <3>3, <3>4, <3>5, <3>6
  <2>2. CASE ~(p[2] < k)
    BY <1>5, <2>2
  <2> QED
    BY <2>1, <2>2
<1>10. \A p \in Elms \X (0..k) : f[p] = Onward(h, f, p)
  <2>1. ASSUME NEW p \in Elms \X (0..k) PROVE f[p] = Onward(h, f, p)
    <3>1. Onward(h, f, p) = Onward(h, g, p)
      BY <1>6, <1>8, OnwardSame
    <3> QED
      BY <1>9, <3>1
  <2> QED
    BY <2>1
<1>11. f = [p \in DOMAIN f |-> f[p]] /\ DOMAIN f = Elms \X (0..k)
  BY <1>5
<1>12. PICK y : y = [p \in Elms \X (0..k) |-> Onward(h, f, p)]
  OBVIOUS
<1>13. DOMAIN y = Elms \X (0..k) /\ y = [p \in DOMAIN y |-> y[p]] /\ \A p \in Elms \X (0..k) : y[p] = f[p]
  BY <1>10, <1>12
<1>14. f = y
  BY <1>11, <1>13
<1>15. IsFrom(h, f, k)
  BY <1>12, <1>14 DEF IsFrom
<1> QED
  BY <1>3, <1>15

LEMMA WalkIs == ASSUME NEW L, AreLists(L), LinkedIn(m, L), NEW h \in Heads PROVE Walk(h) = L[h]
<1>1. Cardinality(Elms) \in Nat /\ Len(L[h]) <= Cardinality(Elms)
  BY NotLonger
<1> DEFINE N == Cardinality(Elms)
           from == CHOOSE f : IsFrom(h, f, N)
<1>2. Walk(h) = IF FirstOf(h) \in Elms THEN from[<<FirstOf(h), N>>] ELSE <<>>
  BY DEF Walk, IsFrom, Onward
<1>3. IsFrom(h, from, N)
  BY <1>1, FromExists
<1> HIDE DEF from
<1>4. PICK w, n : w = L[h] /\ n = Len(w)
  OBVIOUS
<1>5. w \in Seq(Elms) /\ n \in Nat /\ n <= N /\ \A i \in 1..n : w[i] \in Elms
  BY <1>1, <1>4, ListFields
<1>6. /\ FirstOf(h) = IF 0 < n THEN w[1] ELSE Null
      /\ \A i \in 1..n : NextOf(h, w[i]) = IF i < n THEN w[i + 1] ELSE Null
  <2>1. 0 + 1 = 1
    OBVIOUS
  <2> QED
    BY <1>4, <2>1, LinksRead DEF ElmAt
<1>7. Null \notin Elms
  BY QueueAssumption
<1>8. ASSUME NEW i \in 1..n, NEW k \in 0..N
      PROVE  from[<<w[i], k>>] = <<w[i]>> \o (IF k > 0 /\ i < n THEN from[<<w[i + 1], k - 1>>] ELSE <<>>)
  <2>1. <<w[i], k>> \in Elms \X (0..N)
    BY <1>5
  <2>2. PICK x : x = [p \in Elms \X (0..N) |-> Onward(h, from, p)]
    OBVIOUS
  <2>3. x[<<w[i], k>>] = Onward(h, from, <<w[i], k>>)
    BY <2>1, <2>2
  <2>4. from[<<w[i], k>>] = Onward(h, from, <<w[i], k>>)
    BY <1>3, <2>2, <2>3 DEF IsFrom
  <2>5. i < n => w[i + 1] \in Elms
    BY <1>5
  <2>6. NextOf(h, w[i]) \in Elms <=> i < n
    BY <1>6, <1>7, <2>5
  <2>7. PICK p : p = <<w[i], k>>
    OBVIOUS
  <2>8. p[1] = w[i] /\ p[2] = k /\ from[p] = Onward(h, from, p)
    BY <2>4, <2>7
  <2> QED
    BY <1>6, <2>6, <2>7, <2>8 DEF Onward
<1> DEFINE T == {d \in Nat : \E i \in 1..n, k \in 0..N : d = n - i /\ k >= d /\ from[<<w[i], k>>] # SubSeq(w, i, n)}
<1>9. T = {}
  <2>1. SUFFICES ASSUME T # {} PROVE FALSE
    OBVIOUS
  <2>2. PICK d \in T : \A y \in T : d <= y
    <3>1. T \subseteq Nat
      OBVIOUS
    <3> HIDE DEF T
    <3> QED
      BY <2>1, <3>1, LeastIs
  <2>3. PICK i \in 1..n, k \in 0..N : d = n - i /\ k >= d /\ from[<<w[i], k>>] # SubSeq(w, i, n)
    OBVIOUS
  <2>4. SubSeq(w, i, n) = <<w[i]>> \o SubSeq(w, i + 1, n)
    <3>1. i \in 1..Len(w) /\ n \in i..Len(w)
      BY <1>4, <1>5
    <3> QED
      BY <1>5, <3>1, SubSeqRecursiveFirst
  <2>5. CASE i < n
    <3>1. d - 1 \in Nat /\ ~(d <= d - 1) /\ k - 1 \in 0..N /\ i + 1 \in 1..n /\ d - 1 = n - (i + 1)
          /\ k - 1 >= d - 1 /\ k > 0
      BY <1>1, <1>5, <2>3, <2>5
    <3>2. d - 1 \notin T
      BY <2>2, <3>1
    <3>3. from[<<w[i + 1], k - 1>>] = SubSeq(w, i + 1, n)
      BY <3>1, <3>2
    <3> HIDE DEF T
    <3> QED
      BY <1>8, <2>3, <2>4, <2>5, <3>1, <3>3
  <2>6. CASE ~(i < n)
    <3>1. i + 1 > n /\ i + 1 \in Int /\ n \in Int
      BY <1>5, <2>6
    <3>2. SubSeq(w, i + 1, n) = <<>>
      BY <3>1, SubSeqEmpty
    <3> HIDE DEF T
    <3> QED
      BY <1>8, <2>3, <2>4, <2>6, <3>2
  <2> QED
    BY <2>5, <2>6
<1>10. CASE n = 0
  <2>1. ~(0 < n)
    BY <1>10
  <2>2. w = <<>>
    BY <1>4, <1>5, <1>10, EmptySeq
  <2> QED
    BY <1>2, <1>4, <1>6, <1>7, <2>1, <2>2
<1>11. CASE n # 0
  <2>1. 0 < n /\ 1 \in 1..n /\ N \in 0..N /\ n - 1 \in Nat /\ N >= n - 1
    BY <1>1, <1>5, <1>11
  <2>2. from[<<w[1], N>>] = SubSeq(w, 1, n)
    BY <1>9, <2>1
  <2>3. SubSeq(w, 1, n) = w
    BY <1>4, <1>5, SubSeqFull
  <2> QED
    BY <1>2, <1>4, <1>5, <1>6, <2>1, <2>2, <2>3
<1> QED
  BY <1>10, <1>11

----------------------------------------------------------------------------
(* What the macros do to memory.                                           *)

\* The fields hold what they may; a cookie masks the pointers in them.
Held(mem) == DOMAIN mem = Fields /\ (~cookie => mem \in [Fields -> Bare])

\* Memory represents the lists L.
Linked(L) ==
    /\ kind \in Kinds /\ cookie \in BOOLEAN /\ (cookie => kind = "XSIMPLEQ")
    /\ Held(m) /\ AreLists(L) /\ LinkedIn(m, L)

\* The fields that an insertion of e after i elements stores to.
LEMMA Apart ==
    ASSUME NEW L, AreLists(L), NEW h \in Heads, NEW i \in 0..Len(L[h]), NEW e \in Elms, Fresh(L, e)
    PROVE  /\ {FieldOf(L, h, i), NextAt(e), PrevAt(e), LastAt(h)} \subseteq Fields
           /\ FieldOf(L, h, i) \notin {NextAt(e), PrevAt(e), LastAt(h)}
           /\ NextAt(e) \notin {PrevAt(e), LastAt(h)} /\ PrevAt(e) # LastAt(h)
           /\ ElmAt(L, h, i) \in Elms \cup {Null}
           /\ i < Len(L[h]) <=> ElmAt(L, h, i) # Null
           /\ ElmAt(L, h, i) # Null =>
                 /\ PrevAt(ElmAt(L, h, i)) \in Fields
                 /\ PrevAt(ElmAt(L, h, i)) \notin {FieldOf(L, h, i), NextAt(e), PrevAt(e), LastAt(h)}
<1>1. {FieldOf(L, h, i), NextAt(e), PrevAt(e), LastAt(h)} \subseteq Fields
  BY ListFields, InFields
<1>2. FieldOf(L, h, i) \notin {NextAt(e), PrevAt(e), LastAt(h)}
  <2>1. FieldOf(L, h, i) # NextAt(e)
    BY FieldsDiffer DEF Fresh
  <2> QED
    BY <2>1, FieldsDiffer
<1>3. NextAt(e) \notin {PrevAt(e), LastAt(h)} /\ PrevAt(e) # LastAt(h)
  BY Addresses
<1>4. Len(L[h]) \in Nat /\ i \in Nat /\ i <= Len(L[h])
  BY ListFields
<1>5. CASE i < Len(L[h])
  <2>1. i \in 0..Len(L[h]) - 1 /\ i + 1 \in 1..Len(L[h])
    BY <1>4, <1>5
  <2>2. ElmAt(L, h, i) = L[h][i + 1] /\ ElmAt(L, h, i) \in Elms /\ Null \notin Elms
    BY <2>1, ListFields
  <2>3. ElmAt(L, h, i) # e
    BY <2>1, <2>2 DEF Fresh
  <2>4. PrevAt(ElmAt(L, h, i)) \in Fields
    BY <2>2, InFields
  <2>5. PrevAt(ElmAt(L, h, i)) \notin {NextAt(e), PrevAt(e), LastAt(h)}
    BY <2>3, Addresses
  <2>6. PrevAt(ElmAt(L, h, i)) # FieldOf(L, h, i)
    BY FieldsDiffer
  <2> QED
    BY <1>1, <1>2, <1>3, <1>5, <2>2, <2>4, <2>5, <2>6
<1>6. CASE ~(i < Len(L[h]))
  <2>1. i = Len(L[h])
    BY <1>4, <1>6
  <2>2. ElmAt(L, h, i) = Null
    BY <2>1, ListFields
  <2> QED
    BY <1>1, <1>2, <1>3, <1>6, <2>2
<1> QED
  BY <1>5, <1>6

\* Without a cookie pointers are stored as they are.
LEMMA Plain ==
    ASSUME NEW L, Linked(L), NEW h \in Heads, ~cookie
    PROVE  /\ \A v : Mask(h, v) = v /\ Xor(h, v) = v
           /\ m \in [Fields -> Bare] /\ Elms \cup Fields \cup {Null, Stale} \subseteq Bare
           /\ \A i \in 0..Len(L[h]) : m[FieldOf(L, h, i)] = ElmAt(L, h, i)
           /\ Tailed => m[LastAt(h)] = FieldOf(L, h, Len(L[h]))
           /\ Backed => \A i \in 1..Len(L[h]) : m[PrevAt(L[h][i])] = FieldOf(L, h, i - 1)
<1>1. \A v : Mask(h, v) = v /\ Xor(h, v) = v
  BY MaskIs
<1>2. m \in [Fields -> Bare]
  BY DEF Linked, Held
<1> QED
  BY <1>1, <1>2 DEF Linked, LinkedIn, Bare

\* An element e is put behind the field at, by the macros of each kind.
LEMMA PutSingle ==
    ASSUME NEW L, Linked(L), NEW h \in Heads, NEW i \in 0..Len(L[h]), NEW e \in Elms, Fresh(L, e),
           kind = "SLIST", NEW at, at = FieldOf(L, h, i),
           m' = [m EXCEPT ![NextAt(e)] = m[at], ![at] = e]
    PROVE  Held(m') /\ Inserted(m, m', L, h, i, e)
<1>1. ~cookie /\ ~Tailed /\ ~Backed
  BY DEF Linked, Tailed, Backed
<1>2. /\ \A v : Mask(h, v) = v
      /\ m \in [Fields -> Bare] /\ Elms \cup Fields \cup {Null, Stale} \subseteq Bare
      /\ m[at] = ElmAt(L, h, i)
  BY <1>1, Plain
<1>3. at \in Fields /\ NextAt(e) \in Fields /\ at # NextAt(e)
  BY Apart DEF Linked
<1>4. m' \in [Fields -> Bare]
  BY <1>2, <1>3
<1>5. \A a \in Fields : m'[a] = IF a = at THEN e ELSE IF a = NextAt(e) THEN m[at] ELSE m[a]
  BY <1>2, <1>3
<1> QED
  BY <1>1, <1>2, <1>3, <1>4, <1>5 DEF Held, Inserted

LEMMA PutQueue ==
    ASSUME NEW L, Linked(L), NEW h \in Heads, NEW i \in 0..Len(L[h]), NEW e \in Elms, Fresh(L, e),
           kind \in {"SIMPLEQ", "XSIMPLEQ", "STAILQ"}, NEW at, at = FieldOf(L, h, i),
           m' = [m EXCEPT ![NextAt(e)] = m[at],
                          ![LastAt(h)] = IF m[at] = Mask(h, Null) THEN Mask(h, NextAt(e)) ELSE m[LastAt(h)],
                          ![at] = Mask(h, e)]
    PROVE  Held(m') /\ Inserted(m, m', L, h, i, e)
<1>1. Tailed /\ ~Backed
  BY DEF Linked, Tailed, Backed
<1>2. DOMAIN m = Fields /\ m[at] = Mask(h, ElmAt(L, h, i))
      /\ m[LastAt(h)] = Mask(h, FieldOf(L, h, Len(L[h])))
  BY <1>1 DEF Linked, Held, LinkedIn
<1>3. /\ at \in Fields /\ NextAt(e) \in Fields /\ LastAt(h) \in Fields
      /\ at # NextAt(e) /\ at # LastAt(h) /\ NextAt(e) # LastAt(h)
      /\ ElmAt(L, h, i) \in Elms \cup {Null}
      /\ i < Len(L[h]) <=> ElmAt(L, h, i) # Null
  BY Apart DEF Linked
<1>4. m[at] = Mask(h, Null) <=> i = Len(L[h])
  <2>1. m[at] = Mask(h, Null) <=> ElmAt(L, h, i) = Null
    BY <1>2, <1>3, MaskIs, Unmasked
  <2>2. ~(i < Len(L[h])) <=> i = Len(L[h])
    BY ListFields DEF Linked
  <2> QED
    BY <1>3, <2>1, <2>2
<1>5. PICK l : l = IF i = Len(L[h]) THEN Mask(h, NextAt(e)) ELSE m[LastAt(h)]
  OBVIOUS
<1>6. m' = [m EXCEPT ![NextAt(e)] = m[at], ![LastAt(h)] = l, ![at] = Mask(h, e)]
  BY <1>4, <1>5
<1>7. \A a \in Fields : m'[a] = IF a = at THEN Mask(h, e) ELSE IF a = LastAt(h) THEN l
                                ELSE IF a = NextAt(e) THEN m[at] ELSE m[a]
  BY <1>2, <1>3, <1>6
<1>8. Held(m')
  <2>1. DOMAIN m' = Fields
    BY <1>2, <1>6
  <2>2. ASSUME ~cookie PROVE m' \in [Fields -> Bare]
    <3>1. m \in [Fields -> Bare] /\ Elms \cup Fields \cup {Null, Stale} \subseteq Bare /\ \A v : Mask(h, v) = v
      BY <2>2, Plain
    <3>2. l \in Bare /\ m[at] \in Bare /\ Mask(h, e) \in Bare
      BY <1>3, <1>5, <3>1
    <3> QED
      BY <1>3, <1>6, <3>1, <3>2
  <2> QED
    BY <2>1, <2>2 DEF Held
<1>9. l = Mask(h, IF i = Len(L[h]) THEN NextAt(e) ELSE FieldOf(L, h, Len(L[h])))
  BY <1>2, <1>5
<1> QED
  BY <1>1, <1>2, <1>3, <1>7, <1>8, <1>9 DEF Inserted

LEMMA PutTail ==
    ASSUME NEW L, Linked(L), NEW h \in Heads, NEW e \in Elms, Fresh(L, e),
           kind \in {"SIMPLEQ", "XSIMPLEQ", "STAILQ"}, NEW at, at = FieldOf(L, h, Len(L[h])),
           m' = [m EXCEPT ![NextAt(e)] = Mask(h, Null), ![at] = Mask(h, e), ![LastAt(h)] = Mask(h, NextAt(e))]
    PROVE  Held(m') /\ Inserted(m, m', L, h, Len(L[h]), e)
<1>1. Tailed /\ ~Backed
  BY DEF Linked, Tailed, Backed
<1>2. DOMAIN m = Fields
  BY DEF Linked, Held
<1>3. Len(L[h]) \in 0..Len(L[h]) /\ ElmAt(L, h, Len(L[h])) = Null /\ ~(Len(L[h]) < Len(L[h]))
  BY ListFields DEF Linked
<1>4. /\ at \in Fields /\ NextAt(e) \in Fields /\ LastAt(h) \in Fields
      /\ at # NextAt(e) /\ at # LastAt(h) /\ NextAt(e) # LastAt(h)
  BY <1>3, Apart DEF Linked
<1>5. \A a \in Fields : m'[a] = IF a = LastAt(h) THEN Mask(h, NextAt(e)) ELSE IF a = at THEN Mask(h, e)
                                ELSE IF a = NextAt(e) THEN Mask(h, Null) ELSE m[a]
  BY <1>2, <1>4
<1>6. Held(m')
  <2>1. DOMAIN m' = Fields
    BY <1>2
  <2>2. ASSUME ~cookie PROVE m' \in [Fields -> Bare]
    <3>1. m \in [Fields -> Bare] /\ Elms \cup Fields \cup {Null, Stale} \subseteq Bare /\ \A v : Mask(h, v) = v
      BY <2>2, Plain
    <3> QED
      BY <1>4, <3>1
  <2> QED
    BY <2>1, <2>2 DEF Held
<1> QED
  BY <1>1, <1>3, <1>4, <1>5, <1>6 DEF Inserted

\* The same of lists that are linked in both directions: what m' is at every field.
PutBoth(L, h, i, e) ==
    LET at == FieldOf(L, h, i)
        n == ElmAt(L, h, i)
    IN  \A a \in Fields : m'[a] = IF a = at THEN e ELSE IF a = PrevAt(e) THEN at
                                  ELSE IF a = NextAt(e) THEN n
                                  ELSE IF n # Null /\ a = PrevAt(n) THEN NextAt(e)
                                  ELSE IF n = Null /\ kind = "TAILQ" /\ a = LastAt(h) THEN NextAt(e)
                                  ELSE m[a]

LEMMA PutBothIs ==
    ASSUME NEW L, Linked(L), NEW h \in Heads, NEW i \in 0..Len(L[h]), NEW e \in Elms, Fresh(L, e),
           kind \in {"LIST", "TAILQ"}, PutBoth(L, h, i, e)
    PROVE  Inserted(m, m', L, h, i, e)
<1> DEFINE at == FieldOf(L, h, i)
           n == ElmAt(L, h, i)
<1>1. ~cookie /\ Backed /\ (Tailed <=> kind = "TAILQ")
  BY DEF Linked, Tailed, Backed
<1>2. \A v : Mask(h, v) = v
  BY <1>1, Plain
<1>3. Tailed => m[LastAt(h)] = FieldOf(L, h, Len(L[h]))
  BY <1>1, Plain
<1>4. /\ at \in Fields /\ NextAt(e) \in Fields /\ PrevAt(e) \in Fields /\ LastAt(h) \in Fields
      /\ at # NextAt(e) /\ at # PrevAt(e) /\ at # LastAt(h)
      /\ NextAt(e) # PrevAt(e) /\ NextAt(e) # LastAt(h) /\ PrevAt(e) # LastAt(h)
      /\ i < Len(L[h]) <=> n # Null
      /\ n # Null => /\ PrevAt(n) \in Fields
                     /\ PrevAt(n) # at /\ PrevAt(n) # NextAt(e) /\ PrevAt(n) # PrevAt(e) /\ PrevAt(n) # LastAt(h)
  BY Apart DEF Linked
<1>5. i = Len(L[h]) <=> n = Null
  <2>1. ~(i < Len(L[h])) <=> i = Len(L[h])
    BY ListFields DEF Linked
  <2> QED
    BY <1>4, <2>1
<1>6. \A a \in Fields : m'[a] = IF a = at THEN e ELSE IF a = PrevAt(e) THEN at
                                ELSE IF a = NextAt(e) THEN n
                                ELSE IF n # Null /\ a = PrevAt(n) THEN NextAt(e)
                                ELSE IF n = Null /\ kind = "TAILQ" /\ a = LastAt(h) THEN NextAt(e)
                                ELSE m[a]
  BY DEF PutBoth
<1> HIDE DEF at, n
<1>7. m'[at] = Mask(h, e) /\ m'[NextAt(e)] = Mask(h, n)
  BY <1>2, <1>4, <1>6
<1>8. Tailed => m'[LastAt(h)] = Mask(h, IF i = Len(L[h]) THEN NextAt(e) ELSE FieldOf(L, h, Len(L[h])))
  BY <1>1, <1>2, <1>3, <1>4, <1>5, <1>6
<1>9. m'[PrevAt(e)] = at /\ (i < Len(L[h]) => m'[PrevAt(n)] = NextAt(e))
  BY <1>4, <1>6
<1>10. \A a \in Fields : /\ a \notin {at, NextAt(e), LastAt(h), PrevAt(e)}
                         /\ i < Len(L[h]) => a # PrevAt(n)
                         => m'[a] = m[a]
  BY <1>4, <1>6
<1> QED
  BY <1>7, <1>8, <1>9, <1>10 DEF Inserted, at, n

LEMMA PutBehind ==
    ASSUME NEW L, Linked(L), NEW h \in Heads, NEW i \in 0..Len(L[h]), NEW e \in Elms, Fresh(L, e),
           kind \in {"LIST", "TAILQ"}, NEW at, at = FieldOf(L, h, i), NEW n, n = m[at],
           m' = [(IF kind = "LIST" THEN Backlink([m EXCEPT ![NextAt(e)] = n], n, NextAt(e))
                  ELSE BacklinkOrLast([m EXCEPT ![NextAt(e)] = n], h, n, NextAt(e)))
                     EXCEPT ![at] = e, ![PrevAt(e)] = at]
    PROVE  Held(m') /\ Inserted(m, m', L, h, i, e)
<1>1. ~cookie
  BY DEF Linked
<1>2. m \in [Fields -> Bare] /\ Elms \cup Fields \cup {Null, Stale} \subseteq Bare /\ n = ElmAt(L, h, i)
  BY <1>1, Plain
<1>3. /\ at \in Fields /\ NextAt(e) \in Fields /\ PrevAt(e) \in Fields /\ LastAt(h) \in Fields
      /\ at # NextAt(e) /\ at # PrevAt(e) /\ at # LastAt(h)
      /\ NextAt(e) # PrevAt(e) /\ NextAt(e) # LastAt(h) /\ PrevAt(e) # LastAt(h)
      /\ n # Null => /\ PrevAt(n) \in Fields
                     /\ PrevAt(n) # at /\ PrevAt(n) # NextAt(e) /\ PrevAt(n) # PrevAt(e) /\ PrevAt(n) # LastAt(h)
  BY <1>2, Apart DEF Linked
<1>4. PICK m1 : m1 = [m EXCEPT ![NextAt(e)] = n]
  OBVIOUS
<1>5. m1 \in [Fields -> Bare] /\ \A a \in Fields : m1[a] = IF a = NextAt(e) THEN n ELSE m[a]
  BY <1>2, <1>3, <1>4
<1>6. PICK m2 : m2 = IF kind = "LIST" THEN Backlink(m1, n, NextAt(e)) ELSE BacklinkOrLast(m1, h, n, NextAt(e))
  OBVIOUS
<1>7. m2 \in [Fields -> Bare]
      /\ \A a \in Fields : m2[a] = IF n # Null /\ a = PrevAt(n) THEN NextAt(e)
                                   ELSE IF n = Null /\ kind = "TAILQ" /\ a = LastAt(h) THEN NextAt(e)
                                   ELSE m1[a]
  <2>1. CASE n # Null
    <3>1. m2 = [m1 EXCEPT ![PrevAt(n)] = NextAt(e)]
      BY <1>6, <2>1 DEF Backlink, BacklinkOrLast
    <3> QED
      BY <1>2, <1>3, <1>5, <2>1, <3>1
  <2>2. CASE n = Null /\ kind = "LIST"
    <3>1. m2 = m1
      BY <1>6, <2>2 DEF Backlink
    <3> QED
      BY <1>5, <2>2, <3>1
  <2>3. CASE n = Null /\ kind = "TAILQ"
    <3>1. m2 = [m1 EXCEPT ![LastAt(h)] = NextAt(e)]
      BY <1>6, <2>3 DEF BacklinkOrLast
    <3> QED
      BY <1>2, <1>3, <1>5, <2>3, <3>1
  <2> QED
    BY <2>1, <2>2, <2>3
<1>8. m' = [m2 EXCEPT ![at] = e, ![PrevAt(e)] = at]
  BY <1>4, <1>6
<1>9. m' \in [Fields -> Bare]
      /\ \A a \in Fields : m'[a] = IF a = at THEN e ELSE IF a = PrevAt(e) THEN at ELSE m2[a]
  <2>1. m2 \in [Fields -> Bare]
    BY <1>7
  <2>2. e \in Bare /\ at \in Bare /\ at # PrevAt(e) /\ at \in Fields /\ PrevAt(e) \in Fields
    BY <1>2, <1>3
  <2>3. PICK p : p = PrevAt(e)
    OBVIOUS
  <2>4. m' = [m2 EXCEPT ![at] = e, ![p] = at] /\ p # at /\ p \in Fields
    BY <1>8, <2>2, <2>3
  <2>5. m' \in [Fields -> Bare]
    BY <2>1, <2>2, <2>4
  <2>6. \A a \in Fields : m'[a] = IF a = at THEN e ELSE IF a = p THEN at ELSE m2[a]
    BY <2>1, <2>2, <2>4
  <2> QED
    BY <2>3, <2>5, <2>6
<1>10. PutBoth(L, h, i, e)
  BY <1>2, <1>3, <1>5, <1>7, <1>9 DEF PutBoth
<1> QED
  BY <1>9, <1>10, PutBothIs DEF Held

LEMMA PutBefore ==
    ASSUME NEW L, Linked(L), NEW h \in Heads, NEW i \in 0..Len(L[h]), NEW e \in Elms, Fresh(L, e),
           kind \in {"LIST", "TAILQ"}, NEW at, at = FieldOf(L, h, i), NEW n, n = ElmAt(L, h, i), n # Null,
           m' = [m EXCEPT ![PrevAt(e)] = at, ![NextAt(e)] = n, ![at] = e, ![PrevAt(n)] = NextAt(e)]
    PROVE  Held(m') /\ Inserted(m, m', L, h, i, e)
<1>1. ~cookie
  BY DEF Linked
<1>2. m \in [Fields -> Bare] /\ Elms \cup Fields \cup {Null, Stale} \subseteq Bare
  BY <1>1, Plain
<1>3. /\ at \in Fields /\ NextAt(e) \in Fields /\ PrevAt(e) \in Fields /\ n \in Elms
      /\ at # NextAt(e) /\ at # PrevAt(e) /\ NextAt(e) # PrevAt(e)
      /\ PrevAt(n) \in Fields /\ PrevAt(n) # at /\ PrevAt(n) # NextAt(e) /\ PrevAt(n) # PrevAt(e)
  BY Apart DEF Linked
<1>4. m' \in [Fields -> Bare]
  BY <1>2, <1>3
<1>5. \A a \in Fields : m'[a] = IF a = PrevAt(n) THEN NextAt(e) ELSE IF a = at THEN e
                                ELSE IF a = NextAt(e) THEN n ELSE IF a = PrevAt(e) THEN at ELSE m[a]
  BY <1>2, <1>3
<1>6. PutBoth(L, h, i, e)
  BY <1>3, <1>5 DEF PutBoth
<1> QED
  BY <1>4, <1>6, PutBothIs, <1>1 DEF Held

LEMMA PutLast ==
    ASSUME NEW L, Linked(L), NEW h \in Heads, NEW e \in Elms, Fresh(L, e),
           kind = "TAILQ", NEW at, at = FieldOf(L, h, Len(L[h])),
           m' = [m EXCEPT ![NextAt(e)] = Null, ![PrevAt(e)] = at, ![at] = e, ![LastAt(h)] = NextAt(e)]
    PROVE  Held(m') /\ Inserted(m, m', L, h, Len(L[h]), e)
<1>1. ~cookie
  BY DEF Linked
<1>2. m \in [Fields -> Bare] /\ Elms \cup Fields \cup {Null, Stale} \subseteq Bare
  BY <1>1, Plain
<1>3. Len(L[h]) \in 0..Len(L[h]) /\ ElmAt(L, h, Len(L[h])) = Null
  BY ListFields DEF Linked
<1>4. /\ at \in Fields /\ NextAt(e) \in Fields /\ PrevAt(e) \in Fields /\ LastAt(h) \in Fields
      /\ at # NextAt(e) /\ at # PrevAt(e) /\ NextAt(e) # PrevAt(e)
      /\ LastAt(h) # at /\ LastAt(h) # NextAt(e) /\ LastAt(h) # PrevAt(e)
  BY <1>3, Apart DEF Linked
<1>5. m' \in [Fields -> Bare]
  BY <1>2, <1>4
<1>6. \A a \in Fields : m'[a] = IF a = LastAt(h) THEN NextAt(e) ELSE IF a = at THEN e
                                ELSE IF a = PrevAt(e) THEN at ELSE IF a = NextAt(e) THEN Null ELSE m[a]
  BY <1>2, <1>4
<1>7. PutBoth(L, h, Len(L[h]), e)
  BY <1>3, <1>4, <1>6 DEF PutBoth
<1> QED
  BY <1>1, <1>3, <1>5, <1>7, PutBothIs DEF Held

\* The fields that a removal of the element after i others stores to.
LEMMA ApartTake ==
    ASSUME NEW L, AreLists(L), NEW h \in Heads, NEW i \in 0..Len(L[h]) - 1,
           NEW e, e = ElmAt(L, h, i), NEW n, n = ElmAt(L, h, i + 1), NEW at, at = FieldOf(L, h, i)
    PROVE  /\ e = L[h][i + 1] /\ e \in Elms /\ i \in 0..Len(L[h]) /\ i + 1 \in 0..Len(L[h])
           /\ i + 1 \in 1..Len(L[h]) /\ NextAt(e) = FieldOf(L, h, i + 1)
           /\ at \in Fields /\ NextAt(e) \in Fields /\ PrevAt(e) \in Fields /\ LastAt(h) \in Fields
           /\ at # NextAt(e) /\ at # PrevAt(e) /\ at # LastAt(h)
           /\ NextAt(e) # PrevAt(e) /\ NextAt(e) # LastAt(h) /\ PrevAt(e) # LastAt(h)
           /\ n \in Elms \cup {Null}
           /\ i + 1 < Len(L[h]) <=> n # Null
           /\ i + 1 = Len(L[h]) <=> n = Null
           /\ n # Null =>
                 /\ n # e /\ n = L[h][i + 2] /\ i + 2 \in 1..Len(L[h]) /\ PrevAt(n) \in Fields
                 /\ PrevAt(n) # at /\ PrevAt(n) # NextAt(e) /\ PrevAt(n) # PrevAt(e) /\ PrevAt(n) # LastAt(h)
<1>1. PICK k : k = Len(L[h]) /\ k \in Nat /\ i \in 0..k - 1
  BY ListFields
<1>2. i \in 0..k /\ i + 1 \in 0..k /\ i + 1 \in 1..k /\ i + 1 # i /\ i + 1 # 0 /\ i + 2 # i + 1 /\ i + 1 + 1 = i + 2
      /\ (i + 1 < k => i + 1 \in 0..k - 1 /\ i + 2 \in 1..k)
      /\ (i + 1 < k \/ i + 1 = k) /\ ~(i + 1 < k /\ i + 1 = k)
  BY <1>1
<1>3. e = L[h][i + 1] /\ e \in Elms /\ Null \notin Elms
  BY <1>1, ListFields
<1>4. NextAt(e) = FieldOf(L, h, i + 1)
  BY <1>2, <1>3 DEF FieldOf
<1>5. at \in Fields /\ NextAt(e) \in Fields /\ PrevAt(e) \in Fields /\ LastAt(h) \in Fields
  BY <1>1, <1>2, <1>3, ListFields, InFields
<1>6. at # NextAt(e)
  BY <1>1, <1>2, <1>4, FieldsDiffer
<1>7. at # PrevAt(e) /\ at # LastAt(h)
  BY <1>1, <1>2, FieldsDiffer
<1>8. NextAt(e) # PrevAt(e) /\ NextAt(e) # LastAt(h) /\ PrevAt(e) # LastAt(h)
  BY Addresses
<1>9. CASE i + 1 < k
  <2>1. n = L[h][i + 2] /\ n \in Elms
    <3>1. n = L[h][i + 1 + 1] /\ n \in Elms
      BY <1>1, <1>2, <1>9, ListFields
    <3> QED
      BY <1>2, <3>1
  <2>2. n # e
    BY <1>1, <1>2, <1>3, <1>9, <2>1 DEF AreLists, Once
  <2>3. PrevAt(n) \in Fields /\ PrevAt(n) # NextAt(e) /\ PrevAt(n) # PrevAt(e) /\ PrevAt(n) # LastAt(h)
    BY <2>1, <2>2, InFields, Addresses
  <2>4. PrevAt(n) # at
    BY <1>1, <1>2, FieldsDiffer
  <2>5. n # Null
    BY <1>3, <2>1
  <2> QED
    BY <1>1, <1>2, <1>3, <1>4, <1>5, <1>6, <1>7, <1>8, <1>9, <2>1, <2>2, <2>3, <2>4, <2>5
<1>10. CASE i + 1 = k
  <2>1. n = Null
    BY <1>1, <1>10, ListFields
  <2> QED
    BY <1>1, <1>2, <1>3, <1>4, <1>5, <1>6, <1>7, <1>8, <1>10, <2>1
<1> QED
  BY <1>2, <1>9, <1>10

\* An element is taken away from behind a field: what mem1 is at every field, before the macro
\* forgets the element.
CutAt(L, h, i, mem1) ==
    LET at == FieldOf(L, h, i)
        n == ElmAt(L, h, i + 1)
    IN  \A a \in Fields : mem1[a] = IF a = at THEN n
                                    ELSE IF Tailed /\ n = Null /\ a = LastAt(h) THEN at
                                    ELSE IF Backed /\ n # Null /\ a = PrevAt(n) THEN at
                                    ELSE m[a]

LEMMA CutIs ==
    ASSUME NEW L, Linked(L), ~cookie, NEW h \in Heads, NEW i \in 0..Len(L[h]) - 1,
           NEW mem1 \in [Fields -> Bare], CutAt(L, h, i, mem1), m' = Forget(mem1, ElmAt(L, h, i))
    PROVE  Held(m') /\ Removed(m, m', L, h, i)
<1> DEFINE e == ElmAt(L, h, i)
           n == ElmAt(L, h, i + 1)
           at == FieldOf(L, h, i)
<1>1. /\ at \in Fields /\ NextAt(e) \in Fields /\ PrevAt(e) \in Fields /\ LastAt(h) \in Fields
      /\ at # NextAt(e) /\ at # PrevAt(e) /\ at # LastAt(h)
      /\ NextAt(e) # PrevAt(e) /\ NextAt(e) # LastAt(h) /\ PrevAt(e) # LastAt(h)
      /\ i + 1 < Len(L[h]) <=> n # Null
      /\ i + 1 = Len(L[h]) <=> n = Null
      /\ n # Null =>
            /\ PrevAt(n) \in Fields
            /\ PrevAt(n) # at /\ PrevAt(n) # NextAt(e) /\ PrevAt(n) # PrevAt(e) /\ PrevAt(n) # LastAt(h)
  BY ApartTake DEF Linked
<1>2. /\ \A v : Mask(h, v) = v
      /\ Stale \in Bare
      /\ Tailed => m[LastAt(h)] = FieldOf(L, h, Len(L[h]))
  BY Plain
<1>3. m' = [mem1 EXCEPT ![NextAt(e)] = Stale, ![PrevAt(e)] = Stale]
  BY DEF Forget
<1>4. \A a \in Fields : mem1[a] = IF a = at THEN n
                                  ELSE IF Tailed /\ n = Null /\ a = LastAt(h) THEN at
                                  ELSE IF Backed /\ n # Null /\ a = PrevAt(n) THEN at
                                  ELSE m[a]
  BY DEF CutAt
<1> HIDE DEF e, n, at
<1>5. m' \in [Fields -> Bare]
  BY <1>1, <1>2, <1>3
<1>6. \A a \in Fields : a # NextAt(e) /\ a # PrevAt(e) => m'[a] = mem1[a]
  BY <1>1, <1>3
<1>7. m'[at] = n
  BY <1>1, <1>4, <1>6
<1>8. Tailed => m'[LastAt(h)] = FieldOf(L, h, IF i + 1 = Len(L[h]) THEN i ELSE Len(L[h]))
  <2>1. SUFFICES ASSUME Tailed PROVE m'[LastAt(h)] = FieldOf(L, h, IF i + 1 = Len(L[h]) THEN i ELSE Len(L[h]))
    OBVIOUS
  <2>2. m'[LastAt(h)] = mem1[LastAt(h)]
    BY <1>1, <1>6
  <2>3. CASE n = Null
    BY <1>1, <1>4, <2>1, <2>2, <2>3 DEF at
  <2>4. CASE n # Null
    BY <1>1, <1>2, <1>4, <2>1, <2>2, <2>4
  <2> QED
    BY <2>3, <2>4
<1>9. Backed => (i + 1 < Len(L[h]) => m'[PrevAt(n)] = at)
  BY <1>1, <1>4, <1>6
<1>10. \A a \in Fields : /\ a \notin {at, LastAt(h)} /\ a \notin {NextAt(e), PrevAt(e)}
                         /\ i + 1 < Len(L[h]) => a # PrevAt(n)
                         => m'[a] = m[a]
  BY <1>1, <1>4, <1>6
<1> QED
  BY <1>2, <1>5, <1>7, <1>8, <1>9, <1>10 DEF Held, Removed, e, n, at

LEMMA CutSingle ==
    ASSUME NEW L, Linked(L), NEW h \in Heads, NEW i \in 0..Len(L[h]) - 1, kind = "SLIST",
           NEW e, e = ElmAt(L, h, i), m' = Forget([m EXCEPT ![FieldOf(L, h, i)] = m[NextAt(e)]], e)
    PROVE  Held(m') /\ Removed(m, m', L, h, i)
<1>1. ~cookie /\ ~Tailed /\ ~Backed
  BY DEF Linked, Tailed, Backed
<1>2. PICK at : at = FieldOf(L, h, i)
  OBVIOUS
<1>3. /\ at \in Fields /\ NextAt(e) = FieldOf(L, h, i + 1) /\ i + 1 \in 0..Len(L[h])
      /\ ElmAt(L, h, i + 1) \in Elms \cup {Null}
  BY <1>2, ApartTake DEF Linked
<1>4. m \in [Fields -> Bare] /\ Elms \cup Fields \cup {Null, Stale} \subseteq Bare
      /\ m[NextAt(e)] = ElmAt(L, h, i + 1)
  BY <1>1, <1>3, Plain
<1>5. PICK mem1 : mem1 = [m EXCEPT ![at] = ElmAt(L, h, i + 1)]
  OBVIOUS
<1>6. mem1 \in [Fields -> Bare] /\ \A a \in Fields : mem1[a] = IF a = at THEN ElmAt(L, h, i + 1) ELSE m[a]
  BY <1>3, <1>4, <1>5
<1>7. CutAt(L, h, i, mem1)
  BY <1>1, <1>2, <1>6 DEF CutAt
<1>8. m' = Forget(mem1, e)
  BY <1>2, <1>4, <1>5
<1> QED
  BY <1>1, <1>6, <1>7, <1>8, CutIs

LEMMA CutQueue ==
    ASSUME NEW L, Linked(L), ~cookie, NEW h \in Heads, NEW i \in 0..Len(L[h]) - 1,
           kind \in {"SIMPLEQ", "XSIMPLEQ", "STAILQ"},
           NEW e, e = ElmAt(L, h, i), NEW at, at = FieldOf(L, h, i),
           m' = Forget([m EXCEPT ![at] = m[NextAt(e)],
                                 ![LastAt(h)] = IF m[NextAt(e)] = Null THEN at ELSE m[LastAt(h)]], e)
    PROVE  Held(m') /\ Removed(m, m', L, h, i)
<1>1. Tailed /\ ~Backed
  BY DEF Linked, Tailed, Backed
<1>2. PICK n : n = ElmAt(L, h, i + 1)
  OBVIOUS
<1>3. /\ at \in Fields /\ LastAt(h) \in Fields /\ at # LastAt(h)
      /\ NextAt(e) = FieldOf(L, h, i + 1) /\ i + 1 \in 0..Len(L[h])
      /\ n \in Elms \cup {Null}
  BY <1>2, ApartTake DEF Linked
<1>4. m \in [Fields -> Bare] /\ Elms \cup Fields \cup {Null, Stale} \subseteq Bare
      /\ m[NextAt(e)] = n
  BY <1>1, <1>2, <1>3, Plain
<1>5. PICK l : l = IF n = Null THEN at ELSE m[LastAt(h)]
  OBVIOUS
<1>6. PICK mem1 : mem1 = [m EXCEPT ![at] = n, ![LastAt(h)] = l]
  OBVIOUS
<1>7. l \in Bare /\ n \in Bare
  BY <1>3, <1>4, <1>5
<1>8. mem1 \in [Fields -> Bare]
      /\ \A a \in Fields : mem1[a] = IF a = at THEN n ELSE IF a = LastAt(h) THEN l ELSE m[a]
  BY <1>3, <1>4, <1>6, <1>7
<1>9. CutAt(L, h, i, mem1)
  BY <1>1, <1>2, <1>3, <1>5, <1>8 DEF CutAt
<1>10. m' = Forget(mem1, e)
  BY <1>4, <1>5, <1>6
<1> QED
  BY <1>8, <1>9, <1>10, CutIs

LEMMA CutBoth ==
    ASSUME NEW L, Linked(L), NEW h \in Heads, NEW i \in 0..Len(L[h]) - 1, kind \in {"LIST", "TAILQ"},
           NEW e, e = ElmAt(L, h, i), NEW n, n = m[NextAt(e)], NEW at, at = m[PrevAt(e)],
           m' = Forget([(IF kind = "LIST" THEN Backlink(m, n, at) ELSE BacklinkOrLast(m, h, n, at))
                            EXCEPT ![at] = n], e)
    PROVE  Held(m') /\ Removed(m, m', L, h, i)
<1>1. ~cookie /\ Backed /\ (Tailed <=> kind = "TAILQ")
  BY DEF Linked, Tailed, Backed
<1>2. /\ e = L[h][i + 1] /\ i + 1 \in 1..Len(L[h]) /\ (i + 1) - 1 = i
      /\ NextAt(e) = FieldOf(L, h, i + 1) /\ i + 1 \in 0..Len(L[h])
  BY ApartTake DEF Linked
<1>3. /\ m \in [Fields -> Bare] /\ Elms \cup Fields \cup {Null, Stale} \subseteq Bare
      /\ n = ElmAt(L, h, i + 1) /\ at = FieldOf(L, h, i)
  BY <1>1, <1>2, Plain
<1>4. /\ at \in Fields /\ LastAt(h) \in Fields /\ at # LastAt(h) /\ n \in Elms \cup {Null}
      /\ n # Null => PrevAt(n) \in Fields /\ PrevAt(n) # at /\ PrevAt(n) # LastAt(h)
  BY <1>3, ApartTake DEF Linked
<1>5. PICK m1 : m1 = IF kind = "LIST" THEN Backlink(m, n, at) ELSE BacklinkOrLast(m, h, n, at)
  OBVIOUS
<1>6. m1 \in [Fields -> Bare]
      /\ \A a \in Fields : m1[a] = IF Tailed /\ n = Null /\ a = LastAt(h) THEN at
                                   ELSE IF n # Null /\ a = PrevAt(n) THEN at
                                   ELSE m[a]
  <2>1. CASE n # Null
    <3>1. m1 = [m EXCEPT ![PrevAt(n)] = at]
      BY <1>5, <2>1 DEF Backlink, BacklinkOrLast
    <3> QED
      BY <1>3, <1>4, <2>1, <3>1
  <2>2. CASE n = Null /\ kind = "LIST"
    <3>1. m1 = m
      BY <1>5, <2>2 DEF Backlink
    <3> QED
      BY <1>1, <1>3, <2>2, <3>1
  <2>3. CASE n = Null /\ kind = "TAILQ"
    <3>1. m1 = [m EXCEPT ![LastAt(h)] = at]
      BY <1>5, <2>3 DEF BacklinkOrLast
    <3> QED
      BY <1>1, <1>3, <1>4, <2>3, <3>1
  <2> QED
    BY <2>1, <2>2, <2>3
<1>7. PICK mem1 : mem1 = [m1 EXCEPT ![at] = n]
  OBVIOUS
<1>8. mem1 \in [Fields -> Bare] /\ \A a \in Fields : mem1[a] = IF a = at THEN n ELSE m1[a]
  BY <1>3, <1>4, <1>6, <1>7
<1>9. CutAt(L, h, i, mem1)
  BY <1>1, <1>3, <1>6, <1>8 DEF CutAt
<1>10. m' = Forget(mem1, e)
  BY <1>5, <1>7
<1> QED
  BY <1>1, <1>8, <1>9, <1>10, CutIs

LEMMA SwapBoth ==
    ASSUME NEW L, Linked(L), NEW h \in Heads, NEW i \in 0..Len(L[h]) - 1, kind \in {"LIST", "TAILQ"},
           NEW f \in Elms, Fresh(L, f),
           NEW e, e = ElmAt(L, h, i), NEW n, n = m[NextAt(e)], NEW at, at = m[PrevAt(e)],
           m' = Forget([(IF kind = "LIST" THEN Backlink([m EXCEPT ![NextAt(f)] = n], n, NextAt(f))
                         ELSE BacklinkOrLast([m EXCEPT ![NextAt(f)] = n], h, n, NextAt(f)))
                            EXCEPT ![PrevAt(f)] = at, ![at] = f], e)
    PROVE  Held(m') /\ Replaced(m, m', L, h, i, f)
<1>1. ~cookie /\ Backed /\ (Tailed <=> kind = "TAILQ")
  BY DEF Linked, Tailed, Backed
<1>2. /\ e = L[h][i + 1] /\ i + 1 \in 1..Len(L[h]) /\ (i + 1) - 1 = i
      /\ NextAt(e) = FieldOf(L, h, i + 1) /\ i + 1 \in 0..Len(L[h]) /\ i \in 0..Len(L[h])
  BY ApartTake DEF Linked
<1>3. /\ m \in [Fields -> Bare] /\ Elms \cup Fields \cup {Null, Stale} \subseteq Bare
      /\ n = ElmAt(L, h, i + 1) /\ at = FieldOf(L, h, i) /\ \A v : Mask(h, v) = v
      /\ Tailed => m[LastAt(h)] = FieldOf(L, h, Len(L[h]))
  BY <1>1, <1>2, Plain
<1>4. /\ at \in Fields /\ NextAt(e) \in Fields /\ PrevAt(e) \in Fields /\ LastAt(h) \in Fields
      /\ at # NextAt(e) /\ at # PrevAt(e) /\ at # LastAt(h) /\ n \in Elms \cup {Null}
      /\ NextAt(e) # PrevAt(e) /\ NextAt(e) # LastAt(h) /\ PrevAt(e) # LastAt(h)
      /\ i + 1 < Len(L[h]) <=> n # Null
      /\ i + 1 = Len(L[h]) <=> n = Null
      /\ n # Null =>
            /\ PrevAt(n) \in Fields /\ n = L[h][i + 2] /\ i + 2 \in 1..Len(L[h])
            /\ PrevAt(n) # at /\ PrevAt(n) # NextAt(e) /\ PrevAt(n) # PrevAt(e) /\ PrevAt(n) # LastAt(h)
  BY <1>3, ApartTake DEF Linked
<1>5. /\ NextAt(f) \in Fields /\ PrevAt(f) \in Fields
      /\ at # NextAt(f) /\ at # PrevAt(f)
      /\ NextAt(f) # PrevAt(f) /\ NextAt(f) # LastAt(h) /\ PrevAt(f) # LastAt(h)
  BY <1>2, <1>3, Apart DEF Linked
<1>6. /\ NextAt(f) # NextAt(e) /\ NextAt(f) # PrevAt(e) /\ PrevAt(f) # NextAt(e) /\ PrevAt(f) # PrevAt(e)
      /\ n # Null => PrevAt(n) # PrevAt(f) /\ PrevAt(n) # NextAt(f)
  <2>1. e # f /\ (n # Null => n # f)
    BY <1>2, <1>4 DEF Fresh
  <2> QED
    BY <2>1, Addresses
<1>7. PICK m0 : m0 = [m EXCEPT ![NextAt(f)] = n]
  OBVIOUS
<1>8. m0 \in [Fields -> Bare] /\ \A a \in Fields : m0[a] = IF a = NextAt(f) THEN n ELSE m[a]
  BY <1>3, <1>4, <1>5, <1>7
<1>9. PICK m1 : m1 = IF kind = "LIST" THEN Backlink(m0, n, NextAt(f)) ELSE BacklinkOrLast(m0, h, n, NextAt(f))
  OBVIOUS
<1>10. m1 \in [Fields -> Bare]
       /\ \A a \in Fields : m1[a] = IF Tailed /\ n = Null /\ a = LastAt(h) THEN NextAt(f)
                                    ELSE IF n # Null /\ a = PrevAt(n) THEN NextAt(f)
                                    ELSE m0[a]
  <2>1. CASE n # Null
    <3>1. m1 = [m0 EXCEPT ![PrevAt(n)] = NextAt(f)]
      BY <1>9, <2>1 DEF Backlink, BacklinkOrLast
    <3> QED
      BY <1>3, <1>4, <1>5, <1>8, <2>1, <3>1
  <2>2. CASE n = Null /\ kind = "LIST"
    <3>1. m1 = m0
      BY <1>9, <2>2 DEF Backlink
    <3> QED
      BY <1>1, <1>8, <2>2, <3>1
  <2>3. CASE n = Null /\ kind = "TAILQ"
    <3>1. m1 = [m0 EXCEPT ![LastAt(h)] = NextAt(f)]
      BY <1>9, <2>3 DEF BacklinkOrLast
    <3> QED
      BY <1>1, <1>3, <1>4, <1>5, <1>8, <2>3, <3>1
  <2> QED
    BY <2>1, <2>2, <2>3
<1>11. PICK m2 : m2 = [m1 EXCEPT ![PrevAt(f)] = at, ![at] = f]
  OBVIOUS
<1>12. m2 \in [Fields -> Bare]
       /\ \A a \in Fields : m2[a] = IF a = at THEN f ELSE IF a = PrevAt(f) THEN at ELSE m1[a]
  BY <1>3, <1>4, <1>5, <1>10, <1>11
<1>13. m' = [m2 EXCEPT ![NextAt(e)] = Stale, ![PrevAt(e)] = Stale]
  BY <1>7, <1>9, <1>11 DEF Forget
<1>14. m' \in [Fields -> Bare] /\ \A a \in Fields : a # NextAt(e) /\ a # PrevAt(e) => m'[a] = m2[a]
  BY <1>3, <1>4, <1>12, <1>13
<1>15. m'[at] = f /\ m'[PrevAt(f)] = at
  BY <1>4, <1>5, <1>6, <1>12, <1>14
<1>kept. ASSUME NEW a \in Fields, a # NextAt(e), a # PrevAt(e), a # at, a # PrevAt(f) PROVE m'[a] = m1[a]
  BY <1>12, <1>14, <1>kept
<1>16. m'[NextAt(f)] = n
  <2>1. m'[NextAt(f)] = m1[NextAt(f)]
    BY <1>5, <1>6, <1>kept
  <2>2. m1[NextAt(f)] = m0[NextAt(f)]
    BY <1>5, <1>6, <1>10
  <2> QED
    BY <1>5, <1>8, <2>1, <2>2
<1>17. Tailed => m'[LastAt(h)] = IF i + 1 = Len(L[h]) THEN NextAt(f) ELSE FieldOf(L, h, Len(L[h]))
  <2>1. m'[LastAt(h)] = m1[LastAt(h)]
    BY <1>4, <1>5, <1>kept
  <2>2. m0[LastAt(h)] = m[LastAt(h)]
    BY <1>4, <1>5, <1>8
  <2>3. Tailed => m1[LastAt(h)] = IF n = Null THEN NextAt(f) ELSE m0[LastAt(h)]
    BY <1>4, <1>10
  <2> QED
    BY <1>3, <1>4, <2>1, <2>2, <2>3
<1>18. i + 1 < Len(L[h]) => m'[PrevAt(n)] = NextAt(f)
  <2>1. SUFFICES ASSUME n # Null PROVE m'[PrevAt(n)] = NextAt(f)
    BY <1>4
  <2>2. m'[PrevAt(n)] = m1[PrevAt(n)]
    BY <1>4, <1>6, <1>kept, <2>1
  <2>3. PrevAt(n) \in Fields /\ PrevAt(n) # LastAt(h)
    BY <1>4, <2>1
  <2> QED
    BY <1>10, <2>1, <2>2, <2>3
<1>19. ASSUME NEW a \in Fields, a \notin {at, NextAt(f), LastAt(h), PrevAt(f)}, a \notin {NextAt(e), PrevAt(e)},
              i + 1 < Len(L[h]) => a # PrevAt(n)
       PROVE  m'[a] = m[a]
  <2>1. m'[a] = m1[a] /\ m0[a] = m[a]
    BY <1>8, <1>12, <1>14, <1>19
  <2>2. m1[a] = m0[a]
    BY <1>4, <1>10, <1>19
  <2> QED
    BY <2>1, <2>2
<1> QED
  BY <1>3, <1>14, <1>15, <1>16, <1>17, <1>18, <1>19 DEF Held, Replaced

LEMMA JoinBoth ==
    ASSUME NEW L, Linked(L), NEW g \in Heads, NEW h \in Heads, g # h, L[h] # <<>>,
           kind \in {"SIMPLEQ", "STAILQ", "TAILQ"}, NEW to, to = m[LastAt(g)],
           NEW first, first = m[FirstAt(h)],
           NEW m0, m0 = [m EXCEPT ![to] = first],
           NEW m1, m1 = IF kind = "TAILQ" THEN [m0 EXCEPT ![PrevAt(first)] = to] ELSE m0,
           m' = [m1 EXCEPT ![LastAt(g)] = m[LastAt(h)], ![FirstAt(h)] = Null, ![LastAt(h)] = FirstAt(h)]
    PROVE  Held(m') /\ Joined(m, m', L, g, h)
<1>1. ~cookie /\ Tailed /\ (Backed <=> kind = "TAILQ")
  BY DEF Linked, Tailed, Backed
<1>2. 0 \in 0..Len(L[h]) /\ Len(L[h]) \in Nat /\ Len(L[g]) \in 0..Len(L[g]) /\ L[h] \in Seq(Elms)
      /\ FieldOf(L, h, 0) = FirstAt(h)
  BY ListFields DEF Linked, FieldOf
<1>3. /\ m \in [Fields -> Bare] /\ Elms \cup Fields \cup {Null, Stale} \subseteq Bare
      /\ first = ElmAt(L, h, 0) /\ to = FieldOf(L, g, Len(L[g])) /\ m[LastAt(h)] = FieldOf(L, h, Len(L[h]))
  <2>1. m \in [Fields -> Bare] /\ Elms \cup Fields \cup {Null, Stale} \subseteq Bare
    BY <1>1, Plain
  <2>2. first = ElmAt(L, h, 0) /\ m[LastAt(h)] = FieldOf(L, h, Len(L[h]))
    BY <1>1, <1>2, Plain
  <2>3. to = FieldOf(L, g, Len(L[g]))
    BY <1>1, Plain
  <2> QED
    BY <2>1, <2>2, <2>3
<1>4. first \in Elms
  <2>1. Len(L[h]) # 0
    BY <1>2, EmptySeq
  <2>2. 0 \in 0..Len(L[h]) - 1
    BY <1>2, <2>1
  <2> QED
    BY <1>3, <2>2, ListFields DEF Linked
<1>5. /\ to \in Fields /\ to # FirstAt(h) /\ to # LastAt(h) /\ to # LastAt(g) /\ to # PrevAt(first)
  <2>1. to \in Fields
    BY <1>2, <1>3, ListFields DEF Linked
  <2>2. to # FirstAt(h)
    BY <1>2, <1>3, FieldsDiffer DEF Linked
  <2> QED
    BY <1>3, <2>1, <2>2, Addresses DEF FieldOf
<1>6. /\ FirstAt(h) \in Fields /\ LastAt(h) \in Fields /\ LastAt(g) \in Fields /\ PrevAt(first) \in Fields
      /\ LastAt(g) # LastAt(h) /\ LastAt(g) # FirstAt(h) /\ LastAt(h) # FirstAt(h)
      /\ PrevAt(first) # FirstAt(h) /\ PrevAt(first) # LastAt(h) /\ PrevAt(first) # LastAt(g)
  BY <1>4, InFields, Addresses
<1>7. m0 \in [Fields -> Bare] /\ \A a \in Fields : m0[a] = IF a = to THEN first ELSE m[a]
  BY <1>3, <1>4, <1>5
<1>8. m1 \in [Fields -> Bare]
      /\ \A a \in Fields : m1[a] = IF Backed /\ a = PrevAt(first) THEN to ELSE m0[a]
  <2>1. CASE kind = "TAILQ"
    <3>1. m1 = [m0 EXCEPT ![PrevAt(first)] = to]
      BY <2>1
    <3> QED
      BY <1>1, <1>3, <1>5, <1>6, <1>7, <2>1, <3>1
  <2>2. CASE kind # "TAILQ"
    <3>1. m1 = m0
      BY <2>2
    <3> QED
      BY <1>1, <1>7, <2>2, <3>1
  <2> QED
    BY <2>1, <2>2
<1>9. PICK l : l = m[LastAt(h)] /\ l \in Bare
  BY <1>3, <1>6
<1>10. m' = [m1 EXCEPT ![LastAt(g)] = l, ![FirstAt(h)] = Null, ![LastAt(h)] = FirstAt(h)]
  BY <1>9
<1>11. m' \in [Fields -> Bare]
       /\ \A a \in Fields : m'[a] = IF a = LastAt(h) THEN FirstAt(h) ELSE IF a = FirstAt(h) THEN Null
                                    ELSE IF a = LastAt(g) THEN l ELSE m1[a]
  BY <1>3, <1>6, <1>8, <1>9, <1>10
<1>12. m'[to] = first /\ m'[LastAt(g)] = l /\ m'[FirstAt(h)] = Null /\ m'[LastAt(h)] = FirstAt(h)
  <2>1. m'[to] = m1[to] /\ m1[to] = m0[to] /\ m0[to] = first
    BY <1>5, <1>7, <1>8, <1>11
  <2> QED
    BY <1>6, <1>11, <2>1
<1>13. Backed => m'[PrevAt(first)] = to
  BY <1>6, <1>8, <1>11
<1>14. ASSUME NEW a \in Fields, a \notin {to, LastAt(g), FirstAt(h), LastAt(h), PrevAt(first)} PROVE m'[a] = m[a]
  BY <1>7, <1>8, <1>11, <1>14
<1> QED
  BY <1>3, <1>9, <1>11, <1>12, <1>13, <1>14 DEF Held, Joined

----------------------------------------------------------------------------
(* What the operations do to the lists.                                    *)

\* Memory represents the lists M after a step.
LinkedNext(M) == Held(m') /\ AreLists(M) /\ LinkedIn(m', M)

\* The elements of a list, and those of none, as the caller sees them.
LEMMA WithinIs ==
    ASSUME NEW L, Linked(L), NEW h \in Heads
    PROVE  \A e : e \in Within(h) <=> \E i \in 1..Len(L[h]) : L[h][i] = e
<1>1. Walk(h) = L[h]
  BY WalkIs DEF Linked
<1>2. DOMAIN L[h] = 1..Len(L[h])
  <2>1. L[h] \in Seq(Elms)
    BY ListFields DEF Linked
  <2> QED
    BY <2>1, LenProperties
<1> QED
  BY <1>1, <1>2 DEF Within, Range

LEMMA FreeIs == ASSUME NEW L, Linked(L), NEW e \in Elms PROVE e \in Free <=> Fresh(L, e)
<1>1. e \in Free <=> \A h \in Heads : e \notin Within(h)
  BY DEF Free
<1>2. \A h \in Heads : e \in Within(h) <=> \E i \in 1..Len(L[h]) : L[h][i] = e
  BY WithinIs
<1> QED
  BY <1>1, <1>2 DEF Fresh

LEMMA PutLinks ==
    ASSUME NEW L, Linked(L), NEW h \in Heads, NEW i \in 0..Len(L[h]), NEW e \in Elms, Fresh(L, e),
           Held(m'), Inserted(m, m', L, h, i, e)
    PROVE  LinkedNext(Put(L, h, i, e))
<1>1. AreLists(L) /\ LinkedIn(m, L)
  BY DEF Linked
<1>2. AreLists(Put(L, h, i, e))
  BY <1>1, PutIs
<1>3. LinkedIn(m', Put(L, h, i, e))
  BY <1>1, InsertedLinked
<1> QED
  BY <1>2, <1>3 DEF LinkedNext

\* *_INSERT_HEAD and *_INSERT_AFTER store alike: e comes after i elements.
LEMMA InsertHeadDoes ==
    ASSUME NEW L, Linked(L), NEW h \in Heads, NEW e \in Elms, InsertHead(h, e)
    PROVE  Fresh(L, e) /\ LinkedNext(Put(L, h, 0, e))
<1>1. Fresh(L, e)
  BY FreeIs DEF InsertHead
<1>2. 0 \in 0..Len(L[h]) /\ FieldOf(L, h, 0) = FirstAt(h)
  BY ListFields DEF Linked, FieldOf
<1>3. Held(m') /\ Inserted(m, m', L, h, 0, e)
  <2>1. CASE kind = "SLIST"
    <3>1. SInsertHead(h, e)
      BY <2>1 DEF InsertHead
    <3> QED
      BY <1>1, <1>2, <2>1, <3>1, PutSingle DEF SInsertHead
  <2>2. CASE kind = "LIST"
    <3>1. LInsertHead(h, e)
      BY <2>2 DEF InsertHead
    <3> QED
      BY <1>1, <1>2, <2>2, <3>1, PutBehind DEF LInsertHead
  <2>3. CASE kind = "TAILQ"
    <3>1. TInsertHead(h, e)
      BY <2>3 DEF InsertHead
    <3> QED
      BY <1>1, <1>2, <2>3, <3>1, PutBehind DEF TInsertHead
  <2>4. CASE kind \in {"SIMPLEQ", "STAILQ"}
    <3>1. QInsertHead(h, e)
      BY <2>4 DEF InsertHead, TailInsertHead
    <3>2. \A v : Mask(h, v) = v
      BY <2>4, MaskIs
    <3>3. Mask(h, Null) = Null /\ Mask(h, NextAt(e)) = NextAt(e) /\ Mask(h, e) = e
      BY <3>2
    <3>4. m' = [m EXCEPT ![NextAt(e)] = m[FirstAt(h)],
                         ![LastAt(h)] = IF m[FirstAt(h)] = Mask(h, Null) THEN Mask(h, NextAt(e)) ELSE m[LastAt(h)],
                         ![FirstAt(h)] = Mask(h, e)]
      BY <3>1, <3>3 DEF QInsertHead
    <3> QED
      BY <1>1, <1>2, <2>4, <3>4, PutQueue
  <2>5. CASE kind = "XSIMPLEQ"
    <3>1. XInsertHead(h, e)
      BY <2>5 DEF InsertHead
    <3>2. \A v : Mask(h, v) = Xor(h, v)
      BY <2>5, MaskIs
    <3>3. Mask(h, Null) = Xor(h, Null) /\ Mask(h, NextAt(e)) = Xor(h, NextAt(e)) /\ Mask(h, e) = Xor(h, e)
      BY <3>2
    <3>4. m' = [m EXCEPT ![NextAt(e)] = m[FirstAt(h)],
                         ![LastAt(h)] = IF m[FirstAt(h)] = Mask(h, Null) THEN Mask(h, NextAt(e)) ELSE m[LastAt(h)],
                         ![FirstAt(h)] = Mask(h, e)]
      BY <3>1, <3>3 DEF XInsertHead
    <3> QED
      BY <1>1, <1>2, <2>5, <3>4, PutQueue
  <2> QED
    BY <2>1, <2>2, <2>3, <2>4, <2>5 DEF Linked, Kinds
<1> QED
  BY <1>1, <1>2, <1>3, PutLinks

LEMMA InsertAfterDoes ==
    ASSUME NEW L, Linked(L), NEW h \in Heads, NEW i \in 1..Len(L[h]), NEW e \in Elms,
           InsertAfter(h, L[h][i], e)
    PROVE  Fresh(L, e) /\ i \in 0..Len(L[h]) /\ LinkedNext(Put(L, h, i, e))
<1>1. Fresh(L, e)
  BY FreeIs DEF InsertAfter
<1>2. i \in 0..Len(L[h]) /\ FieldOf(L, h, i) = NextAt(L[h][i])
  BY ListFields DEF Linked, FieldOf
<1>3. PICK l : l = L[h][i]
  OBVIOUS
<1>4. FieldOf(L, h, i) = NextAt(l) /\ InsertAfter(h, l, e)
  BY <1>2, <1>3
<1>5. Held(m') /\ Inserted(m, m', L, h, i, e)
  <2>1. CASE kind = "SLIST"
    <3>1. SInsertAfter(l, e)
      BY <1>4, <2>1 DEF InsertAfter
    <3> QED
      BY <1>1, <1>2, <1>4, <2>1, <3>1, PutSingle DEF SInsertAfter
  <2>2. CASE kind = "LIST"
    <3>1. LInsertAfter(l, e)
      BY <1>4, <2>2 DEF InsertAfter
    <3> QED
      BY <1>1, <1>2, <1>4, <2>2, <3>1, PutBehind DEF LInsertAfter
  <2>3. CASE kind = "TAILQ"
    <3>1. TInsertAfter(h, l, e)
      BY <1>4, <2>3 DEF InsertAfter
    <3> QED
      BY <1>1, <1>2, <1>4, <2>3, <3>1, PutBehind DEF TInsertAfter
  <2>4. CASE kind \in {"SIMPLEQ", "STAILQ"}
    <3>1. QInsertAfter(h, l, e)
      BY <1>4, <2>4 DEF InsertAfter, TailInsertAfter
    <3>2. \A v : Mask(h, v) = v
      BY <2>4, MaskIs
    <3>3. Mask(h, Null) = Null /\ Mask(h, NextAt(e)) = NextAt(e) /\ Mask(h, e) = e
      BY <3>2
    <3>4. m' = [m EXCEPT ![NextAt(e)] = m[NextAt(l)],
                         ![LastAt(h)] = IF m[NextAt(l)] = Mask(h, Null) THEN Mask(h, NextAt(e)) ELSE m[LastAt(h)],
                         ![NextAt(l)] = Mask(h, e)]
      BY <3>1, <3>3 DEF QInsertAfter
    <3> QED
      BY <1>1, <1>2, <1>4, <2>4, <3>4, PutQueue
  <2>5. CASE kind = "XSIMPLEQ"
    <3>1. XInsertAfter(h, l, e)
      BY <1>4, <2>5 DEF InsertAfter
    <3>2. \A v : Mask(h, v) = Xor(h, v)
      BY <2>5, MaskIs
    <3>3. Mask(h, Null) = Xor(h, Null) /\ Mask(h, NextAt(e)) = Xor(h, NextAt(e)) /\ Mask(h, e) = Xor(h, e)
      BY <3>2
    <3>4. m' = [m EXCEPT ![NextAt(e)] = m[NextAt(l)],
                         ![LastAt(h)] = IF m[NextAt(l)] = Mask(h, Null) THEN Mask(h, NextAt(e)) ELSE m[LastAt(h)],
                         ![NextAt(l)] = Mask(h, e)]
      BY <3>1, <3>3 DEF XInsertAfter
    <3> QED
      BY <1>1, <1>2, <1>4, <2>5, <3>4, PutQueue
  <2> QED
    BY <2>1, <2>2, <2>3, <2>4, <2>5 DEF Linked, Kinds
<1> QED
  BY <1>1, <1>2, <1>5, PutLinks

LEMMA InsertTailDoes ==
    ASSUME NEW L, Linked(L), NEW h \in Heads, NEW e \in Elms, InsertTail(h, e)
    PROVE  Fresh(L, e) /\ Len(L[h]) \in 0..Len(L[h]) /\ LinkedNext(Put(L, h, Len(L[h]), e))
<1>1. Fresh(L, e)
  BY FreeIs DEF InsertTail
<1>2. Len(L[h]) \in 0..Len(L[h])
  BY ListFields DEF Linked
<1>3. kind \in {"SIMPLEQ", "XSIMPLEQ", "TAILQ", "STAILQ"} /\ Tailed
  BY DEF InsertTail, Linked, Kinds, Tailed
<1>4. PICK at : at = FieldOf(L, h, Len(L[h]))
  OBVIOUS
<1>5. m[LastAt(h)] = Mask(h, at) /\ at \in Bare
  BY <1>2, <1>3, <1>4, ListFields, Unmasked DEF Linked, LinkedIn
<1>6. Held(m') /\ Inserted(m, m', L, h, Len(L[h]), e)
  <2>1. CASE kind = "TAILQ"
    <3>1. TInsertTail(h, e)
      BY <2>1 DEF InsertTail
    <3>2. m[LastAt(h)] = at
      BY <1>5, <2>1, MaskIs
    <3> QED
      BY <1>1, <1>4, <2>1, <3>1, <3>2, PutLast DEF TInsertTail
  <2>2. CASE kind \in {"SIMPLEQ", "STAILQ"}
    <3>1. QInsertTail(h, e)
      BY <2>2 DEF InsertTail, TailInsertTail
    <3>2. \A v : Mask(h, v) = v
      BY <2>2, MaskIs
    <3>3. m[LastAt(h)] = at
      BY <1>5, <3>2
    <3>4. Mask(h, Null) = Null /\ Mask(h, NextAt(e)) = NextAt(e) /\ Mask(h, e) = e
      BY <3>2
    <3>5. m' = [m EXCEPT ![NextAt(e)] = Mask(h, Null), ![at] = Mask(h, e), ![LastAt(h)] = Mask(h, NextAt(e))]
      BY <3>1, <3>3, <3>4 DEF QInsertTail
    <3> QED
      BY <1>1, <1>4, <2>2, <3>5, PutTail
  <2>3. CASE kind = "XSIMPLEQ"
    <3>1. XInsertTail(h, e)
      BY <2>3 DEF InsertTail
    <3>2. \A v : Mask(h, v) = Xor(h, v)
      BY <2>3, MaskIs
    <3>3. Xor(h, m[LastAt(h)]) = at
      BY <1>5, <3>2, MaskIs
    <3>4. Mask(h, Null) = Xor(h, Null) /\ Mask(h, NextAt(e)) = Xor(h, NextAt(e)) /\ Mask(h, e) = Xor(h, e)
      BY <3>2
    <3>5. m' = [m EXCEPT ![NextAt(e)] = Mask(h, Null), ![at] = Mask(h, e), ![LastAt(h)] = Mask(h, NextAt(e))]
      BY <3>1, <3>3, <3>4 DEF XInsertTail
    <3> QED
      BY <1>1, <1>4, <2>3, <3>5, PutTail
  <2> QED
    BY <1>3, <2>1, <2>2, <2>3
<1> QED
  BY <1>1, <1>2, <1>6, PutLinks

LEMMA InsertBeforeDoes ==
    ASSUME NEW L, Linked(L), NEW h \in Heads, NEW i \in 0..Len(L[h]) - 1, NEW e \in Elms,
           InsertBefore(h, L[h][i + 1], e)
    PROVE  Fresh(L, e) /\ i \in 0..Len(L[h]) /\ LinkedNext(Put(L, h, i, e))
<1>1. Fresh(L, e)
  BY FreeIs DEF InsertBefore
<1>2. PICK l : l = L[h][i + 1]
  OBVIOUS
<1>3. /\ l = ElmAt(L, h, i) /\ l # Null /\ i \in 0..Len(L[h]) /\ i + 1 \in 1..Len(L[h]) /\ (i + 1) - 1 = i
  BY <1>2, ListFields DEF Linked
<1>4. kind \in {"LIST", "TAILQ"} /\ ~cookie /\ Backed
  BY DEF InsertBefore, Linked, Backed
<1>5. m[PrevAt(l)] = FieldOf(L, h, i)
  <2>1. m[PrevAt(L[h][i + 1])] = FieldOf(L, h, (i + 1) - 1)
    BY <1>3, <1>4, Plain
  <2> QED
    BY <1>2, <1>3, <2>1
<1>6. m' = [m EXCEPT ![PrevAt(e)] = FieldOf(L, h, i), ![NextAt(e)] = l, ![FieldOf(L, h, i)] = e,
                     ![PrevAt(l)] = NextAt(e)]
  BY <1>2, <1>5 DEF InsertBefore, LInsertBefore, TInsertBefore
<1>7. Held(m') /\ Inserted(m, m', L, h, i, e)
  BY <1>1, <1>3, <1>4, <1>6, PutBefore
<1> QED
  BY <1>1, <1>3, <1>7, PutLinks

\* The element before another, as the caller finds it.
LEMMA BeforeIs ==
    ASSUME NEW L, Linked(L), NEW h \in Heads, NEW i \in 1..Len(L[h]) - 1
    PROVE  Before(h, L[h][i + 1]) = L[h][i]
<1>1. PICK n : n = Len(L[h]) /\ n \in Nat
  BY ListFields DEF Linked
<1>2. i \in 1..n /\ i < n /\ i + 1 \in 1..n
  BY <1>1
<1>3. L[h][i] \in Within(h)
  BY <1>1, <1>2, WithinIs
<1>4. \A j \in 1..n : NextOf(h, L[h][j]) = IF j < n THEN L[h][j + 1] ELSE Null
  BY <1>1, LinksRead DEF Linked, ElmAt
<1>5. NextOf(h, L[h][i]) = L[h][i + 1]
  BY <1>2, <1>4
<1>6. ASSUME NEW l \in Within(h), NextOf(h, l) = L[h][i + 1] PROVE l = L[h][i]
  <2>1. PICK j \in 1..n : L[h][j] = l
    BY <1>1, WithinIs
  <2>2. L[h][i + 1] \in Elms /\ Null \notin Elms
    BY <1>1, <1>2, ListFields DEF Linked
  <2>3. j < n /\ L[h][j + 1] = L[h][i + 1]
    BY <1>4, <1>6, <2>1, <2>2
  <2>4. j + 1 \in 1..n
    BY <1>1, <2>1, <2>3
  <2>5. j + 1 = i + 1
    BY <1>1, <1>2, <2>3, <2>4 DEF Linked, AreLists, Once
  <2>6. j = i
    BY <2>5
  <2> QED
    BY <2>1, <2>6
<1> QED
  BY <1>3, <1>5, <1>6 DEF Before

\* *_REMOVE, and *_REMOVE_HEAD or *_REMOVE_AFTER.
LEMMA ExtractDoes ==
    ASSUME NEW L, Linked(L), ~cookie, NEW h \in Heads, NEW i \in 0..Len(L[h]) - 1, Extract(h, L[h][i + 1])
    PROVE  LinkedNext(Take(L, h, i))
<1>1. PICK e : e = L[h][i + 1]
  OBVIOUS
<1>2. PICK at : at = FieldOf(L, h, i)
  OBVIOUS
<1>3. /\ e = ElmAt(L, h, i) /\ e \in Elms /\ i \in 0..Len(L[h]) /\ i + 1 \in 1..Len(L[h]) /\ (i + 1) - 1 = i
      /\ Len(L[h]) \in Nat
  BY <1>1, ListFields DEF Linked
<1>4. \A v : Xor(h, v) = v
  BY Plain
<1>5. FirstOf(h) = m[FirstAt(h)] /\ \A l : NextOf(h, l) = m[NextAt(l)]
  BY <1>4 DEF FirstOf, NextOf
<1>6. m[at] = e
  BY <1>2, <1>3, Plain
<1>7. i = 0 => at = FirstAt(h) /\ m[FirstAt(h)] = e
  BY <1>2, <1>6 DEF FieldOf
<1>8. i # 0 => /\ at = NextAt(Before(h, e)) /\ m[NextAt(Before(h, e))] = e
               /\ m[FirstAt(h)] # e
  <2>1. SUFFICES ASSUME i # 0 PROVE /\ at = NextAt(Before(h, e)) /\ m[NextAt(Before(h, e))] = e
                                    /\ m[FirstAt(h)] # e
    OBVIOUS
  <2>2. i \in 1..Len(L[h]) - 1
    BY <1>3, <2>1
  <2>3. Before(h, e) = L[h][i] /\ at = NextAt(L[h][i])
    BY <1>1, <1>2, <2>1, <2>2, BeforeIs DEF FieldOf
  <2>4. 0 \in 0..Len(L[h]) /\ 0 < Len(L[h]) /\ 0 + 1 = 1 /\ 1 \in 1..Len(L[h])
    BY <1>3
  <2>5. m[FieldOf(L, h, 0)] = L[h][1]
    BY <2>4, Plain DEF ElmAt
  <2>6. i + 1 # 1
    BY <1>3, <2>1
  <2>7. L[h][1] # L[h][i + 1]
    BY <1>3, <2>4, <2>6 DEF Linked, AreLists, Once
  <2> QED
    BY <1>1, <1>6, <2>3, <2>5, <2>7 DEF FieldOf
<1>9. Held(m') /\ Removed(m, m', L, h, i)
  <2>1. CASE kind = "SLIST"
    <3>1. SRemove(h, e)
      BY <1>1, <2>1 DEF Extract
    <3>2. m' = Forget([m EXCEPT ![at] = m[NextAt(e)]], e)
      BY <1>7, <1>8, <3>1 DEF SRemove, SRemoveHead, SRemoveAfter
    <3> QED
      BY <1>2, <1>3, <2>1, <3>2, CutSingle
  <2>2. CASE kind \in {"SIMPLEQ", "STAILQ"}
    <3>1. IF m[FirstAt(h)] = e THEN QRemoveHead(h) ELSE QRemoveAfter(h, Before(h, e))
      BY <1>1, <1>5, <2>2 DEF Extract, TailRemove, TailRemoveHead, TailRemoveAfter
    <3>2. m' = Forget([m EXCEPT ![at] = m[NextAt(e)],
                                ![LastAt(h)] = IF m[NextAt(e)] = Null THEN at ELSE m[LastAt(h)]], e)
      BY <1>7, <1>8, <3>1 DEF QRemoveHead, QRemoveAfter
    <3> QED
      BY <1>2, <1>3, <2>2, <3>2, CutQueue
  <2>3. CASE kind = "XSIMPLEQ"
    <3>1. IF m[FirstAt(h)] = e THEN XRemoveHead(h) ELSE XRemoveAfter(h, Before(h, e))
      BY <1>1, <1>5, <2>3 DEF Extract
    <3>2. m' = Forget([m EXCEPT ![at] = m[NextAt(e)],
                                ![LastAt(h)] = IF m[NextAt(e)] = Null THEN at ELSE m[LastAt(h)]], e)
      BY <1>4, <1>7, <1>8, <3>1 DEF XRemoveHead, XRemoveAfter
    <3> QED
      BY <1>2, <1>3, <2>3, <3>2, CutQueue
  <2>4. CASE kind \in {"LIST", "TAILQ"}
    <3>1. /\ kind = "LIST" => LRemove(e)
          /\ kind = "TAILQ" => TRemove(h, e)
      <4>1. kind = "LIST" => LRemove(e)
        BY <1>1 DEF Extract
      <4>2. kind = "TAILQ" => TRemove(h, e)
        BY <1>1 DEF Extract
      <4> QED
        BY <4>1, <4>2
    <3>2. PICK n : n = m[NextAt(e)]
      OBVIOUS
    <3>3. PICK a : a = m[PrevAt(e)]
      OBVIOUS
    <3>4. m' = Forget([(IF kind = "LIST" THEN Backlink(m, n, a) ELSE BacklinkOrLast(m, h, n, a))
                            EXCEPT ![a] = n], e)
      BY <2>4, <3>1, <3>2, <3>3 DEF LRemove, TRemove
    <3> QED
      BY <1>3, <2>4, <3>2, <3>3, <3>4, CutBoth
  <2> QED
    BY <2>1, <2>2, <2>3, <2>4 DEF Linked, Kinds
<1>10. AreLists(L) /\ LinkedIn(m, L)
  BY DEF Linked
<1>11. AreLists(Take(L, h, i))
  BY <1>10, TakeIs
<1>12. LinkedIn(m', Take(L, h, i))
  BY <1>9, <1>10, RemovedLinked
<1> QED
  BY <1>9, <1>11, <1>12 DEF LinkedNext

\* *_REPLACE.
LEMMA ExchangeDoes ==
    ASSUME NEW L, Linked(L), NEW h \in Heads, NEW i \in 0..Len(L[h]) - 1, NEW f \in Elms,
           Exchange(h, L[h][i + 1], f)
    PROVE  Fresh(L, f) /\ LinkedNext(Swap(L, h, i, f))
<1>1. Fresh(L, f)
  BY FreeIs DEF Exchange
<1>2. PICK e : e = L[h][i + 1]
  OBVIOUS
<1>3. e = ElmAt(L, h, i)
  <2>1. AreLists(L)
    BY DEF Linked
  <2>2. \A j \in 0..Len(L[h]) - 1 : ElmAt(L, h, j) = L[h][j + 1]
    BY <2>1, ListFields
  <2> QED
    BY <1>2, <2>2
<1>4. \/ kind = "LIST" /\ LReplace(e, f)
      \/ kind = "TAILQ" /\ TReplace(h, e, f)
  BY <1>2 DEF Exchange
<1>5. PICK n : n = m[NextAt(e)]
  OBVIOUS
<1>6. PICK a : a = m[PrevAt(e)]
  OBVIOUS
<1>7. m' = Forget([(IF kind = "LIST" THEN Backlink([m EXCEPT ![NextAt(f)] = n], n, NextAt(f))
                    ELSE BacklinkOrLast([m EXCEPT ![NextAt(f)] = n], h, n, NextAt(f)))
                       EXCEPT ![PrevAt(f)] = a, ![a] = f], e)
  BY <1>4, <1>5, <1>6 DEF LReplace, TReplace
<1>8. Held(m') /\ Replaced(m, m', L, h, i, f)
  <2>1. kind \in {"LIST", "TAILQ"}
    BY <1>4
  <2> QED
    BY <1>1, <1>3, <1>5, <1>6, <1>7, <2>1, SwapBoth
<1>9. AreLists(Swap(L, h, i, f)) /\ LinkedIn(m', Swap(L, h, i, f))
  BY <1>1, <1>8, ReplacedLinked DEF Linked
<1> QED
  BY <1>1, <1>8, <1>9 DEF LinkedNext

\* *_CONCAT.
LEMMA JoinDoes ==
    ASSUME NEW L, Linked(L), NEW g \in Heads, NEW h \in Heads, Join(g, h)
    PROVE  g # h /\ LinkedNext(Joint(L, g, h))
<1>1. g # h /\ kind \in {"SIMPLEQ", "TAILQ", "STAILQ"} /\ ~cookie /\ Tailed
  BY DEF Join, Linked, Tailed
<1>2. AreLists(L) /\ LinkedIn(m, L) /\ Held(m)
  BY DEF Linked
<1>3. AreLists(Joint(L, g, h))
  BY <1>1, <1>2, JointIs
<1>4. PICK to : to = m[LastAt(g)]
  OBVIOUS
<1>5. PICK first : first = m[FirstAt(h)]
  OBVIOUS
<1>6. PICK m0 : m0 = [m EXCEPT ![to] = first]
  OBVIOUS
<1>7. PICK m1 : m1 = IF kind = "TAILQ" THEN [m0 EXCEPT ![PrevAt(first)] = to] ELSE m0
  OBVIOUS
<1>8. m' = IF first = Null THEN m
           ELSE [m1 EXCEPT ![LastAt(g)] = m[LastAt(h)], ![FirstAt(h)] = Null, ![LastAt(h)] = FirstAt(h)]
  <2>1. CASE kind = "TAILQ"
    BY <1>4, <1>5, <1>6, <1>7, <2>1 DEF Join, TConcat
  <2>2. CASE kind # "TAILQ"
    BY <1>4, <1>5, <1>6, <1>7, <2>2 DEF Join, QConcat, TailConcat
  <2> QED
    BY <2>1, <2>2
<1>9. first = Null <=> L[h] = <<>>
  <2>1. m[FieldOf(L, h, 0)] = ElmAt(L, h, 0) /\ FieldOf(L, h, 0) = FirstAt(h)
    BY <1>1, <1>2, Plain, ListFields DEF FieldOf
  <2>2. L[h] \in Seq(Elms) /\ Len(L[h]) \in Nat
    BY <1>2, ListFields
  <2>3. CASE L[h] = <<>>
    <3>1. ~(0 < Len(L[h]))
      BY <2>3
    <3> QED
      BY <1>5, <2>1, <2>3, <3>1 DEF ElmAt
  <2>4. CASE L[h] # <<>>
    <3>1. Len(L[h]) # 0
      BY <2>2, <2>4, EmptySeq
    <3>2. 0 \in 0..Len(L[h]) - 1
      BY <2>2, <3>1
    <3> QED
      BY <1>2, <1>5, <2>1, <2>4, <3>2, ListFields
  <2> QED
    BY <2>3, <2>4
<1>10. CASE L[h] = <<>>
  <2>1. m' = m
    BY <1>8, <1>9, <1>10
  <2>2. Joint(L, g, h) = L
    BY <1>1, <1>2, <1>10, JointOfEmpty
  <2> QED
    BY <1>1, <1>2, <2>1, <2>2 DEF LinkedNext
<1>11. CASE L[h] # <<>>
  <2>1. m' = [m1 EXCEPT ![LastAt(g)] = m[LastAt(h)], ![FirstAt(h)] = Null, ![LastAt(h)] = FirstAt(h)]
    BY <1>8, <1>9, <1>11
  <2>2. kind \in {"SIMPLEQ", "STAILQ", "TAILQ"}
    BY <1>1
  <2>3. Held(m') /\ Joined(m, m', L, g, h)
    BY <1>1, <1>4, <1>5, <1>6, <1>7, <1>11, <2>1, <2>2, JoinBoth
  <2>4. LinkedIn(m', Joint(L, g, h))
    BY <1>1, <1>2, <1>11, <2>2, <2>3, JoinedLinked
  <2> QED
    BY <1>1, <1>3, <2>3, <2>4 DEF LinkedNext
<1> QED
  BY <1>10, <1>11

----------------------------------------------------------------------------
(* The first state, and what does not depend on the state.                 *)

LEMMA HeadFieldsAre ==
    ASSUME NEW h \in Heads, kind \in Kinds
    PROVE  /\ DOMAIN HeadFields(h) = IF Tailed THEN {FirstAt(h), LastAt(h)} ELSE {FirstAt(h)}
           /\ HeadFields(h)[FirstAt(h)] = Mask(h, Null)
           /\ Tailed => HeadFields(h)[LastAt(h)] = Mask(h, FirstAt(h))
<1>1. FirstAt(h) # LastAt(h)
  BY Addresses
<1>2. CASE kind \in {"SLIST", "LIST"}
  <2>1. HeadFields(h) = [a \in {FirstAt(h)} |-> Null]
    BY <1>2 DEF HeadFields, SInit
  <2>2. ~Tailed /\ Mask(h, Null) = Null
    BY <1>2 DEF Tailed, Mask
  <2> QED
    BY <2>1, <2>2
<1>3. CASE kind = "XSIMPLEQ"
  <2>1. HeadFields(h) = [a \in {FirstAt(h), LastAt(h)} |-> Xor(h, IF a = FirstAt(h) THEN Null ELSE FirstAt(h))]
    BY <1>3 DEF HeadFields, XInit
  <2>2. Tailed /\ \A v : Mask(h, v) = Xor(h, v)
    BY <1>3, MaskIs DEF Tailed
  <2> QED
    BY <1>1, <2>1, <2>2
<1>4. CASE kind \in {"SIMPLEQ", "TAILQ", "STAILQ"}
  <2>1. HeadFields(h) = [a \in {FirstAt(h), LastAt(h)} |-> IF a = FirstAt(h) THEN Null ELSE FirstAt(h)]
    BY <1>4 DEF HeadFields, QInit
  <2>2. Tailed /\ \A v : Mask(h, v) = v
    BY <1>4, MaskIs DEF Tailed
  <2> QED
    BY <1>1, <2>1, <2>2
<1> QED
  BY <1>2, <1>3, <1>4 DEF Kinds

\* The lists are empty at first.
NoLists == [h \in Heads |-> <<>>]

LEMMA InitLinked == ASSUME Init PROVE Linked(NoLists)
<1>1. kind \in Kinds /\ cookie \in BOOLEAN /\ (cookie => kind = "XSIMPLEQ")
  BY DEF Init
<1>2. m = [a \in Fields |-> IF a[2] \in Heads /\ a \in DOMAIN HeadFields(a[2]) THEN HeadFields(a[2])[a] ELSE Stale]
  BY DEF Init
<1>3. \A h : FirstAt(h)[2] = h /\ LastAt(h)[2] = h
  BY DEF FirstAt, LastAt
<1>4. ASSUME NEW h \in Heads
      PROVE  m[FirstAt(h)] = Mask(h, Null) /\ (Tailed => m[LastAt(h)] = Mask(h, FirstAt(h)))
  <2>1. FirstAt(h) \in Fields /\ LastAt(h) \in Fields
    BY InFields
  <2>2. FirstAt(h) \in DOMAIN HeadFields(h) /\ (Tailed => LastAt(h) \in DOMAIN HeadFields(h))
    BY <1>1, HeadFieldsAre
  <2>3. m[FirstAt(h)] = HeadFields(h)[FirstAt(h)]
    BY <1>2, <1>3, <2>1, <2>2
  <2>4. Tailed => m[LastAt(h)] = HeadFields(h)[LastAt(h)]
    BY <1>2, <1>3, <2>1, <2>2
  <2> QED
    BY <1>1, <2>3, <2>4, HeadFieldsAre
<1>5. ASSUME ~cookie, NEW a \in Fields PROVE m[a] \in Bare
  <2>1. CASE a[2] \in Heads /\ a \in DOMAIN HeadFields(a[2])
    <3>1. PICK h \in Heads : h = a[2]
      BY <2>1
    <3>2. m[a] = HeadFields(h)[a] /\ a \in DOMAIN HeadFields(h)
      BY <1>2, <2>1, <3>1
    <3>3. a = FirstAt(h) \/ (a = LastAt(h) /\ Tailed)
      BY <1>1, <3>2, HeadFieldsAre
    <3>4. Mask(h, Null) = Null /\ Mask(h, FirstAt(h)) = FirstAt(h)
      BY <1>5, MaskIs
    <3>5. Null \in Bare /\ FirstAt(h) \in Bare
      BY InFields, Unmasked
    <3> QED
      BY <1>1, <3>2, <3>3, <3>4, <3>5, HeadFieldsAre
  <2>2. CASE ~(a[2] \in Heads /\ a \in DOMAIN HeadFields(a[2]))
    BY <1>2, <2>2 DEF Bare
  <2> QED
    BY <2>1, <2>2
<1>6. Held(m)
  BY <1>2, <1>5 DEF Held
<1>7. \A h \in Heads : NoLists[h] = <<>> /\ Len(NoLists[h]) = 0
  BY DEF NoLists
<1>8. AreLists(NoLists)
  <2>1. NoLists \in [Heads -> Seq(Elms)]
    BY DEF NoLists
  <2>2. Once(NoLists)
    BY <1>7 DEF Once
  <2> QED
    BY <2>1, <2>2 DEF AreLists
<1>9. LinkedIn(m, NoLists)
  <2>1. \A h \in Heads : FieldOf(NoLists, h, 0) = FirstAt(h) /\ ElmAt(NoLists, h, 0) = Null
    BY <1>7 DEF FieldOf, ElmAt
  <2>2. \A h \in Heads : \A i \in 0..Len(NoLists[h]) : i = 0
    BY <1>7
  <2>3. \A h \in Heads : ~\E i \in 1..Len(NoLists[h]) : TRUE
    BY <1>7
  <2> QED
    BY <1>4, <1>7, <2>1, <2>2, <2>3 DEF LinkedIn
<1> QED
  BY <1>1, <1>6, <1>8, <1>9 DEF Linked

\* Lists are linked as they were while memory is, and as a macro links them.
LEMMA LinkedLater ==
    ASSUME NEW L, NEW M, Linked(L), LinkedNext(M), kind' = kind, cookie' = cookie
    PROVE  Linked(M)'
<1>1. kind' \in Kinds /\ cookie' \in BOOLEAN /\ (cookie' => kind' = "XSIMPLEQ")
  BY DEF Linked
<1>2. Held(m)'
  <2>1. DOMAIN m' = Fields /\ (~cookie => m' \in [Fields -> Bare])
    BY DEF LinkedNext, Held
  <2> QED
    BY <2>1 DEF Held
<1>3. AreLists(M)'
  BY DEF LinkedNext
<1>4. \A h, v : Mask(h, v)' = Mask(h, v)
  BY DEF Mask, Xor
<1>5. Tailed' = Tailed /\ Backed' = Backed
  BY DEF Tailed, Backed
<1>6. LinkedIn(m, M)'
  BY <1>4, <1>5 DEF LinkedNext, LinkedIn
<1> QED
  BY <1>1, <1>2, <1>3, <1>6 DEF Linked

LEMMA LinkedStays ==
    ASSUME NEW L, Linked(L), kind' = kind, cookie' = cookie, m' = m
    PROVE  Linked(L)'
<1>1. LinkedNext(L)
  BY DEF Linked, LinkedNext
<1> QED
  BY <1>1, LinkedLater

----------------------------------------------------------------------------
(* Lists that are linked are well linked.                                  *)

\* The second field of the head or link that a field is the first of.
LEMMA SecondIs ==
    /\ \A h : Second(FirstAt(h)) = LastAt(h) /\ FirstAt(h)[2] = h
    /\ \A e : Second(NextAt(e)) = PrevAt(e) /\ NextAt(e)[2] = e
<1>1. "first" # "next"
  OBVIOUS
<1>2. \A h : FirstAt(h)[1] = "first" /\ FirstAt(h)[2] = h
  BY DEF FirstAt
<1>3. \A e : NextAt(e)[1] = "next" /\ NextAt(e)[2] = e
  BY DEF NextAt
<1> QED
  BY <1>1, <1>2, <1>3 DEF Second

\* A tail queue as it is read backwards.
LEMMA BackRead ==
    ASSUME NEW L, Linked(L), kind = "TAILQ", NEW h \in Heads
    PROVE  /\ TLast(h) = IF Len(L[h]) = 0 THEN Null ELSE L[h][Len(L[h])]
           /\ \A i \in 1..Len(L[h]) : TPrev(L[h][i]) = IF i = 1 THEN Null ELSE L[h][i - 1]
<1>1. PICK n : n = Len(L[h])
  OBVIOUS
<1>2. n \in Nat
  BY <1>1, ListFields DEF Linked
<1>3. ~cookie /\ Tailed /\ Backed
  BY DEF Linked, Tailed, Backed
<1>4. /\ \A i \in 0..n : m[FieldOf(L, h, i)] = ElmAt(L, h, i)
      /\ m[LastAt(h)] = FieldOf(L, h, n)
      /\ \A i \in 1..n : m[PrevAt(L[h][i])] = FieldOf(L, h, i - 1)
  BY <1>1, <1>3, Plain
<1>5. /\ \A i \in 0..n - 1 : ElmAt(L, h, i) = L[h][i + 1]
      /\ ElmAt(L, h, n) = Null
  BY <1>1, ListFields DEF Linked
\* Where the field after i elements leads back to, as the second field beside it has it.
<1>6. ASSUME NEW i \in 1..n PROVE m[m[Second(FieldOf(L, h, i))]] = L[h][i]
  <2>1. i # 0 /\ i - 1 \in 0..n - 1 /\ i - 1 \in 0..n /\ (i - 1) + 1 = i
    BY <1>2
  <2>2. Second(FieldOf(L, h, i)) = PrevAt(L[h][i])
    BY <2>1, SecondIs DEF FieldOf
  <2>3. m[PrevAt(L[h][i])] = FieldOf(L, h, i - 1)
    BY <1>4
  <2>4. m[FieldOf(L, h, i - 1)] = L[h][i]
    BY <1>4, <1>5, <2>1
  <2> QED
    BY <2>2, <2>3, <2>4
<1>7. m[m[Second(FieldOf(L, h, 0))]] = Null
  <2>1. Second(FieldOf(L, h, 0)) = LastAt(h)
    BY SecondIs DEF FieldOf
  <2>2. n \in 0..n
    BY <1>2
  <2> QED
    BY <1>4, <1>5, <2>1, <2>2
<1>8. TLast(h) = IF n = 0 THEN Null ELSE L[h][n]
  <2>1. TLast(h) = m[m[Second(FieldOf(L, h, n))]]
    BY <1>4 DEF TLast
  <2>2. n # 0 => n \in 1..n
    BY <1>2
  <2> QED
    BY <1>6, <1>7, <2>1, <2>2
<1>9. ASSUME NEW i \in 1..n PROVE TPrev(L[h][i]) = IF i = 1 THEN Null ELSE L[h][i - 1]
  <2>1. TPrev(L[h][i]) = m[m[Second(FieldOf(L, h, i - 1))]]
    BY <1>4 DEF TPrev
  <2>2. CASE i = 1
    <3>1. i - 1 = 0
      BY <2>2
    <3> QED
      BY <1>7, <2>1, <2>2, <3>1
  <2>3. CASE i # 1
    <3>1. i - 1 \in 1..n
      BY <1>2, <2>3
    <3> QED
      BY <1>6, <2>1, <2>3, <3>1
  <2> QED
    BY <2>2, <2>3
<1> QED
  BY <1>1, <1>8, <1>9

\* A loop is over one list.
LoopTypeOK ==
    /\ loop.head \in Heads \cup {Null} /\ loop.back \in BOOLEAN
    /\ {loop.at, loop.next} \subseteq Elms \cup {Null}

LEMMA LinkedType == ASSUME NEW L, Linked(L), LoopTypeOK PROVE TypeOK
<1>1. kind \in Kinds /\ cookie \in BOOLEAN /\ DOMAIN m = Fields
  BY DEF Linked, Held
<1>2. \A a \in Fields : cookie \/ m[a] \in Bare
  BY DEF Linked, Held
<1> QED
  BY <1>1, <1>2 DEF TypeOK, LoopTypeOK

LEMMA WellLinkedIs == ASSUME NEW L, Linked(L), LoopTypeOK PROVE WellLinked
<1>1. TypeOK
  BY LinkedType
<1> DEFINE Field(h, i) == IF i = 0 THEN FirstAt(h) ELSE NextAt(Walk(h)[i])
<1>2. ASSUME NEW h \in Heads
      PROVE  /\ kind \in {"SIMPLEQ", "STAILQ", "TAILQ"} => m[LastAt(h)] = Field(h, Len(Walk(h)))
             /\ kind = "XSIMPLEQ" => Xor(h, m[LastAt(h)]) = Field(h, Len(Walk(h)))
             /\ kind \in {"LIST", "TAILQ"} => \A i \in 1..Len(Walk(h)) : m[PrevAt(Walk(h)[i])] = Field(h, i - 1)
             /\ kind = "TAILQ" =>
                  /\ TLast(h) = IF Walk(h) = <<>> THEN Null ELSE Last(Walk(h))
                  /\ \A i \in 1..Len(Walk(h)) : TPrev(Walk(h)[i]) = IF i = 1 THEN Null ELSE Walk(h)[i - 1]
             /\ kind = "STAILQ" => TailLast(h) = IF Walk(h) = <<>> THEN Null ELSE Last(Walk(h))
  <2>1. PICK w : w = Walk(h)
    OBVIOUS
  <2>2. w = L[h] /\ AreLists(L) /\ LinkedIn(m, L)
    BY <2>1, WalkIs DEF Linked
  <2>3. PICK n : n = Len(w)
    OBVIOUS
  <2>4. n \in Nat /\ w \in Seq(Elms)
    BY <2>2, <2>3, ListFields
  <2>5. w = <<>> <=> n = 0
    BY <2>3, <2>4, EmptySeq
  <2>6. \A i : Field(h, i) = FieldOf(L, h, i)
    BY <2>1, <2>2 DEF FieldOf
  <2>7. FieldOf(L, h, n) \in Bare
    <3>1. n \in 0..n
      BY <2>4
    <3> QED
      BY <2>2, <2>3, <3>1, ListFields, Unmasked
  <2> HIDE DEF Field
  <2>8. kind \in {"SIMPLEQ", "STAILQ", "TAILQ"} => m[LastAt(h)] = FieldOf(L, h, n)
    <3>1. SUFFICES ASSUME kind \in {"SIMPLEQ", "STAILQ", "TAILQ"} PROVE m[LastAt(h)] = FieldOf(L, h, n)
      OBVIOUS
    <3>2. ~cookie /\ Tailed
      BY <3>1 DEF Linked, Tailed
    <3> QED
      BY <2>2, <2>3, <3>2, Plain
  <2>9. kind = "XSIMPLEQ" => Xor(h, m[LastAt(h)]) = FieldOf(L, h, n)
    <3>1. SUFFICES ASSUME kind = "XSIMPLEQ" PROVE Xor(h, m[LastAt(h)]) = FieldOf(L, h, n)
      OBVIOUS
    <3>2. m[LastAt(h)] = Mask(h, FieldOf(L, h, n))
      BY <2>2, <2>3, <3>1 DEF LinkedIn, Tailed
    <3> QED
      BY <2>7, <3>1, <3>2, MaskIs
  <2>10. kind \in {"LIST", "TAILQ"} => \A i \in 1..n : m[PrevAt(w[i])] = FieldOf(L, h, i - 1)
    BY <2>2, <2>3 DEF LinkedIn, Backed
  <2>11. kind = "TAILQ" =>
            /\ TLast(h) = IF n = 0 THEN Null ELSE w[n]
            /\ \A i \in 1..n : TPrev(w[i]) = IF i = 1 THEN Null ELSE w[i - 1]
    BY <2>2, <2>3, BackRead
  <2>12. kind = "STAILQ" => TailLast(h) = IF n = 0 THEN Null ELSE w[n]
    <3>1. SUFFICES ASSUME kind = "STAILQ" PROVE TailLast(h) = IF n = 0 THEN Null ELSE w[n]
      OBVIOUS
    <3>2. ~cookie
      BY <3>1 DEF Linked
    <3>3. 0 \in 0..n
      BY <2>4
    <3>4. m[FirstAt(h)] = ElmAt(L, h, 0)
      BY <2>2, <2>3, <3>2, <3>3, Plain DEF FieldOf
    <3>5. CASE n = 0
      <4>1. ElmAt(L, h, n) = Null
        BY <2>2, <2>3, ListFields
      <4> QED
        BY <3>4, <3>5, <4>1 DEF TailLast
    <3>6. CASE n # 0
      <4>1. 0 \in 0..n - 1
        BY <2>4, <3>6
      <4>2. ElmAt(L, h, 0) # Null
        BY <2>2, <2>3, <4>1, ListFields
      <4>3. m[LastAt(h)] = NextAt(w[n])
        BY <2>2, <2>8, <3>1, <3>6 DEF FieldOf
      <4> QED
        BY <3>4, <3>6, <4>2, <4>3, SecondIs DEF TailLast
    <3> QED
      BY <3>5, <3>6
  <2>13. n # 0 => Last(w) = w[n]
    BY <2>3 DEF Last
  <2>14. \A i : Field(h, i) = FieldOf(L, h, i)
    BY <2>6
  <2> QED
    BY <2>1, <2>3, <2>5, <2>8, <2>9, <2>10, <2>11, <2>12, <2>13, <2>14
<1> QED
  BY <1>1, <1>2 DEF WellLinked

----------------------------------------------------------------------------
(* A loop over a list that removes the element at hand.                    *)

Loops ==
    [head : Heads \cup {Null}, back : BOOLEAN, at : Elms \cup {Null}, next : Elms \cup {Null},
     seen : Seq(Elms), whole : Seq(Elms)]

\* The loop l is at element k of the list that it began with, remembers the next, and the elements
\* after it are the last ones, in reverse the first ones, of the list as it is.
StandsAt(L, l, k) ==
    /\ l.at = l.whole[k]
    /\ Len(l.seen) = k /\ \A j \in 1..k : l.seen[j] = l.whole[j]
    /\ l.next = IF k < Len(l.whole) THEN l.whole[k + 1] ELSE Null
    /\ Len(l.whole) - k <= Len(L[l.head])
    /\ \A j \in k + 1..Len(l.whole) :
          l.whole[j] = L[l.head][IF l.back THEN Len(l.whole) + 1 - j ELSE Len(L[l.head]) - Len(l.whole) + j]

LoopIs(L, l) ==
    /\ l \in Loops
    /\ \A i \in 1..Len(l.whole), j \in 1..Len(l.whole) : l.whole[i] = l.whole[j] => i = j
    /\ l.at = Null => l.seen = l.whole
    /\ l.at # Null => l.head \in Heads /\ \E k \in 1..Len(l.whole) : StandsAt(L, l, k)

LEMMA NoLoopIs == ASSUME NEW L PROVE LoopIs(L, NoLoop)
<1>1. NoLoop \in Loops
  BY DEF NoLoop, Loops
<1>2. NoLoop.at = Null /\ NoLoop.seen = <<>> /\ NoLoop.whole = <<>>
  BY DEF NoLoop
<1>3. Len(NoLoop.whole) = 0
  BY <1>2
<1> QED
  BY <1>1, <1>2, <1>3 DEF LoopIs

\* The loop stands at v.
LEMMA StandIs ==
    ASSUME NEW l \in Loops, NEW v \in Elms \cup {Null}, NEW n \in Elms \cup {Null},
           n = IF v = Null THEN Null ELSE IF l.back THEN TPrev(v) ELSE NextOf(l.head, v)
    PROVE  /\ Stand(l, v) \in Loops
           /\ Stand(l, v).head = l.head /\ Stand(l, v).back = l.back /\ Stand(l, v).whole = l.whole
           /\ Stand(l, v).at = v /\ Stand(l, v).next = n
           /\ Stand(l, v).seen = IF v = Null THEN l.seen ELSE Append(l.seen, v)
<1>1. PICK s : s = IF v = Null THEN l.seen ELSE Append(l.seen, v)
  OBVIOUS
<1>2. s \in Seq(Elms)
  <2>1. l.seen \in Seq(Elms)
    BY DEF Loops
  <2>2. v # Null => v \in Elms
    OBVIOUS
  <2>3. v # Null => Append(l.seen, v) \in Seq(Elms)
    BY <2>1, <2>2, AppendProperties
  <2> QED
    BY <1>1, <2>1, <2>3
<1>3. Stand(l, v) = [l EXCEPT !.at = v, !.next = n, !.seen = s]
  BY <1>1 DEF Stand, Loops
<1> QED
  BY <1>1, <1>2, <1>3 DEF Loops

\* The elements after v, where the loop goes on.
LEMMA NextIs ==
    ASSUME NEW L, Linked(L), NEW h \in Heads, NEW back \in BOOLEAN, back => kind = "TAILQ",
           NEW i \in 1..Len(L[h])
    PROVE  (IF back THEN TPrev(L[h][i]) ELSE NextOf(h, L[h][i]))
              = IF back THEN (IF i = 1 THEN Null ELSE L[h][i - 1])
                ELSE IF i < Len(L[h]) THEN L[h][i + 1] ELSE Null
<1>1. CASE back
  BY <1>1, BackRead
<1>2. CASE ~back
  <2>1. NextOf(h, L[h][i]) = ElmAt(L, h, i)
    BY LinksRead DEF Linked
  <2> QED
    BY <1>2, <2>1 DEF ElmAt
<1> QED
  BY <1>1, <1>2

\* The loop goes on.
LEMMA StepIs ==
    ASSUME NEW L, Linked(L), LoopIs(L, loop), loop.back => kind = "TAILQ", loop.at # Null
    PROVE  LoopIs(L, Stand(loop, loop.next))
<1>1. PICK h \in Heads : h = loop.head
  BY DEF LoopIs
<1>2. PICK k \in 1..Len(loop.whole) : StandsAt(L, loop, k)
  BY DEF LoopIs
<1>3. PICK w : w = loop.whole
  OBVIOUS
<1>4. PICK n : n = Len(w)
  OBVIOUS
<1>5. PICK x : x = Len(L[h])
  OBVIOUS
<1>6. w \in Seq(Elms) /\ loop.seen \in Seq(Elms) /\ loop.back \in BOOLEAN /\ loop \in Loops /\ Null \notin Elms
  BY <1>3, QueueAssumption DEF LoopIs, Loops
<1>7. n \in Nat /\ k \in 1..n
  BY <1>3, <1>4, <1>6, LenProperties
<1>8. x \in Nat
  BY <1>5, ListFields DEF Linked
<1>9. /\ Len(loop.seen) = k /\ \A j \in 1..k : loop.seen[j] = w[j]
      /\ loop.next = IF k < n THEN w[k + 1] ELSE Null
      /\ n - k <= x
      /\ \A j \in k + 1..n : w[j] = L[h][IF loop.back THEN n + 1 - j ELSE x - n + j]
  BY <1>1, <1>2, <1>3, <1>4, <1>5 DEF StandsAt
<1>10. \A i \in 1..n, j \in 1..n : w[i] = w[j] => i = j
  BY <1>3, <1>4 DEF LoopIs
<1>11. \A j \in 1..n : w[j] \in Elms
  BY <1>4, <1>6, ElementOfSeq
<1>12. CASE k = n
  <2>1. loop.next = Null
    BY <1>9, <1>12
  <2>2. PICK l : l = Stand(loop, Null)
    OBVIOUS
  <2>3. l \in Loops /\ l.at = Null /\ l.seen = loop.seen /\ l.whole = w
    BY <1>3, <1>6, <2>2, StandIs
  <2>4. loop.seen = w
    BY <1>4, <1>6, <1>9, <1>12, SeqEqual
  <2> QED
    BY <1>4, <1>10, <2>1, <2>2, <2>3, <2>4 DEF LoopIs
<1>13. CASE k < n
  <2>1. k + 1 \in 1..n /\ k + 1 \in k + 1..n
    BY <1>7, <1>13
  <2>2. PICK v : v = w[k + 1]
    OBVIOUS
  <2>3. PICK i : i = IF loop.back THEN n - k ELSE x - n + (k + 1)
    OBVIOUS
  <2>4. i \in 1..x
    BY <1>7, <1>8, <1>9, <1>13, <2>3
  <2>5. loop.next = v /\ v \in Elms /\ v = L[h][i] /\ v # Null
    <3>1. n + 1 - (k + 1) = n - k
      BY <1>7
    <3>2. w[k + 1] = L[h][IF loop.back THEN n + 1 - (k + 1) ELSE x - n + (k + 1)]
      BY <1>9, <2>1
    <3> QED
      BY <1>6, <1>9, <1>11, <1>13, <2>1, <2>2, <2>3, <3>1, <3>2
  <2>6. PICK u : u = IF loop.back THEN TPrev(v) ELSE NextOf(h, v)
    OBVIOUS
  <2>7. u = IF loop.back THEN (IF i = 1 THEN Null ELSE L[h][i - 1])
            ELSE IF i < x THEN L[h][i + 1] ELSE Null
    BY <1>5, <1>6, <2>4, <2>5, <2>6, NextIs
  <2>8. u = IF k + 1 < n THEN w[(k + 1) + 1] ELSE Null
    <3>1. (IF loop.back THEN i = 1 ELSE ~(i < x)) <=> ~(k + 1 < n)
      BY <1>7, <1>8, <1>13, <2>3
    <3>2. CASE k + 1 < n
      <4>1. (k + 1) + 1 \in k + 1..n
        BY <1>7, <3>2
      <4>2. IF loop.back THEN n + 1 - ((k + 1) + 1) = i - 1 ELSE x - n + ((k + 1) + 1) = i + 1
        BY <1>7, <1>8, <2>3
      <4>3. w[(k + 1) + 1] = L[h][IF loop.back THEN n + 1 - ((k + 1) + 1) ELSE x - n + ((k + 1) + 1)]
        BY <1>9, <4>1
      <4> QED
        BY <2>7, <3>1, <3>2, <4>2, <4>3
    <3>3. CASE ~(k + 1 < n)
      BY <2>7, <3>1, <3>3
    <3> QED
      BY <3>2, <3>3
  <2>9. u \in Elms \cup {Null}
    <3>1. k + 1 < n => (k + 1) + 1 \in 1..n
      BY <1>7
    <3> QED
      BY <1>11, <2>8, <3>1
  <2>10. PICK l : l = Stand(loop, v)
    OBVIOUS
  <2>11. PICK s : s = Append(loop.seen, v)
    OBVIOUS
  <2>12. /\ l \in Loops /\ l.head = h /\ l.back = loop.back /\ l.whole = w
         /\ l.at = v /\ l.next = u /\ l.seen = s
    <3>1. u = IF v = Null THEN Null ELSE IF loop.back THEN TPrev(v) ELSE NextOf(loop.head, v)
      BY <1>1, <2>5, <2>6
    <3>2. v \in Elms \cup {Null}
      BY <2>5
    <3>3. /\ l \in Loops /\ l.head = loop.head /\ l.back = loop.back /\ l.whole = loop.whole
          /\ l.at = v /\ l.next = u
          /\ l.seen = IF v = Null THEN loop.seen ELSE Append(loop.seen, v)
      BY <1>6, <2>9, <2>10, <3>1, <3>2, StandIs
    <3> QED
      BY <1>1, <1>3, <2>5, <2>11, <3>3
  <2>13. Len(s) = k + 1 /\ \A j \in 1..k + 1 : s[j] = w[j]
    <3>1. /\ Len(s) = Len(loop.seen) + 1
          /\ \A j \in 1..Len(loop.seen) : s[j] = loop.seen[j]
          /\ s[Len(loop.seen) + 1] = v
      BY <1>6, <2>5, <2>11, AppendProperties
    <3>2. \A j \in 1..k + 1 : j \in 1..k \/ j = k + 1
      BY <1>7
    <3> QED
      BY <1>9, <2>2, <3>1, <3>2
  <2>14. n - (k + 1) <= x /\ \A j \in (k + 1) + 1..n : j \in k + 1..n
    BY <1>7, <1>8, <1>9
  <2>15. StandsAt(L, l, k + 1)
    BY <1>4, <1>5, <1>9, <2>2, <2>8, <2>12, <2>13, <2>14 DEF StandsAt
  <2>16. LoopIs(L, l)
    BY <1>4, <1>10, <2>1, <2>5, <2>12, <2>15 DEF LoopIs
  <2> QED
    BY <2>5, <2>10, <2>16
<1>14. k = n \/ k < n
  BY <1>7
<1> QED
  BY <1>12, <1>13, <1>14

LEMMA ReverseIs ==
    ASSUME NEW S, NEW s \in Seq(S)
    PROVE  /\ Reverse(s) \in Seq(S) /\ Len(Reverse(s)) = Len(s)
           /\ \A i \in 1..Len(s) : Reverse(s)[i] = s[Len(s) + 1 - i]
<1>1. PICK n : n = Len(s)
  OBVIOUS
<1>2. n \in Nat
  BY <1>1, LenProperties
<1>3. Reverse(s) = [i \in 1..n |-> s[(n - i) + 1]]
  BY <1>1 DEF Reverse
<1>4. \A i \in 1..n : (n - i) + 1 = n + 1 - i /\ n + 1 - i \in 1..n
  BY <1>2
<1>5. \A i \in 1..n : s[i] \in S
  BY <1>1, ElementOfSeq
<1>6. \A i \in 1..n : Reverse(s)[i] = s[n + 1 - i] /\ Reverse(s)[i] \in S
  BY <1>3, <1>4, <1>5
<1>7. Reverse(s) \in [1..n -> S]
  BY <1>3, <1>6
<1>8. Reverse(s) \in Seq(S) /\ Len(Reverse(s)) = n
  BY <1>2, <1>7, SeqDef, LenProperties
<1> QED
  BY <1>1, <1>6, <1>8

\* The loop begins.
LEMMA BeginIs ==
    ASSUME NEW L, Linked(L), NEW h \in Heads, NEW back \in BOOLEAN, LoopBegin(h, back)
    PROVE  LoopIs(L, loop') /\ loop'.back = back /\ (back => kind = "TAILQ")
<1>1. back => kind = "TAILQ"
  BY DEF LoopBegin
<1>2. PICK n : n = Len(L[h])
  OBVIOUS
<1>3. n \in Nat /\ L[h] \in Seq(Elms) /\ Null \notin Elms /\ \A i \in 1..n : L[h][i] \in Elms
  BY <1>2, ListFields DEF Linked
<1>4. Walk(h) = L[h]
  BY WalkIs DEF Linked
<1>5. PICK w : w = IF back THEN Reverse(Walk(h)) ELSE Walk(h)
  OBVIOUS
<1>6. /\ w \in Seq(Elms) /\ Len(w) = n
      /\ \A j \in 1..n : w[j] = L[h][IF back THEN n + 1 - j ELSE j]
  BY <1>2, <1>3, <1>4, <1>5, ReverseIs
<1>7. \A i \in 1..n, j \in 1..n : w[i] = w[j] => i = j
  <2>1. SUFFICES ASSUME NEW i \in 1..n, NEW j \in 1..n, w[i] = w[j] PROVE i = j
    OBVIOUS
  <2>2. n + 1 - i \in 1..n /\ n + 1 - j \in 1..n
    BY <1>3
  <2>3. \A a \in 1..n, b \in 1..n : L[h][a] = L[h][b] => a = b
    BY <1>2 DEF Linked, AreLists, Once
  <2>4. (IF back THEN n + 1 - i ELSE i) = (IF back THEN n + 1 - j ELSE j)
    BY <1>6, <2>1, <2>2, <2>3
  <2> QED
    BY <1>3, <2>4
<1>8. PICK v : v = IF back THEN TLast(h) ELSE FirstOf(h)
  OBVIOUS
<1>9. v = IF n = 0 THEN Null ELSE w[1]
  <2>1. n # 0 => 1 \in 1..n /\ n + 1 - 1 = n
    BY <1>3
  <2>2. CASE back
    <3>1. v = IF n = 0 THEN Null ELSE L[h][n]
      BY <1>1, <1>2, <1>8, <2>2, BackRead
    <3> QED
      BY <1>6, <2>1, <2>2, <3>1
  <2>3. CASE ~back
    <3>1. v = IF 0 < n THEN L[h][1] ELSE Null
      <4>1. 0 + 1 = 1
        OBVIOUS
      <4> QED
        BY <1>2, <1>8, <2>3, <4>1, LinksRead DEF Linked, ElmAt
    <3>2. 0 < n <=> n # 0
      BY <1>3
    <3> QED
      BY <1>6, <2>1, <2>3, <3>1, <3>2
  <2> QED
    BY <2>2, <2>3
<1>10. PICK l0 : l0 = [NoLoop EXCEPT !.head = h, !.back = back, !.whole = w]
  OBVIOUS
<1>11. /\ l0 \in Loops /\ l0.head = h /\ l0.back = back /\ l0.whole = w /\ l0.seen = <<>>
  <2>1. NoLoop \in Loops /\ NoLoop.seen = <<>>
    BY NoLoopIs DEF LoopIs, NoLoop
  <2> QED
    BY <1>6, <1>10, <2>1 DEF Loops
<1>12. loop' = Stand(l0, v)
  BY <1>5, <1>8, <1>10 DEF LoopBegin
<1>13. PICK l : l = loop'
  OBVIOUS
<1>14. CASE n = 0
  <2>1. v = Null /\ v \in Elms \cup {Null}
    BY <1>9, <1>14
  <2>2. /\ l \in Loops /\ l.back = back /\ l.whole = w /\ l.at = Null /\ l.seen = <<>>
    BY <1>11, <1>12, <1>13, <2>1, StandIs
  <2>3. w = <<>>
    BY <1>6, <1>14, EmptySeq
  <2>4. LoopIs(L, l)
    BY <1>6, <1>7, <2>2, <2>3 DEF LoopIs
  <2> QED
    BY <1>1, <1>13, <2>2, <2>4
<1>15. CASE n # 0
  <2>1. 1 \in 1..n
    BY <1>3, <1>15
  <2>2. v = w[1] /\ v \in Elms /\ v # Null
    BY <1>3, <1>6, <1>9, <1>15, <2>1, ElementOfSeq
  <2>3. PICK i : i = IF back THEN n ELSE 1
    OBVIOUS
  <2>4. i \in 1..n /\ v = L[h][i]
    <3>1. n + 1 - 1 = n /\ n \in 1..n
      BY <1>3, <1>15
    <3> QED
      BY <1>6, <2>1, <2>2, <2>3, <3>1
  <2>5. PICK u : u = IF back THEN TPrev(v) ELSE NextOf(h, v)
    OBVIOUS
  <2>6. u = IF back THEN (IF i = 1 THEN Null ELSE L[h][i - 1])
            ELSE IF i < n THEN L[h][i + 1] ELSE Null
    BY <1>1, <1>2, <2>4, <2>5, NextIs
  <2>7. u = IF 1 < n THEN w[1 + 1] ELSE Null
    <3>1. CASE 1 < n
      <4>1. 1 + 1 \in 1..n /\ n + 1 - (1 + 1) = n - 1 /\ n # 1
        BY <1>3, <3>1
      <4> QED
        BY <1>6, <2>3, <2>6, <3>1, <4>1
    <3>2. CASE ~(1 < n)
      <4>1. n = 1
        BY <1>3, <1>15, <3>2
      <4> QED
        BY <2>3, <2>6, <3>2, <4>1
    <3> QED
      BY <3>1, <3>2
  <2>8. u \in Elms \cup {Null}
    <3>1. 1 < n => 1 + 1 \in 1..n
      BY <1>3
    <3> QED
      BY <1>6, <2>7, <3>1, ElementOfSeq
  <2>9. PICK s : s = Append(l0.seen, v)
    OBVIOUS
  <2>10. Len(s) = 1 /\ s[1] = v
    BY <1>11, <2>9
  <2>11. /\ l \in Loops /\ l.head = h /\ l.back = back /\ l.whole = w
         /\ l.at = v /\ l.next = u /\ l.seen = s
    <3>1. u = IF v = Null THEN Null ELSE IF l0.back THEN TPrev(v) ELSE NextOf(l0.head, v)
      BY <1>11, <2>2, <2>5
    <3>2. v \in Elms \cup {Null}
      BY <2>2
    <3>3. l = Stand(l0, v) /\ l0 \in Loops
      BY <1>11, <1>12, <1>13
    <3>4. /\ l \in Loops /\ l.head = l0.head /\ l.back = l0.back /\ l.whole = l0.whole
          /\ l.at = v /\ l.next = u
          /\ l.seen = IF v = Null THEN l0.seen ELSE Append(l0.seen, v)
      BY <2>8, <3>1, <3>2, <3>3, StandIs
    <3> QED
      BY <1>11, <2>2, <2>9, <3>4
  <2>12. \A j \in 1 + 1..n : j \in 1..n /\ n - n + j = j
    BY <1>3
  <2>13. \A j \in 1..1 : s[j] = w[j]
    BY <2>2, <2>10
  <2>14. \A j \in 1 + 1..n : w[j] = L[h][IF back THEN n + 1 - j ELSE n - n + j]
    BY <1>6, <2>12
  <2>15. n - 1 <= n
    BY <1>3
  <2>16. StandsAt(L, l, 1)
    BY <1>2, <1>6, <2>2, <2>7, <2>10, <2>11, <2>13, <2>14, <2>15 DEF StandsAt
  <2>17. LoopIs(L, l)
    BY <1>6, <1>7, <2>1, <2>2, <2>11, <2>16 DEF LoopIs
  <2> QED
    BY <1>1, <1>13, <2>11, <2>17
<1> QED
  BY <1>14, <1>15

\* The body takes the element at hand out of the list.
LEMMA DropIs ==
    ASSUME NEW L, AreLists(L), NEW l, LoopIs(L, l), l.at # Null,
           NEW i \in 0..Len(L[l.head]) - 1, L[l.head][i + 1] = l.at
    PROVE  LoopIs(Take(L, l.head, i), l)
<1>1. PICK h \in Heads : h = l.head
  BY DEF LoopIs
<1>2. PICK k \in 1..Len(l.whole) : StandsAt(L, l, k)
  BY DEF LoopIs
<1>3. PICK w : w = l.whole
  OBVIOUS
<1>4. PICK n : n = Len(w)
  OBVIOUS
<1>5. PICK x : x = Len(L[h])
  OBVIOUS
<1>6. w \in Seq(Elms) /\ l.back \in BOOLEAN /\ l \in Loops
  BY <1>3 DEF LoopIs, Loops
<1>7. n \in Nat /\ k \in 1..n
  BY <1>3, <1>4, <1>6, LenProperties
<1>8. x \in Nat /\ i \in 0..x - 1
  BY <1>1, <1>5, ListFields
<1>9. /\ l.at = w[k] /\ n - k <= x
      /\ \A j \in k + 1..n : w[j] = L[h][IF l.back THEN n + 1 - j ELSE x - n + j]
  BY <1>1, <1>2, <1>3, <1>4, <1>5 DEF StandsAt
<1>10. \A a \in 1..n, b \in 1..n : w[a] = w[b] => a = b
  BY <1>3, <1>4 DEF LoopIs
<1>11. PICK M : M = Take(L, h, i)
  OBVIOUS
<1>12. /\ Len(M[h]) = x - 1
       /\ \A j \in 1..x - 1 : M[h][j] = IF j <= i THEN L[h][j] ELSE L[h][j + 1]
  BY <1>1, <1>5, <1>11, TakeIs
\* It is none of those that the loop has yet to pass.
<1>13. ASSUME NEW j \in k + 1..n PROVE i + 1 # IF l.back THEN n + 1 - j ELSE x - n + j
  <2>1. j \in 1..n /\ j # k
    BY <1>7
  <2>2. w[j] # w[k]
    BY <1>7, <1>10, <2>1
  <2> QED
    BY <1>1, <1>9, <2>2
<1>14. IF l.back THEN n - k <= i ELSE i + 1 <= x - n + k
  <2>1. CASE l.back
    <3>1. SUFFICES ASSUME i < n - k PROVE FALSE
      BY <1>7, <1>8, <2>1
    <3>2. n - i \in k + 1..n /\ n + 1 - (n - i) = i + 1
      BY <1>7, <1>8, <3>1
    <3> QED
      BY <1>13, <2>1, <3>2
  <2>2. CASE ~l.back
    <3>1. SUFFICES ASSUME i + 1 > x - n + k PROVE FALSE
      BY <1>7, <1>8, <2>2
    <3>2. i + 1 - (x - n) \in k + 1..n /\ x - n + (i + 1 - (x - n)) = i + 1
      BY <1>7, <1>8, <3>1
    <3> QED
      BY <1>13, <2>2, <3>2
  <2> QED
    BY <2>1, <2>2
<1>15. n - k <= x - 1
  BY <1>6, <1>7, <1>8, <1>14
<1>16. ASSUME NEW j \in k + 1..n
       PROVE  w[j] = M[h][IF l.back THEN n + 1 - j ELSE (x - 1) - n + j]
  <2>1. CASE l.back
    <3>1. n + 1 - j \in 1..x - 1 /\ n + 1 - j <= i
      BY <1>7, <1>8, <1>14, <1>15, <2>1
    <3> QED
      BY <1>9, <1>12, <2>1, <3>1
  <2>2. CASE ~l.back
    <3>1. i + 1 <= x - n + k
      BY <1>14, <2>2
    <3>2. n \in Int /\ x \in Int /\ k \in Int /\ i \in Nat /\ j \in k + 1..n
      BY <1>7, <1>8
    <3>3. (x - 1) - n + j \in 1..x - 1 /\ ~((x - 1) - n + j <= i)
      BY <3>1, <3>2
    <3>4. ((x - 1) - n + j) + 1 = x - n + j
      BY <3>2
    <3> QED
      BY <1>9, <1>12, <2>2, <3>3, <3>4
  <2> QED
    BY <2>1, <2>2
<1>17. StandsAt(M, l, k)
  BY <1>1, <1>2, <1>3, <1>4, <1>12, <1>15, <1>16 DEF StandsAt
<1>18. LoopIs(M, l)
  BY <1>2, <1>17 DEF LoopIs
<1> QED
  BY <1>1, <1>11, <1>18

----------------------------------------------------------------------------
(* The invariant, and what a step does to the lists.                       *)

\* Memory represents the lists L, and a loop is over one of them.
Represents(L) == Linked(L) /\ LoopIs(L, loop) /\ (loop.back => kind = "TAILQ")

\* What the specification of the lists says of the step.
ListStep(L, M) ==
    \E h \in Heads :
        \/ \E e \in Elms : Fresh(L, e) /\ M = Put(L, h, 0, e) /\ op' = <<"head", h, e>>
        \/ \E e \in Elms : Fresh(L, e) /\ M = Put(L, h, Len(L[h]), e) /\ op' = <<"tail", h, e>>
        \/ \E i \in 1..Len(L[h]), e \in Elms :
              Fresh(L, e) /\ M = Put(L, h, i, e) /\ op' = <<"after", L[h][i], e>>
        \/ \E i \in 0..Len(L[h]) - 1, e \in Elms :
              Fresh(L, e) /\ M = Put(L, h, i, e) /\ op' = <<"before", L[h][i + 1], e>>
        \/ \E i \in 0..Len(L[h]) - 1 : M = Take(L, h, i) /\ op' = <<"remove", h, L[h][i + 1]>>
        \/ \E i \in 0..Len(L[h]) - 1, f \in Elms :
              Fresh(L, f) /\ M = Swap(L, h, i, f) /\ op' = <<"replace", L[h][i + 1], f>>
        \/ \E g \in Heads : g # h /\ M = Joint(L, g, h) /\ op' = <<"concat", g, h>>

Goes(L, M) == Represents(M)' /\ (ListStep(L, M) \/ (M = L /\ op' = op))

LEMMA OutsideLater ==
    ASSUME NEW L, Represents(L), NEW M, LinkedNext(M), Outside
    PROVE  Represents(M)'
<1>1. Linked(M)'
  BY LinkedLater DEF Represents, Outside
<1>2. loop' = NoLoop
  BY DEF Outside
<1>3. LoopIs(M, loop')
  BY <1>2, NoLoopIs
<1>4. ~loop'.back
  BY <1>2 DEF NoLoop
<1> QED
  BY <1>1, <1>3, <1>4 DEF Represents

\* The place of an element that is in a list.
LEMMA PlaceIs ==
    ASSUME NEW L, Linked(L), NEW h \in Heads, NEW e \in Within(h)
    PROVE  \E i \in 0..Len(L[h]) - 1 : L[h][i + 1] = e
<1>1. PICK j \in 1..Len(L[h]) : L[h][j] = e
  BY WithinIs
<1>2. Len(L[h]) \in Nat
  BY ListFields DEF Linked
<1>3. j - 1 \in 0..Len(L[h]) - 1 /\ (j - 1) + 1 = j
  BY <1>2
<1> QED
  BY <1>1, <1>3

LEMMA GoesInsertHead ==
    ASSUME NEW L, Represents(L), NEW h \in Heads, NEW e \in Elms, InsertHead(h, e)
    PROVE  \E M : Goes(L, M)
<1>1. PICK M : M = Put(L, h, 0, e)
  OBVIOUS
<1>2. Fresh(L, e) /\ LinkedNext(M)
  BY <1>1, InsertHeadDoes DEF Represents
<1>3. Outside /\ op' = <<"head", h, e>>
  BY DEF InsertHead
<1>4. ListStep(L, M)
  BY <1>1, <1>2, <1>3 DEF ListStep
<1> QED
  BY <1>2, <1>3, <1>4, OutsideLater DEF Goes

LEMMA GoesInsertTail ==
    ASSUME NEW L, Represents(L), NEW h \in Heads, NEW e \in Elms, InsertTail(h, e)
    PROVE  \E M : Goes(L, M)
<1>1. PICK M : M = Put(L, h, Len(L[h]), e)
  OBVIOUS
<1>2. Fresh(L, e) /\ LinkedNext(M)
  BY <1>1, InsertTailDoes DEF Represents
<1>3. Outside /\ op' = <<"tail", h, e>>
  BY DEF InsertTail
<1>4. ListStep(L, M)
  BY <1>1, <1>2, <1>3 DEF ListStep
<1> QED
  BY <1>2, <1>3, <1>4, OutsideLater DEF Goes

LEMMA GoesInsertAfter ==
    ASSUME NEW L, Represents(L), NEW h \in Heads, NEW l \in Elms, NEW e \in Elms, InsertAfter(h, l, e)
    PROVE  \E M : Goes(L, M)
<1>1. PICK i \in 1..Len(L[h]) : L[h][i] = l
  BY WithinIs DEF Represents, InsertAfter
<1>2. PICK M : M = Put(L, h, i, e)
  OBVIOUS
<1>3. Fresh(L, e) /\ LinkedNext(M)
  <2>1. InsertAfter(h, L[h][i], e)
    BY <1>1
  <2> QED
    BY <1>2, <2>1, InsertAfterDoes DEF Represents
<1>4. Outside /\ op' = <<"after", l, e>>
  BY DEF InsertAfter
<1>5. ListStep(L, M)
  BY <1>1, <1>2, <1>3, <1>4 DEF ListStep
<1> QED
  BY <1>3, <1>4, <1>5, OutsideLater DEF Goes

LEMMA GoesInsertBefore ==
    ASSUME NEW L, Represents(L), NEW h \in Heads, NEW l \in Elms, NEW e \in Elms, InsertBefore(h, l, e)
    PROVE  \E M : Goes(L, M)
<1>1. PICK i \in 0..Len(L[h]) - 1 : L[h][i + 1] = l
  BY PlaceIs DEF Represents, InsertBefore
<1>2. PICK M : M = Put(L, h, i, e)
  OBVIOUS
<1>3. Fresh(L, e) /\ LinkedNext(M)
  <2>1. InsertBefore(h, L[h][i + 1], e)
    BY <1>1
  <2> QED
    BY <1>2, <2>1, InsertBeforeDoes DEF Represents
<1>4. Outside /\ op' = <<"before", l, e>>
  BY DEF InsertBefore
<1>5. ListStep(L, M)
  BY <1>1, <1>2, <1>3, <1>4 DEF ListStep
<1> QED
  BY <1>3, <1>4, <1>5, OutsideLater DEF Goes

LEMMA GoesExchange ==
    ASSUME NEW L, Represents(L), NEW h \in Heads, NEW e \in Elms, NEW f \in Elms, Exchange(h, e, f)
    PROVE  \E M : Goes(L, M)
<1>1. PICK i \in 0..Len(L[h]) - 1 : L[h][i + 1] = e
  BY PlaceIs DEF Represents, Exchange
<1>2. PICK M : M = Swap(L, h, i, f)
  OBVIOUS
<1>3. Fresh(L, f) /\ LinkedNext(M)
  <2>1. Exchange(h, L[h][i + 1], f)
    BY <1>1
  <2> QED
    BY <1>2, <2>1, ExchangeDoes DEF Represents
<1>4. Outside /\ op' = <<"replace", e, f>>
  BY DEF Exchange
<1>5. ListStep(L, M)
  BY <1>1, <1>2, <1>3, <1>4 DEF ListStep
<1> QED
  BY <1>3, <1>4, <1>5, OutsideLater DEF Goes

LEMMA GoesJoin ==
    ASSUME NEW L, Represents(L), NEW g \in Heads, NEW h \in Heads, Join(g, h)
    PROVE  \E M : Goes(L, M)
<1>1. PICK M : M = Joint(L, g, h)
  OBVIOUS
<1>2. g # h /\ LinkedNext(M)
  BY <1>1, JoinDoes DEF Represents
<1>3. Outside /\ op' = <<"concat", g, h>>
  BY DEF Join
<1>4. ListStep(L, M)
  BY <1>1, <1>2, <1>3 DEF ListStep
<1> QED
  BY <1>2, <1>3, <1>4, OutsideLater DEF Goes

\* A removal, by the caller or by the body of a loop.
LEMMA ExtractStep ==
    ASSUME ~RemoveMasked, NEW L, Represents(L), NEW h \in Heads, NEW e, Extract(h, e)
    PROVE  \E i \in 0..Len(L[h]) - 1 :
              L[h][i + 1] = e /\ LinkedNext(Take(L, h, i)) /\ ListStep(L, Take(L, h, i))
<1>1. e \in Within(h) /\ ~cookie /\ op' = <<"remove", h, e>>
  BY DEF Extract
<1>2. PICK i \in 0..Len(L[h]) - 1 : L[h][i + 1] = e
  BY <1>1, PlaceIs DEF Represents
<1>3. Extract(h, L[h][i + 1])
  BY <1>2
<1>4. LinkedNext(Take(L, h, i))
  BY <1>1, <1>3, ExtractDoes DEF Represents
<1>5. ListStep(L, Take(L, h, i))
  BY <1>1, <1>2 DEF ListStep
<1> QED
  BY <1>2, <1>4, <1>5

LEMMA GoesTakeOut ==
    ASSUME ~RemoveMasked, NEW L, Represents(L), NEW h \in Heads, NEW e \in Elms, TakeOut(h, e)
    PROVE  \E M : Goes(L, M)
<1>1. Outside /\ Extract(h, e)
  BY DEF TakeOut
<1>2. PICK M : LinkedNext(M) /\ ListStep(L, M)
  BY <1>1, ExtractStep
<1> QED
  BY <1>1, <1>2, OutsideLater DEF Goes

LEMMA GoesLoopDrop ==
    ASSUME ~RemoveMasked, NEW L, Represents(L), LoopDrop
    PROVE  \E M : Goes(L, M)
<1>1. loop.at # Null /\ Extract(loop.head, loop.at) /\ UNCHANGED <<kind, cookie, loop>>
  BY DEF LoopDrop
<1>2. loop.head \in Heads
  BY <1>1 DEF Represents, LoopIs
<1>3. PICK i \in 0..Len(L[loop.head]) - 1 :
            /\ L[loop.head][i + 1] = loop.at
            /\ LinkedNext(Take(L, loop.head, i)) /\ ListStep(L, Take(L, loop.head, i))
  BY <1>1, <1>2, ExtractStep
<1>4. PICK M : M = Take(L, loop.head, i)
  OBVIOUS
<1>5. LoopIs(M, loop)
  <2>1. AreLists(L) /\ LoopIs(L, loop)
    BY DEF Represents, Linked
  <2>2. PICK l : l = loop
    OBVIOUS
  <2>3. LoopIs(Take(L, l.head, i), l)
    BY <1>1, <1>3, <2>1, <2>2, DropIs
  <2> QED
    BY <1>4, <2>2, <2>3
<1>6. Linked(M)'
  BY <1>1, <1>3, <1>4, LinkedLater DEF Represents
<1>7. LoopIs(M, loop')
  BY <1>1, <1>5
<1>8. Represents(M)'
  BY <1>1, <1>6, <1>7 DEF Represents
<1> QED
  BY <1>3, <1>4, <1>8 DEF Goes

\* Steps of a loop that leave the lists alone.
LEMMA LoopLater ==
    ASSUME NEW L, Represents(L), UNCHANGED <<kind, cookie, m, op>>,
           LoopIs(L, loop'), loop'.back => kind = "TAILQ"
    PROVE  \E M : Goes(L, M)
<1>1. Linked(L)'
  BY LinkedStays DEF Represents
<1>2. Represents(L)'
  BY <1>1 DEF Represents
<1> QED
  BY <1>2 DEF Goes

LEMMA GoesLoopBegin ==
    ASSUME NEW L, Represents(L), NEW h \in Heads, NEW back \in BOOLEAN, LoopBegin(h, back)
    PROVE  \E M : Goes(L, M)
<1>1. LoopIs(L, loop') /\ loop'.back = back /\ (back => kind = "TAILQ")
  BY BeginIs DEF Represents
<1>2. UNCHANGED <<kind, cookie, m, op>>
  BY DEF LoopBegin
<1>3. loop'.back => kind = "TAILQ"
  BY <1>1
<1> QED
  BY <1>1, <1>2, <1>3, LoopLater

LEMMA GoesLoopStep ==
    ASSUME NEW L, Represents(L), LoopStep
    PROVE  \E M : Goes(L, M)
<1>1. loop.at # Null /\ loop' = Stand(loop, loop.next) /\ UNCHANGED <<kind, cookie, m, op>>
  BY DEF LoopStep
<1>2. LoopIs(L, loop')
  BY <1>1, StepIs DEF Represents
<1>3. loop \in Loops
  BY DEF Represents, LoopIs
<1>4. loop'.back = loop.back
  BY <1>1, <1>3 DEF Stand, Loops
<1>5. loop'.back => kind = "TAILQ"
  BY <1>4 DEF Represents
<1> QED
  BY <1>1, <1>2, <1>5, LoopLater

LEMMA GoesLoopEnd ==
    ASSUME NEW L, Represents(L), LoopEnd
    PROVE  \E M : Goes(L, M)
<1>1. loop' = NoLoop /\ UNCHANGED <<kind, cookie, m, op>>
  BY DEF LoopEnd
<1>2. LoopIs(L, loop')
  BY <1>1, NoLoopIs
<1>3. ~loop'.back
  BY <1>1 DEF NoLoop
<1> QED
  BY <1>1, <1>2, <1>3, LoopLater

\* Every step.
LEMMA NextGoes ==
    ASSUME ~RemoveMasked, NEW L, Represents(L), Next
    PROVE  \E M : Goes(L, M)
<1>1. CASE \E h \in Heads, e \in Elms : InsertHead(h, e) \/ InsertTail(h, e) \/ TakeOut(h, e)
  BY <1>1, GoesInsertHead, GoesInsertTail, GoesTakeOut
<1>2. CASE \E h \in Heads, l, e \in Elms : InsertAfter(h, l, e) \/ InsertBefore(h, l, e) \/ Exchange(h, l, e)
  BY <1>2, GoesInsertAfter, GoesInsertBefore, GoesExchange
<1>3. CASE \E g, h \in Heads : Join(g, h)
  BY <1>3, GoesJoin
<1>4. CASE \E h \in Heads, back \in BOOLEAN : LoopBegin(h, back)
  BY <1>4, GoesLoopBegin
<1>5. CASE LoopDrop
  BY <1>5, GoesLoopDrop
<1>6. CASE LoopStep
  BY <1>6, GoesLoopStep
<1>7. CASE LoopEnd
  BY <1>7, GoesLoopEnd
<1> QED
  BY <1>1, <1>2, <1>3, <1>4, <1>5, <1>6, <1>7 DEF Next

LEMMA StutterGoes ==
    ASSUME NEW L, Represents(L), UNCHANGED vars
    PROVE  Goes(L, L)
<1>1. kind' = kind /\ cookie' = cookie /\ m' = m /\ loop' = loop /\ op' = op
  BY DEF vars
<1>2. Linked(L)'
  BY <1>1, LinkedStays DEF Represents
<1>3. Represents(L)'
  BY <1>1, <1>2 DEF Represents
<1> QED
  BY <1>1, <1>3 DEF Goes

----------------------------------------------------------------------------
(* What a macro does to memory is what the lists promise.                  *)

\* A list as it is walked is the one that memory represents, in every state.
WalksRight == \A L : Linked(L) => [h \in Heads |-> Walk(h)] = L

LEMMA WalksAre == WalksRight
<1>1. SUFFICES ASSUME NEW L, Linked(L) PROVE [h \in Heads |-> Walk(h)] = L
  BY DEF WalksRight
<1>2. \A h \in Heads : Walk(h) = L[h]
  BY <1>1, WalkIs DEF Linked
<1>3. L \in [Heads -> Seq(Elms)]
  BY <1>1 DEF Linked, AreLists
<1> QED
  BY <1>2, <1>3

LEMMA WalksLater == WalksRight'
  BY WalksAre, PTL

LEMMA AsListsStep ==
    ASSUME NEW L, AreLists(L), NEW M, [h \in Heads |-> Walk(h)] = L, [h \in Heads |-> Walk(h)]' = M,
           ListStep(L, M)
    PROVE  AsLists!Next
<1>1. \A h \in Heads : L[h] \in Seq(Elms) /\ Len(L[h]) \in Nat /\ DOMAIN L[h] = 1..Len(L[h])
  BY ListFields, LenProperties
<1>2. ASSUME NEW h \in Heads, NEW e PROVE AsLists!In(e, h) <=> \E j \in 1..Len(L[h]) : L[h][j] = e
  BY <1>1 DEF AsLists!In, AsLists!Range
<1>3. ASSUME NEW e, Fresh(L, e) PROVE AsLists!Out(e)
  BY <1>2, <1>3 DEF AsLists!Out, Fresh
<1>4. ASSUME NEW h \in Heads, NEW j \in 1..Len(L[h]) PROVE AsLists!Position(L[h][j], h) = j
  BY <1>1 DEF AsLists!Position, AreLists, Once
<1>5. ASSUME NEW h \in Heads, NEW i, NEW e, Fresh(L, e), M = Put(L, h, i, e) PROVE AsLists!Put(h, e, i + 1)
  BY <1>3, <1>5 DEF AsLists!Put, AsLists!InsertAt, InsertAt, Put
<1>6. PICK h \in Heads :
        \/ \E e \in Elms : Fresh(L, e) /\ M = Put(L, h, 0, e) /\ op' = <<"head", h, e>>
        \/ \E e \in Elms : Fresh(L, e) /\ M = Put(L, h, Len(L[h]), e) /\ op' = <<"tail", h, e>>
        \/ \E i \in 1..Len(L[h]), e \in Elms :
              Fresh(L, e) /\ M = Put(L, h, i, e) /\ op' = <<"after", L[h][i], e>>
        \/ \E i \in 0..Len(L[h]) - 1, e \in Elms :
              Fresh(L, e) /\ M = Put(L, h, i, e) /\ op' = <<"before", L[h][i + 1], e>>
        \/ \E i \in 0..Len(L[h]) - 1 : M = Take(L, h, i) /\ op' = <<"remove", h, L[h][i + 1]>>
        \/ \E i \in 0..Len(L[h]) - 1, f \in Elms :
              Fresh(L, f) /\ M = Swap(L, h, i, f) /\ op' = <<"replace", L[h][i + 1], f>>
        \/ \E g \in Heads : g # h /\ M = Joint(L, g, h) /\ op' = <<"concat", g, h>>
  BY DEF ListStep
<1>7. ASSUME NEW i \in 0..Len(L[h]) - 1
      PROVE  /\ L[h][i + 1] \in Elms /\ AsLists!In(L[h][i + 1], h)
             /\ AsLists!Position(L[h][i + 1], h) = i + 1
  <2>1. i + 1 \in 1..Len(L[h])
    BY <1>1
  <2> QED
    BY <1>2, <1>4, <2>1, ListFields
<1>8. CASE \E e \in Elms : Fresh(L, e) /\ M = Put(L, h, 0, e) /\ op' = <<"head", h, e>>
  <2>1. PICK e \in Elms : Fresh(L, e) /\ M = Put(L, h, 0, e) /\ op' = <<"head", h, e>>
    BY <1>8
  <2>2. AsLists!Put(h, e, 0 + 1) /\ 0 + 1 = 1
    BY <1>5, <2>1
  <2>3. AsLists!InsertHead(h, e)
    BY <2>1, <2>2 DEF AsLists!InsertHead
  <2> QED
    BY <2>3 DEF AsLists!Next
<1>9. CASE \E e \in Elms : Fresh(L, e) /\ M = Put(L, h, Len(L[h]), e) /\ op' = <<"tail", h, e>>
  <2>1. PICK e \in Elms : Fresh(L, e) /\ M = Put(L, h, Len(L[h]), e) /\ op' = <<"tail", h, e>>
    BY <1>9
  <2>2. AsLists!Put(h, e, Len(L[h]) + 1)
    BY <1>5, <2>1
  <2>3. AsLists!InsertTail(h, e)
    BY <2>1, <2>2 DEF AsLists!InsertTail
  <2> QED
    BY <2>3 DEF AsLists!Next
<1>10. CASE \E i \in 1..Len(L[h]), e \in Elms :
               Fresh(L, e) /\ M = Put(L, h, i, e) /\ op' = <<"after", L[h][i], e>>
  <2>1. PICK i \in 1..Len(L[h]), e \in Elms :
               Fresh(L, e) /\ M = Put(L, h, i, e) /\ op' = <<"after", L[h][i], e>>
    BY <1>10
  <2>2. AsLists!Put(h, e, i + 1)
    BY <1>5, <2>1
  <2>3. L[h][i] \in Elms /\ AsLists!In(L[h][i], h) /\ AsLists!Position(L[h][i], h) = i
    BY <1>2, <1>4, ListFields
  <2>4. AsLists!InsertAfter(h, L[h][i], e)
    BY <2>1, <2>2, <2>3 DEF AsLists!InsertAfter
  <2> QED
    BY <2>3, <2>4 DEF AsLists!Next
<1>11. CASE \E i \in 0..Len(L[h]) - 1, e \in Elms :
               Fresh(L, e) /\ M = Put(L, h, i, e) /\ op' = <<"before", L[h][i + 1], e>>
  <2>1. PICK i \in 0..Len(L[h]) - 1, e \in Elms :
               Fresh(L, e) /\ M = Put(L, h, i, e) /\ op' = <<"before", L[h][i + 1], e>>
    BY <1>11
  <2>2. AsLists!Put(h, e, i + 1)
    BY <1>5, <2>1
  <2>3. AsLists!InsertBefore(h, L[h][i + 1], e)
    BY <1>7, <2>1, <2>2 DEF AsLists!InsertBefore
  <2> QED
    BY <1>7, <2>3 DEF AsLists!Next
<1>12. CASE \E i \in 0..Len(L[h]) - 1 : M = Take(L, h, i) /\ op' = <<"remove", h, L[h][i + 1]>>
  <2>1. PICK i \in 0..Len(L[h]) - 1 : M = Take(L, h, i) /\ op' = <<"remove", h, L[h][i + 1]>>
    BY <1>12
  <2>2. PICK e \in Elms : e = L[h][i + 1] /\ AsLists!In(e, h) /\ AsLists!Position(e, h) = i + 1
    BY <1>7
  <2>3. AsLists!TakeOut(h, e)
    BY <2>1, <2>2 DEF AsLists!TakeOut, AsLists!RemoveAt, RemoveAt, Take
  <2> QED
    BY <2>3 DEF AsLists!Next
<1>13. CASE \E i \in 0..Len(L[h]) - 1, f \in Elms :
               Fresh(L, f) /\ M = Swap(L, h, i, f) /\ op' = <<"replace", L[h][i + 1], f>>
  <2>1. PICK i \in 0..Len(L[h]) - 1, f \in Elms :
               Fresh(L, f) /\ M = Swap(L, h, i, f) /\ op' = <<"replace", L[h][i + 1], f>>
    BY <1>13
  <2>2. PICK e \in Elms : e = L[h][i + 1] /\ AsLists!In(e, h) /\ AsLists!Position(e, h) = i + 1
    BY <1>7
  <2>3. AsLists!Exchange(h, e, f)
    BY <1>3, <2>1, <2>2 DEF AsLists!Exchange, AsLists!ReplaceAt, ReplaceAt, Swap
  <2> QED
    BY <2>3 DEF AsLists!Next
<1>14. CASE \E g \in Heads : g # h /\ M = Joint(L, g, h) /\ op' = <<"concat", g, h>>
  <2>1. PICK g \in Heads : g # h /\ M = Joint(L, g, h) /\ op' = <<"concat", g, h>>
    BY <1>14
  <2>2. AsLists!Join(g, h)
    BY <2>1 DEF AsLists!Join, Joint
  <2> QED
    BY <2>2 DEF AsLists!Next
<1> QED
  BY <1>6, <1>8, <1>9, <1>10, <1>11, <1>12, <1>13, <1>14

----------------------------------------------------------------------------
(* The theorems.  Callers do not remove from an XSIMPLEQ with a cookie,    *)
(* whose *_REMOVE_* macros store pointers without the mask.                *)

\* The inductive invariant: memory represents some lists, none of which share an element.
ListsInv == \E L : Represents(L)

LEMMA InitInv == Init => Represents(NoLists)
<1>1. SUFFICES ASSUME Init PROVE Represents(NoLists)
  OBVIOUS
<1>2. loop = NoLoop
  BY <1>1 DEF Init
<1>3. ~loop.back
  BY <1>2 DEF NoLoop
<1> QED
  BY <1>1, <1>2, <1>3, InitLinked, NoLoopIs DEF Represents

LEMMA StepInv == ASSUME ~RemoveMasked PROVE ListsInv /\ [Next]_vars => ListsInv'
<1>1. SUFFICES ASSUME ListsInv, [Next]_vars PROVE ListsInv'
  OBVIOUS
<1>2. PICK L : Represents(L)
  BY <1>1 DEF ListsInv
<1>3. PICK M : Goes(L, M)
  BY <1>1, <1>2, NextGoes, StutterGoes
<1>4. Represents(M)'
  BY <1>3 DEF Goes
<1> QED
  BY <1>4 DEF ListsInv

\* Memory always represents lists without a common element.
THEOREM ListsThm == ASSUME ~RemoveMasked PROVE Spec => []ListsInv
<1>1. Init => ListsInv
  BY InitInv DEF ListsInv
<1>2. ListsInv /\ [Next]_vars => ListsInv'
  BY StepInv
<1> QED
  BY <1>1, <1>2, PTL DEF Spec

\* After any sequence of macros every pointer backwards and to an end of a list is right, so that
\* TAILQ_LAST, TAILQ_PREV and STAILQ_LAST find the elements in reverse.
THEOREM WellLinkedThm == ASSUME ~RemoveMasked PROVE Spec => []WellLinked
<1>1. ListsInv => WellLinked
  <2>1. SUFFICES ASSUME ListsInv PROVE WellLinked
    OBVIOUS
  <2>2. PICK L : Represents(L)
    BY <2>1 DEF ListsInv
  <2>3. LoopTypeOK
    BY <2>2 DEF Represents, LoopIs, Loops, LoopTypeOK
  <2> QED
    BY <2>2, <2>3, WellLinkedIs DEF Represents
<1> QED
  BY <1>1, ListsThm, PTL

\* A *_FOREACH_SAFE loop, forwards or in reverse, that may remove the element at hand passes
\* every element that the list had when it began, once and in order.
THEOREM LoopSeesAllThm == ASSUME ~RemoveMasked PROVE Spec => []LoopSeesAll
<1>1. ListsInv => LoopSeesAll
  BY DEF ListsInv, Represents, LoopIs, LoopSeesAll
<1> QED
  BY <1>1, ListsThm, PTL

\* Every macro of every kind does to the sequence of elements what its name says: the lists of
\* queue.h implement those of Lists.
THEOREM ListsSpecThm == ASSUME ~RemoveMasked PROVE Spec => ListsSpec
<1>1. Init => AsLists!Init
  <2>1. SUFFICES ASSUME Init PROVE AsLists!Init
    OBVIOUS
  <2>2. [h \in Heads |-> Walk(h)] = NoLists
    BY <2>1, InitInv, WalksAre DEF WalksRight, Represents
  <2>3. op = <<"init">>
    BY <2>1 DEF Init
  <2> QED
    BY <2>2, <2>3 DEF AsLists!Init, NoLists
<1>2. ListsInv /\ [Next]_vars => [AsLists!Next]_<<[h \in Heads |-> Walk(h)], op>>
  <2>1. SUFFICES ASSUME ListsInv, [Next]_vars
                 PROVE  [AsLists!Next]_<<[h \in Heads |-> Walk(h)], op>>
    OBVIOUS
  <2>2. PICK L : Represents(L)
    BY <2>1 DEF ListsInv
  <2>3. PICK M : Goes(L, M)
    BY <2>1, <2>2, NextGoes, StutterGoes
  <2>4. AreLists(L) /\ [h \in Heads |-> Walk(h)] = L
    BY <2>2, WalksAre DEF WalksRight, Represents, Linked
  <2>5. [h \in Heads |-> Walk(h)]' = M
    BY <2>3, WalksLater DEF WalksRight, Goes, Represents
  <2>6. CASE ListStep(L, M)
    BY <2>4, <2>5, <2>6, AsListsStep
  <2>7. CASE M = L /\ op' = op
    BY <2>4, <2>5, <2>7
  <2> QED
    BY <2>3, <2>6, <2>7 DEF Goes
<1> QED
  BY <1>1, <1>2, ListsThm, PTL DEF Spec, ListsSpec, AsLists!Spec
=============================================================================
