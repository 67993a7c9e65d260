---------------------------- MODULE ReexecProofs ----------------------------
(***************************************************************************)
(* Proofs about Reexec: the path that readlink keeps is that of the        *)
(* program, and a program that executes /proc/self/exe runs itself, for    *)
(* any programs, arguments, environments and preloads, however the threads *)
(* take turns and whatever fails, as long as no thread uses the path while *)
(* another fills it.                                                       *)
(***************************************************************************)
EXTENDS Reexec, TLAPS, SequenceTheorems, NaturalsInduction, WellFoundedInduction

\* What the linker is told before the program fits into the buffer for the command line,
\* with the path of the program: each word, and the byte that ends it.
Fits ==
    \A e \in Envs, argv \in Argvs, path \in DOMAIN Programs :
        Len(LinkerPath) + Len(Joined(e)) + Len(argv[1]) + Len(path) + 5 + 8 <= CmdSize

----------------------------------------------------------------------------
(* Strings.                                                                *)

\* STRING, and the literals of the module, which the provers do not know to be in it.
Chars == STRING \cup {Nul, ":", "--preload", "--library-path", "libs", "--argv0", "--"}

Texts == {w \in Seq(Chars) : w # <<>> /\ Len(w) < PathMax /\ \A i \in DOMAIN w : w[i] # Nul}

Arrays == {a \in [0 .. PathMax - 1 -> Chars] : a[PathMax - 1] = Nul}

\* The array begins with the bytes of w, and then a NUL.
Begins(a, w) == \A i \in 1 .. Len(w) : a[i - 1] = w[i]
Holding(a, w) == Begins(a, w) /\ a[Len(w)] = Nul

LEMMA Wider == ASSUME NEW S, NEW T, S \subseteq T, NEW w \in Seq(S) PROVE w \in Seq(T)
<1>1. Len(w) \in Nat /\ w \in [1 .. Len(w) -> S]
  OBVIOUS
<1>2. w \in [1 .. Len(w) -> T]
  BY <1>1
<1> QED
  BY <1>1, <1>2

LEMMA LeastIs == ASSUME NEW T, T \subseteq Nat, T # {} PROVE \E x \in T : \A y \in T : x <= y
<1>1. PICK x \in T : \A y \in T : ~(<<y, x>> \in OpToRel(<, Nat))
  BY NatLessThanWellFounded, WFMin
<1>2. \A y \in T : ~(y < x)
  BY <1>1 DEF OpToRel
<1> QED
  BY <1>2

\* The paths of the program, the linker and the loader fit into the cache.
LEMMA PathsAre ==
    /\ DOMAIN Programs \cup {LinkerPath, LinkerReal, LoaderPath} \subseteq Texts
    /\ LinkerReal \notin DOMAIN Programs /\ LoaderPath \notin DOMAIN Programs
    /\ PathMax \in Nat /\ CmdSize \in Nat /\ PathMax > 0
<1>1. ASSUME NEW w \in DOMAIN Programs \cup {LinkerPath, LinkerReal, LoaderPath} PROVE w \in Texts
  <2>1. w \in Seq(STRING) /\ w # <<>> /\ Len(w) < PathMax /\ \A i \in DOMAIN w : w[i] # Nul
    BY ReexecAssumption
  <2>2. w \in Seq(Chars)
    <3>1. STRING \subseteq Chars
      BY DEF Chars
    <3> QED
      BY <2>1, <3>1, Wider
  <2> QED
    BY <2>1, <2>2 DEF Texts
<1>2. Len(LinkerReal) \in Nat /\ Len(LinkerReal) < PathMax
  BY ReexecAssumption
<1> QED
  BY <1>1, <1>2, ReexecAssumption

LEMMA TextIs ==
    ASSUME NEW a \in Arrays
    PROVE  /\ \A w \in Texts : Holding(a, w) => Text(a) = w
           /\ a[0] = Nul => Text(a) = <<>>
<1>0. PathMax \in Nat /\ PathMax > 0 /\ DOMAIN a = 0 .. PathMax - 1
  BY PathsAre DEF Arrays
<1>1. ASSUME NEW n \in DOMAIN a, a[n] = Nul, \A j \in 0 .. n - 1 : a[j] # Nul
      PROVE  Text(a) = [i \in 1 .. n |-> a[i - 1]]
  <2> DEFINE c == CHOOSE i \in DOMAIN a : a[i] = Nul /\ \A j \in 0 .. i - 1 : a[j] # Nul
  <2>1. c \in DOMAIN a /\ a[c] = Nul /\ \A j \in 0 .. c - 1 : a[j] # Nul
    BY <1>1
  <2>2. c = n
    <3>1. ~(c < n)
      BY <1>0, <1>1, <2>1
    <3>2. ~(n < c)
      BY <1>0, <1>1, <2>1
    <3> QED
      BY <1>0, <1>1, <2>1, <3>1, <3>2
  <2>3. Text(a) = [i \in 1 .. c |-> a[i - 1]]
    BY DEF Text
  <2> QED
    BY <2>2, <2>3
<1>2. ASSUME NEW w \in Texts, Holding(a, w) PROVE Text(a) = w
  <2>1. w \in Seq(Chars) /\ Len(w) \in Nat /\ Len(w) < PathMax /\ DOMAIN w = 1 .. Len(w)
    BY DEF Texts
  <2>2. Text(a) = [i \in 1 .. Len(w) |-> a[i - 1]]
    <3>1. Len(w) \in DOMAIN a /\ a[Len(w)] = Nul
      BY <1>0, <1>2, <2>1 DEF Holding
    <3>2. ASSUME NEW j \in 0 .. Len(w) - 1 PROVE a[j] # Nul
      <4>1. j + 1 \in 1 .. Len(w) /\ (j + 1) - 1 = j
        BY <2>1
      <4>2. a[j] = w[j + 1] /\ w[j + 1] # Nul
        BY <1>2, <2>1, <4>1 DEF Holding, Begins, Texts
      <4> QED
        BY <4>2
    <3> QED
      BY <1>1, <3>1, <3>2
  <2>3. \A i \in 1 .. Len(w) : a[i - 1] = w[i]
    BY <1>2 DEF Holding, Begins
  <2>4. w = [i \in 1 .. Len(w) |-> w[i]]
    BY <2>1
  <2> QED
    BY <2>2, <2>3, <2>4
<1>3. ASSUME a[0] = Nul PROVE Text(a) = <<>>
  <2>1. Text(a) = [i \in 1 .. 0 |-> a[i - 1]]
    BY <1>0, <1>1, <1>3
  <2>2. \A i \in 1 .. 0 : FALSE
    OBVIOUS
  <2> QED
    BY <2>1, <2>2
<1> QED
  BY <1>2, <1>3

\* What a string followed by a NUL is.
LEMMA EndedIs ==
    ASSUME NEW S, NEW w \in Seq(S), NEW x \in S
    PROVE  /\ DOMAIN Append(w, x) = 1 .. Len(w) + 1 /\ Append(w, x)[Len(w) + 1] = x
           /\ \A i \in 1 .. Len(w) : Append(w, x)[i] = w[i]
<1>1. /\ Append(w, x) \in Seq(S) /\ Len(Append(w, x)) = Len(w) + 1
      /\ \A i \in 1 .. Len(w) : Append(w, x)[i] = w[i]
      /\ Append(w, x)[Len(w) + 1] = x
  BY AppendProperties
<1> QED
  BY <1>1

\* Writing a path into the array, with and without a NUL behind it.
LEMMA PutIs ==
    ASSUME NEW a \in Arrays, NEW w \in Texts
    PROVE  /\ Put(a, 0, w) \in Arrays /\ Begins(Put(a, 0, w), w)
           /\ \A j \in Len(w) .. PathMax - 1 : Put(a, 0, w)[j] = a[j]
           /\ Put(a, 0, Append(w, Nul)) \in Arrays /\ Holding(Put(a, 0, Append(w, Nul)), w)
           /\ [Put(a, 0, w) EXCEPT ![Len(w)] = Nul] = Put(a, 0, Append(w, Nul))
<1>0. PICK M, n, z : M = PathMax - 1 /\ n = Len(w) /\ z = Nul
  OBVIOUS
<1>1. /\ M \in Nat /\ n \in Nat /\ n > 0 /\ n <= M /\ z \in Chars
      /\ DOMAIN w = 1 .. n /\ w \in Seq(Chars) /\ \A i \in 1 .. n : w[i] \in Chars
  <2>1. PathMax \in Nat /\ PathMax > 0 /\ M \in Nat
    BY <1>0, PathsAre
  <2>2. w \in Seq(Chars) /\ w # <<>> /\ n < PathMax
    BY <1>0 DEF Texts
  <2>3. n \in Nat /\ n > 0 /\ DOMAIN w = 1 .. n
    BY <1>0, <2>2
  <2>4. Nul \in Chars
    BY DEF Chars
  <2>5. /\ z \in Chars /\ n <= M
        /\ \A i \in 1 .. n : w[i] \in Chars
    BY <1>0, <2>1, <2>2, <2>3, <2>4
  <2> QED
    BY <2>1, <2>2, <2>3, <2>5
<1>2. a \in [0 .. M -> Chars] /\ a[M] = z
  BY <1>0 DEF Arrays
<1> DEFINE v == Append(w, z)
           p == Put(a, 0, w)
           q == Put(a, 0, v)
<1>3. DOMAIN v = 1 .. n + 1 /\ v[n + 1] = z /\ \A i \in 1 .. n : v[i] = w[i]
  <2>1. w \in Seq(Chars) /\ z \in Chars
    BY <1>1
  <2>2. /\ DOMAIN v = 1 .. Len(w) + 1 /\ v[Len(w) + 1] = z
        /\ \A i \in 1 .. Len(w) : v[i] = w[i]
    BY <2>1, EndedIs
  <2> QED
    BY <1>0, <2>2
<1> HIDE DEF v
<1>4. p = [i \in 0 .. M |-> IF i + 1 \in 1 .. n THEN w[i + 1] ELSE a[i]]
  <2>1. p = [i \in 0 .. M |-> IF i - 0 + 1 \in 1 .. n THEN w[i - 0 + 1] ELSE a[i]]
    BY <1>1, <1>2 DEF Put
  <2>2. \A i \in 0 .. M : i - 0 + 1 = i + 1
    BY <1>1
  <2> QED
    BY <2>1, <2>2
<1>5. q = [i \in 0 .. M |-> IF i + 1 \in 1 .. n + 1 THEN v[i + 1] ELSE a[i]]
  <2>1. q = [i \in 0 .. M |-> IF i - 0 + 1 \in 1 .. n + 1 THEN v[i - 0 + 1] ELSE a[i]]
    BY <1>2, <1>3 DEF Put
  <2>2. \A i \in 0 .. M : i - 0 + 1 = i + 1
    BY <1>1
  <2> QED
    BY <2>1, <2>2
<1> HIDE DEF p, q
<1>6. p \in [0 .. M -> Chars] /\ p[M] = z
  <2>1. \A i \in 0 .. M : p[i] \in Chars
    BY <1>1, <1>2, <1>4
  <2> QED
    BY <1>1, <1>2, <1>4, <2>1
<1>7. /\ q[n] = z
      /\ \A i \in 0 .. n - 1 : q[i] = w[i + 1] /\ p[i] = w[i + 1]
      /\ \A i \in n + 1 .. M : q[i] = a[i]
      /\ \A i \in n .. M : p[i] = a[i]
  <2>1. /\ n \in 0 .. M /\ n + 1 \in 1 .. n + 1
        /\ \A i \in 0 .. n - 1 : i \in 0 .. M /\ i + 1 \in 1 .. n /\ i + 1 \in 1 .. n + 1
        /\ \A i \in n + 1 .. M : i \in 0 .. M /\ i + 1 \notin 1 .. n + 1
        /\ \A i \in n .. M : i \in 0 .. M /\ i + 1 \notin 1 .. n
    BY <1>1
  <2>2. q[n] = v[n + 1]
    BY <1>5, <2>1
  <2>3. \A i \in 0 .. n - 1 : q[i] = v[i + 1] /\ p[i] = w[i + 1]
    BY <1>4, <1>5, <2>1
  <2>4. \A i \in n + 1 .. M : q[i] = a[i]
    BY <1>5, <2>1
  <2>5. \A i \in n .. M : p[i] = a[i]
    BY <1>4, <2>1
  <2> QED
    BY <1>3, <2>1, <2>2, <2>3, <2>4, <2>5
<1>8. ASSUME NEW i \in 0 .. M PROVE i \in 0 .. n - 1 \/ i = n \/ i \in n + 1 .. M
  BY <1>1
<1>9. q \in [0 .. M -> Chars] /\ q[M] = z
  <2>1. \A i \in 0 .. M : q[i] \in Chars
    <3>1. \A i \in 0 .. n - 1 : i + 1 \in 1 .. n
      BY <1>1
    <3>2. \A i \in 0 .. M : a[i] \in Chars
      BY <1>2
    <3> QED
      BY <1>1, <1>7, <1>8, <3>1, <3>2
  <2>2. q[M] = z
    <3>1. n = M \/ M \in n + 1 .. M
      BY <1>1
    <3> QED
      BY <1>2, <1>7, <3>1
  <2> QED
    BY <1>5, <2>1, <2>2
<1>10. [p EXCEPT ![n] = z] = q
  <2>1. \A i \in 0 .. M : q[i] = IF i = n THEN z ELSE p[i]
    <3>1. \A i \in n + 1 .. M : i \in n .. M /\ i # n
      BY <1>1
    <3>2. \A i \in 0 .. n - 1 : i # n
      BY <1>1
    <3> QED
      BY <1>7, <1>8, <3>1, <3>2
  <2>2. /\ p \in [0 .. M -> Chars] /\ q = [i \in 0 .. M |-> q[i]]
        /\ [p EXCEPT ![n] = z] = [i \in 0 .. M |-> IF i = n THEN z ELSE p[i]]
    BY <1>5, <1>6
  <2> QED
    BY <2>1, <2>2
<1>11. \A i \in 1 .. n : p[i - 1] = w[i] /\ q[i - 1] = w[i]
  <2>1. \A i \in 1 .. n : i - 1 \in 0 .. n - 1 /\ (i - 1) + 1 = i
    BY <1>1
  <2> QED
    BY <1>7, <2>1
<1> QED
  BY <1>0, <1>6, <1>7, <1>9, <1>10, <1>11 DEF p, q, v, Arrays, Begins, Holding

----------------------------------------------------------------------------
(* The list of preloads and the command line of the linker.                *)

LEMMA ConcatIs ==
    ASSUME NEW S, NEW u \in Seq(S), NEW w \in Seq(S)
    PROVE  u \o w \in Seq(S) /\ Len(u \o w) = Len(u) + Len(w)
  OBVIOUS

LEMMA LongIs ==
    ASSUME NEW S, NEW w \in Seq(S), Len(w) > 1, NEW c
    PROVE  w # <<>> /\ w # <<c>>
<1>1. PICK n : n = Len(w)
  OBVIOUS
<1>2. n # 0 /\ n # 1
  BY <1>1
<1>3. Len(<<c>>) = 1
  OBVIOUS
<1> QED
  BY <1>1, <1>2, <1>3

LEMMA WithIs ==
    ASSUME NEW list \in Seq(Chars), NEW w \in Seq(Chars)
    PROVE  /\ With(list, w) \in Seq(Chars)
           /\ w # <<>> /\ list # <<>> => Len(With(list, w)) > 1
           /\ w = <<>> => With(list, w) = list
<1>1. CASE w = <<>>
  BY <1>1 DEF With
<1>2. CASE w # <<>>
  <2> DEFINE colon == <<":">>
  <2>1. colon \in Seq(Chars) /\ Len(colon) = 1
    BY DEF Chars
  <2> HIDE DEF colon
  <2>2. list \o colon \in Seq(Chars) /\ Len(list \o colon) = Len(list) + 1
    BY <2>1, ConcatIs
  <2>3. (list \o colon) \o w \in Seq(Chars) /\ Len((list \o colon) \o w) = Len(list) + 1 + Len(w)
    BY <2>2, ConcatIs
  <2>4. Len(w) \in Nat /\ Len(w) > 0 /\ Len(list) \in Nat
    BY <1>2
  <2>5. With(list, w) = (list \o colon) \o w
    BY <1>2 DEF With, colon
  <2> QED
    BY <1>2, <2>3, <2>4, <2>5
<1> QED
  BY <1>1, <1>2

\* The list of preloads is a string, and none that could be taken for the "--".
LEMMA PreloadsAre ==
    ASSUME NEW e \in Envs
    PROVE  /\ Joined(e) \in Seq(Chars) /\ Joined(e) # <<"--">>
           /\ PreloadList(e) # Failure => PreloadList(e) = Joined(e)
<1> DEFINE first == Path(e.core, Core)
           second == With(first, e.nvidia)
<1>1. e.core \in Seq(STRING) /\ e.nvidia \in Seq(STRING) /\ e.user \in Seq(STRING) /\ Core \in Seq(STRING)
      /\ Core # <<>>
  BY ReexecAssumption
<1>2. e.core \in Seq(Chars) /\ e.nvidia \in Seq(Chars) /\ e.user \in Seq(Chars) /\ Core \in Seq(Chars)
  <2>1. STRING \subseteq Chars
    BY DEF Chars
  <2> QED
    BY <1>1, <2>1, Wider
<1>3. first \in Seq(Chars) /\ first # <<>> /\ first # <<"--">>
  BY <1>1, <1>2, DashesAssumption DEF Path
<1> HIDE DEF first
<1>4. /\ second \in Seq(Chars)
      /\ e.nvidia # <<>> => Len(second) > 1
      /\ e.nvidia = <<>> => second = first
  BY <1>2, <1>3, WithIs
<1> HIDE DEF second
<1>0. PICK c, d : c = "--" /\ d = <<c>>
  OBVIOUS
<1>5. second # <<>> /\ second # d
  <2>1. \A w \in Seq(Chars) : Len(w) > 1 => w # <<>> /\ w # d
    BY <1>0, LongIs
  <2> QED
    BY <1>0, <1>3, <1>4, <2>1
<1>6. /\ With(second, e.user) \in Seq(Chars)
      /\ e.user # <<>> => Len(With(second, e.user)) > 1
      /\ e.user = <<>> => With(second, e.user) = second
  BY <1>2, <1>4, <1>5, WithIs
<1>7. Joined(e) = With(second, e.user)
  BY DEF Joined, first, second
<1>8. Joined(e) \in Seq(Chars) /\ Joined(e) # <<"--">>
  <2>1. \A w \in Seq(Chars) : Len(w) > 1 => w # d
    BY <1>0, LongIs
  <2> QED
    BY <1>0, <1>5, <1>6, <1>7, <2>1
<1>9. PreloadList(e) # Failure => PreloadList(e) = Joined(e)
  BY DEF PreloadList
<1> QED
  BY <1>8, <1>9

LEMMA ArgvIs ==
    ASSUME NEW argv \in Argvs
    PROVE  /\ argv \in Seq(Seq(Chars)) /\ argv # <<>> /\ argv[1] \in Seq(Chars)
           /\ argv[1] # <<"--">> /\ Len(argv) \in Nat \ {0}
<1>1. argv \in Seq(Seq(STRING)) /\ argv # <<>> /\ argv[1] # <<"--">>
  BY ReexecAssumption
<1>2. Seq(STRING) \subseteq Seq(Chars)
  <2>1. STRING \subseteq Chars
    BY DEF Chars
  <2> QED
    BY <2>1, Wider
<1>3. argv \in Seq(Seq(Chars))
  BY <1>1, <1>2, Wider
<1> QED
  BY <1>1, <1>3

\* Nine words before others.
LEMMA NineIs ==
    ASSUME NEW S, NEW nine \in Seq(S), NEW rest \in Seq(S), Len(nine) = 9
    PROVE  /\ nine \o rest \in Seq(S) /\ Len(nine \o rest) = 9 + Len(rest) /\ Len(rest) \in Nat
           /\ \A k \in 1 .. 9 : (nine \o rest)[k] = nine[k]
           /\ SubSeq(nine \o rest, 10, Len(nine \o rest)) = rest
<1>0. PICK line : line = nine \o rest
  OBVIOUS
<1>1. line \in Seq(S) /\ Len(line) = Len(nine) + Len(rest)
  BY <1>0, ConcatIs
<1>2. \A k \in 1 .. Len(nine) + Len(rest) :
          line[k] = IF k <= Len(nine) THEN nine[k] ELSE rest[k - Len(nine)]
  BY <1>0, ConcatProperties
<1>3. PICK n : n = Len(rest)
  OBVIOUS
<1>4. n \in Nat /\ line \in Seq(S) /\ Len(line) = 9 + n
  BY <1>1, <1>3
<1>5. \A k \in 1 .. 9 : line[k] = nine[k]
  BY <1>2, <1>3, <1>4
<1>6. \A k \in 1 .. n : line[9 + k] = rest[k]
  BY <1>2, <1>3, <1>4
<1>7. SubSeq(line, 10, Len(line)) = rest
  <2>1. \A k \in 10 .. 9 + n : line[k] \in S
    <3>1. DOMAIN line = 1 .. 9 + n /\ \A k \in DOMAIN line : line[k] \in S
      <4>1. line \in [1 .. Len(line) -> S]
        BY <1>4
      <4> QED
        BY <1>4, <4>1
    <3>2. \A k \in 10 .. 9 + n : k \in 1 .. 9 + n
      BY <1>4
    <3> QED
      BY <3>1, <3>2
  <2> DEFINE sub == SubSeq(line, 10, 9 + n)
  <2>2. /\ sub \in Seq(S)
        /\ Len(sub) = IF 10 <= 9 + n THEN 9 + n - 10 + 1 ELSE 0
        /\ \A k \in 1 .. 9 + n - 10 + 1 : sub[k] = line[10 + k - 1]
    BY <1>4, <2>1, SubSeqProperties
  <2> HIDE DEF sub
  <2>3. Len(sub) = n
    BY <1>4, <2>2
  <2>4. \A k \in 1 .. n : sub[k] = rest[k]
    <3>1. \A k \in 1 .. n : k \in 1 .. 9 + n - 10 + 1 /\ 10 + k - 1 = 9 + k
      BY <1>4
    <3> QED
      BY <1>6, <2>2, <3>1
  <2>5. sub = rest
    <3>1. sub \in Seq(S) /\ Len(sub) = Len(rest) /\ \A k \in 1 .. Len(sub) : sub[k] = rest[k]
      BY <1>3, <2>2, <2>3, <2>4
    <3> QED
      BY <3>1, SeqEqual
  <2> QED
    BY <1>4, <2>5 DEF sub
<1> QED
  BY <1>0, <1>3, <1>4, <1>5, <1>7

LEMMA LinkerIs == LinkerPath \in Seq(Chars)
  BY PathsAre DEF Texts

LEMMA WordsAre ==
    {"nul", ":", "--preload", "--library-path", "libs", "--argv0", "--"} \subseteq Chars
  BY DEF Chars, Nul

\* The words of a command line of the linker.
WordsOf(line, pre, target, argv) ==
    /\ target \in Seq(Chars) => line \in Seq(Seq(Chars))
    /\ Len(line) \in Nat /\ Len(line) >= 9 /\ DOMAIN line = 1 .. Len(line)
    /\ line[1] = LinkerPath /\ line[2] = <<"--preload">> /\ line[3] = pre
    /\ line[4] = <<"--library-path">> /\ line[5] = <<"libs">> /\ line[6] = <<"--argv0">>
    /\ line[7] = argv[1] /\ line[8] = <<"--">> /\ line[9] = target
    /\ <<line[7]>> \o SubSeq(line, 10, Len(line)) = argv

LEMMA LineIs ==
    ASSUME NEW pre \in Seq(Chars), NEW target, NEW argv \in Argvs
    PROVE  WordsOf(NewArgv(pre, target, argv), pre, target, argv)
<1>0. PICK line : line = NewArgv(pre, target, argv)
  OBVIOUS
<1>1. PICK b, d, e, f, h : /\ b = <<"--preload">> /\ d = <<"--library-path">> /\ e = <<"libs">>
                           /\ f = <<"--argv0">> /\ h = <<"--">>
  OBVIOUS
<1>2. b \in Seq(Chars) /\ d \in Seq(Chars) /\ e \in Seq(Chars) /\ f \in Seq(Chars) /\ h \in Seq(Chars)
  BY <1>1, WordsAre
<1>3. argv \in Seq(Seq(Chars)) /\ argv # <<>> /\ argv[1] \in Seq(Chars)
  BY ArgvIs
<1>4. PICK rest : rest = Tail(argv)
  OBVIOUS
<1>5. Head(argv) = argv[1] /\ rest \in Seq(Seq(Chars)) /\ argv = <<argv[1]>> \o rest
  BY <1>3, <1>4
<1>6. line = <<LinkerPath, b, pre, d, e, f, argv[1], h, target>> \o rest
  BY <1>0, <1>1, <1>4, <1>5 DEF NewArgv
<1>7. /\ target \in Seq(Chars) => line \in Seq(Seq(Chars))
      /\ Len(line) \in Nat /\ DOMAIN line = 1 .. Len(line) /\ Len(line) = 9 + Len(rest) /\ Len(rest) \in Nat
      /\ line[1] = LinkerPath /\ line[2] = b /\ line[3] = pre /\ line[4] = d /\ line[5] = e
      /\ line[6] = f /\ line[7] = argv[1] /\ line[8] = h /\ line[9] = target
      /\ SubSeq(line, 10, Len(line)) = rest
  <2>1. PICK S, g : S = Seq(Chars) \cup {target} /\ g = argv[1]
    OBVIOUS
  <2> DEFINE nine == <<LinkerPath, b, pre, d, e, f, g, h, target>>
  <2>2. /\ LinkerPath \in S /\ b \in S /\ pre \in S /\ d \in S /\ e \in S /\ f \in S /\ g \in S
        /\ h \in S /\ target \in S /\ rest \in Seq(S)
    <3>1. Seq(Chars) \subseteq S
      BY <2>1
    <3>2. rest \in Seq(S)
      BY <1>5, <3>1, Wider
    <3> QED
      BY <1>2, <1>3, <2>1, <3>1, <3>2, LinkerIs
  <2>3. line = nine \o rest
    BY <1>6, <2>1
  <2>4. /\ nine \in Seq(S) /\ Len(nine) = 9
        /\ nine[1] = LinkerPath /\ nine[2] = b /\ nine[3] = pre /\ nine[4] = d /\ nine[5] = e
        /\ nine[6] = f /\ nine[7] = g /\ nine[8] = h /\ nine[9] = target
    BY <2>2
  <2> HIDE DEF nine
  <2>5. /\ line \in Seq(S) /\ Len(line) = 9 + Len(rest) /\ Len(rest) \in Nat
        /\ \A k \in 1 .. 9 : line[k] = nine[k]
        /\ SubSeq(line, 10, Len(line)) = rest
    <3>1. /\ nine \o rest \in Seq(S) /\ Len(nine \o rest) = 9 + Len(rest) /\ Len(rest) \in Nat
          /\ \A k \in 1 .. 9 : (nine \o rest)[k] = nine[k]
          /\ SubSeq(nine \o rest, 10, Len(nine \o rest)) = rest
      BY <2>2, <2>4, NineIs
    <3> QED
      BY <2>3, <3>1
  <2>6. \A k \in {1, 2, 3, 4, 5, 6, 7, 8, 9} : k \in 1 .. 9
    OBVIOUS
  <2>7. /\ line[1] = LinkerPath /\ line[2] = b /\ line[3] = pre /\ line[4] = d /\ line[5] = e
        /\ line[6] = f /\ line[7] = g /\ line[8] = h /\ line[9] = target
    BY <2>4, <2>5, <2>6
  <2>8. target \in Seq(Chars) => S = Seq(Chars)
    BY <2>1
  <2>9. Len(line) \in Nat /\ DOMAIN line = 1 .. Len(line)
    BY <2>5
  <2> QED
    BY <2>1, <2>5, <2>7, <2>8, <2>9
<1>8. Len(line) \in Nat /\ Len(line) >= 9 /\ DOMAIN line = 1 .. Len(line)
  BY <1>7
<1>9. <<line[7]>> \o SubSeq(line, 10, Len(line)) = argv
  BY <1>5, <1>7
<1>10. WordsOf(line, pre, target, argv)
  BY <1>1, <1>7, <1>8, <1>9 DEF WordsOf
<1> QED
  BY <1>0, <1>10

----------------------------------------------------------------------------
(* The word that target_from_cmdline finds.                                *)

\* f says where the first n words start; one more, if n > 0, ends them.
Counts(f, line, n) ==
    f = [i \in 1 .. n |-> IF i = 1 THEN 0 ELSE f[i - 1] + Len(line[i - 1]) + 1]

LEMMA CountsExist == ASSUME NEW line PROVE \A n \in Nat : \E f : Counts(f, line, n)
<1> DEFINE Missing == {n \in Nat : ~ \E f : Counts(f, line, n)}
<1>1. ASSUME NEW n \in Missing, \A m \in Missing : n <= m PROVE FALSE
  <2>1. n \in Nat /\ ~ \E f : Counts(f, line, n)
    OBVIOUS
  <2>2. CASE n = 0
    <3> DEFINE f == [i \in 1 .. 0 |-> 0]
    <3>1. Counts(f, line, 0)
      <4>1. \A i \in 1 .. 0 : FALSE
        OBVIOUS
      <4> QED
        BY <4>1 DEF Counts
    <3> QED
      BY <2>1, <2>2, <3>1
  <2>3. CASE n > 0
    <3>1. n - 1 \in Nat /\ n - 1 \notin Missing
      BY <1>1, <2>1, <2>3
    <3>2. PICK f : Counts(f, line, n - 1)
      BY <3>1
    <3> DEFINE next == IF n = 1 THEN 0 ELSE f[n - 1] + Len(line[n - 1]) + 1
               g == [i \in 1 .. n |-> IF i = n THEN next ELSE f[i]]
               h == [i \in 1 .. n |-> IF i = 1 THEN 0 ELSE g[i - 1] + Len(line[i - 1]) + 1]
    <3>3. \A i \in 1 .. n - 1 : f[i] = IF i = 1 THEN 0 ELSE f[i - 1] + Len(line[i - 1]) + 1
      BY <3>2 DEF Counts
    <3>4. \A i \in 1 .. n : g[i] = h[i]
      <4>1. TAKE i \in 1 .. n
      <4>2. CASE i = 1
        <5>1. h[i] = 0
          BY <4>2
        <5>2. g[i] = 0
          <6>1. CASE n = 1
            BY <4>2, <6>1
          <6>2. CASE n # 1
            <7>1. 1 \in 1 .. n - 1
              BY <2>1, <2>3, <6>2
            <7>2. f[1] = 0
              BY <3>3, <7>1
            <7> QED
              BY <4>2, <6>2, <7>2
          <6> QED
            BY <6>1, <6>2
        <5> QED
          BY <5>1, <5>2
      <4>3. CASE i # 1
        <5>1. i - 1 \in 1 .. n /\ i - 1 # n /\ (i # n => i \in 1 .. n - 1)
          BY <2>1, <4>3
        <5>2. g[i - 1] = f[i - 1]
          BY <5>1
        <5>3. h[i] = f[i - 1] + Len(line[i - 1]) + 1
          BY <4>3, <5>2
        <5>4. CASE i = n
          BY <4>3, <5>3, <5>4
        <5>5. CASE i # n
          BY <3>3, <4>3, <5>1, <5>3, <5>5
        <5> QED
          BY <5>4, <5>5
      <4> QED
        BY <4>2, <4>3
    <3>5. g = h
      BY <3>4
    <3>6. Counts(g, line, n)
      BY <3>5 DEF Counts
    <3> QED
      BY <2>1, <3>6
  <2> QED
    BY <2>1, <2>2, <2>3
<1>2. Missing = {}
  <2>1. CASE Missing # {}
    BY <1>1, <2>1, LeastIs
  <2> QED
    BY <2>1
<1> QED
  BY <1>2

LEMMA StartsAre ==
    ASSUME NEW line \in Seq(Seq(Chars)), NEW start, start = Starts(line)
    PROVE  /\ start[1] = 0
           /\ \A i \in 1 .. Len(line) : start[i + 1] = start[i] + Len(line[i]) + 1
<1>0. PICK n : n = Len(line) + 1
  OBVIOUS
<1>1. n \in Nat /\ n > 0
  BY <1>0
<1>2. \E f : Counts(f, line, n)
  BY <1>1, CountsExist
<1>3. start = CHOOSE f : Counts(f, line, n)
  BY <1>0 DEF Starts, Counts
<1>4. Counts(start, line, n)
  BY <1>2, <1>3
<1>5. \A i \in 1 .. n : start[i] = IF i = 1 THEN 0 ELSE start[i - 1] + Len(line[i - 1]) + 1
  BY <1>4 DEF Counts
<1>6. start[1] = 0
  BY <1>1, <1>5
<1>7. ASSUME NEW i \in 1 .. Len(line) PROVE start[i + 1] = start[i] + Len(line[i]) + 1
  <2>1. i + 1 \in 1 .. n /\ i + 1 # 1 /\ (i + 1) - 1 = i
    BY <1>0, <1>1
  <2> QED
    BY <1>5, <2>1
<1> QED
  BY <1>6, <1>7

LEMMA MinIs ==
    ASSUME NEW T, NEW m \in T, m \in Int, T \subseteq Int, \A x \in T : m <= x
    PROVE  Min(T) = m
<1>1. Min(T) \in T /\ \A x \in T : Min(T) <= x
  BY DEF Min
<1>2. PICK c : c = Min(T)
  OBVIOUS
<1>3. c \in Int /\ c <= m /\ m <= c
  BY <1>1, <1>2
<1> QED
  BY <1>2, <1>3

\* The linker runs with this command line: as the loader and execve make it.
CommandLine(line, path) ==
    \E e \in Envs, argv \in Argvs : line = NewArgv(Joined(e), path, argv)

LEMMA TargetIs ==
    ASSUME Fits, NEW path \in DOMAIN Programs, CommandLine(img.cmdline, path)
    PROVE  TargetFromCmdline = path
<1>1. PICK e \in Envs, argv \in Argvs : img.cmdline = NewArgv(Joined(e), path, argv)
  BY DEF CommandLine
<1>2. PICK line, start : line = img.cmdline /\ start = Starts(line)
  OBVIOUS
<1>3. /\ path \in Seq(Chars) /\ LinkerPath \in Seq(Chars) /\ path # <<>>
      /\ CmdSize \in Nat
  BY PathsAre DEF Texts
<1>4. Joined(e) \in Seq(Chars) /\ Joined(e) # <<"--">>
  BY PreloadsAre
<1>5. argv[1] \in Seq(Chars) /\ argv[1] # <<"--">>
  BY ArgvIs
<1>6. /\ line \in Seq(Seq(Chars)) /\ Len(line) \in Nat /\ Len(line) >= 9 /\ DOMAIN line = 1 .. Len(line)
      /\ line[1] = LinkerPath /\ line[2] = <<"--preload">> /\ line[3] = Joined(e)
      /\ line[4] = <<"--library-path">> /\ line[5] = <<"libs">> /\ line[6] = <<"--argv0">>
      /\ line[7] = argv[1] /\ line[8] = <<"--">> /\ line[9] = path
  <2>1. PICK pre : pre = Joined(e)
    OBVIOUS
  <2>2. line = NewArgv(pre, path, argv)
    BY <1>1, <1>2, <2>1
  <2>3. pre \in Seq(Chars)
    BY <1>4, <2>1
  <2>4. WordsOf(line, pre, path, argv)
    BY <1>3, <2>2, <2>3, LineIs
  <2> QED
    BY <1>3, <2>1, <2>4 DEF WordsOf
<1>7. PICK k, p, a, m : k = Len(LinkerPath) /\ p = Len(Joined(e)) /\ a = Len(argv[1]) /\ m = Len(path)
  OBVIOUS
<1>8. k \in Nat /\ p \in Nat /\ a \in Nat /\ m \in Nat /\ m > 0
  BY <1>3, <1>4, <1>5, <1>7
<1>9. k + p + a + m + 13 <= CmdSize
  <2>1. Len(LinkerPath) + Len(Joined(e)) + Len(argv[1]) + Len(path) + 5 + 8 <= CmdSize
    BY DEF Fits
  <2>2. k + p + a + m + 5 + 8 <= CmdSize
    BY <1>7, <2>1, Zenon
  <2> QED
    BY <1>3, <1>8, <2>2
<1>10. start[8] = k + p + a + 11 /\ start[9] = k + p + a + 13
  <2>1. start[1] = 0 /\ \A i \in 1 .. Len(line) : start[i + 1] = start[i] + Len(line[i]) + 1
    BY <1>2, <1>6, StartsAre
  <2>2. \A i \in 1 .. 8 : i \in 1 .. Len(line)
    <3>1. PICK last : last = Len(line)
      OBVIOUS
    <3>2. last \in Nat /\ 8 <= last
      BY <1>6, <3>1
    <3>3. \A i \in 1 .. 8 : i \in 1 .. last
      BY <3>2
    <3> QED
      BY <3>1, <3>3
  <2>3. /\ start[2] = start[1] + Len(line[1]) + 1 /\ start[3] = start[2] + Len(line[2]) + 1
        /\ start[4] = start[3] + Len(line[3]) + 1 /\ start[5] = start[4] + Len(line[4]) + 1
        /\ start[6] = start[5] + Len(line[5]) + 1 /\ start[7] = start[6] + Len(line[6]) + 1
        /\ start[8] = start[7] + Len(line[7]) + 1 /\ start[9] = start[8] + Len(line[8]) + 1
    <3>0. \A i \in 1 .. 8 : start[i + 1] = start[i] + Len(line[i]) + 1
      BY <2>1, <2>2
    <3>1. start[2] = start[1] + Len(line[1]) + 1
      BY <3>0
    <3>2. start[3] = start[2] + Len(line[2]) + 1
      BY <3>0
    <3>3. start[4] = start[3] + Len(line[3]) + 1
      BY <3>0
    <3>4. start[5] = start[4] + Len(line[4]) + 1
      BY <3>0
    <3>5. start[6] = start[5] + Len(line[5]) + 1
      BY <3>0
    <3>6. start[7] = start[6] + Len(line[6]) + 1
      BY <3>0
    <3>7. start[8] = start[7] + Len(line[7]) + 1
      BY <3>0
    <3>8. start[9] = start[8] + Len(line[8]) + 1
      BY <3>0
    <3> QED
      BY <3>1, <3>2, <3>3, <3>4, <3>5, <3>6, <3>7, <3>8
  <2>4. /\ Len(line[1]) = k /\ Len(line[2]) = 1 /\ Len(line[3]) = p /\ Len(line[4]) = 1
        /\ Len(line[5]) = 1 /\ Len(line[6]) = 1 /\ Len(line[7]) = a /\ Len(line[8]) = 1
    BY <1>6, <1>7
  <2> QED
    BY <1>8, <2>1, <2>3, <2>4
<1> DEFINE read   == {i \in DOMAIN line : start[i] < CmdSize}
           dashes == {i \in read : line[i] = <<"--">> /\ start[i + 1] <= CmdSize}
<1>11. 8 \in read /\ 9 \in read
  <2>1. 8 \in DOMAIN line /\ 9 \in DOMAIN line
    BY <1>6
  <2>2. start[8] < CmdSize /\ start[9] < CmdSize
    BY <1>3, <1>8, <1>9, <1>10
  <2> QED
    BY <2>1, <2>2
<1>12. 8 \in dashes
  <2>1. start[8 + 1] <= CmdSize
    BY <1>3, <1>8, <1>9, <1>10
  <2> QED
    BY <1>6, <1>11, <2>1
<1>13. \A i \in dashes : i \in Nat /\ 8 <= i
  <2>1. TAKE i \in dashes
  <2>2. i \in DOMAIN line /\ line[i] = <<"--">>
    OBVIOUS
  <2>3. i \notin 1 .. 7
    <3>1. line[1] # <<"--">>
      BY <1>6, DashesAssumption
    <3>2. line[2] # <<"--">> /\ line[4] # <<"--">> /\ line[5] # <<"--">> /\ line[6] # <<"--">>
      BY <1>6
    <3>3. line[3] # <<"--">> /\ line[7] # <<"--">>
      BY <1>4, <1>5, <1>6
    <3> QED
      BY <2>2, <3>1, <3>2, <3>3
  <2>4. i \in Nat /\ i > 0
    <3>1. PICK last : last = Len(line)
      OBVIOUS
    <3>2. i \in 1 .. last /\ last \in Nat
      BY <1>6, <2>2, <3>1
    <3> QED
      BY <3>2
  <2> QED
    BY <2>3, <2>4
<1>14. Min(dashes) = 8
  <2>1. dashes \subseteq Int
    BY <1>13
  <2> HIDE DEF dashes
  <2> QED
    BY <1>12, <1>13, <2>1, MinIs
<1>15. TargetFromCmdline =
           LET value == Min(dashes) + 1
           IN  IF dashes = {} \/ value \notin read THEN Failure
               ELSE SubSeq(line[value], 1, Min({Len(line[value]), CmdSize - start[value]}))
  BY <1>2 DEF TargetFromCmdline
<1> HIDE DEF dashes, read
<1>16. TargetFromCmdline = SubSeq(line[9], 1, Min({Len(line[9]), CmdSize - start[9]}))
  <2>1. Min(dashes) + 1 = 9 /\ dashes # {}
    BY <1>12, <1>14
  <2> QED
    BY <1>11, <1>15, <2>1
<1>17. Min({Len(line[9]), CmdSize - start[9]}) = m
  <2>1. PICK c : c = CmdSize - start[9]
    OBVIOUS
  <2>2. c \in Int /\ m <= c
    BY <1>3, <1>8, <1>9, <1>10, <2>1
  <2>3. Min({m, c}) = m
    BY <1>8, <2>2, MinIs
  <2> QED
    BY <1>6, <1>7, <2>1, <2>3
<1>18. SubSeq(path, 1, Len(path)) = path
  BY <1>3, SubSeqFull
<1> QED
  BY <1>6, <1>7, <1>16, <1>17, <1>18

----------------------------------------------------------------------------
(* The inductive invariant, over the image i, the array a, the calls c and *)
(* the mark r.                                                             *)

Pcs == {"idle", "realpath", "link", "end", "compare", "target", "fail", "copy", "exec"}

Rec(pc, argv, count, got) == [pc |-> pc, argv |-> argv, count |-> count, got |-> got]

Fills(c) == c.pc \in {"realpath", "link", "end", "compare", "target", "fail"}
Rests(c) == c.pc \in {"idle", "exec"}

\* A running image is the program itself, or the linker that was told to run it.
ImageOk(i) ==
    /\ i.stage \in {"loader", "running", "dead"}
    /\ i.stage = "loader" => i.execfn \in DOMAIN Programs \cup {LoaderPath} /\ i.argv \in Argvs
    /\ i.stage = "running" =>
           /\ i.execfn \in DOMAIN Programs /\ i.program # "none"
           /\ i.exe = i.execfn \/ (i.exe = LinkerReal /\ CommandLine(i.cmdline, i.execfn))

CallOk(i, c) ==
    /\ c = Rec(c.pc, c.argv, c.count, c.got) /\ c.pc \in Pcs
    /\ c.argv \in Argvs \cup {<<>>}
    /\ c.pc = "end" => c.count = Len(i.exe)
    /\ c.pc = "target" => i.exe = LinkerReal
    /\ c.pc = "exec" => c.argv # <<>>

CallsOk(i, c) == c = [t \in Threads |-> c[t]] /\ \A t \in Threads : CallOk(i, c[t])

\* In a program that is not run by the linker, only its own path ever was in the array.
ArrayOk(i, a) ==
    /\ a \in Arrays
    /\ i.stage = "running" /\ i.exe = i.execfn =>
           a[Len(i.exe)] = Nul /\ (a[0] = Nul \/ Begins(a, i.exe))

QuietOk(i, a, c) == i.stage # "running" => a = Empty /\ c = [t \in Threads |-> Idle]

\* How far a call that fills the array has come.
FillOk(i, a, c) ==
    /\ c.pc \in {"realpath", "link"} => a[0] = Nul
    /\ c.pc = "end" => Begins(a, i.exe)
    /\ c.pc = "compare" => Holding(a, i.exe)

\* As long as no thread used the array while another was filling it: a thread that fills
\* it is the only one that is in it, what it has written is right so far, and between the
\* calls the array is empty, and then nobody is about to copy it, or has the program's path.
SoloOk(i, a, c) ==
    /\ \A t \in Threads : c[t].pc = "exec" => c[t].got = i.execfn
    /\ \A t \in Threads : Fills(c[t]) =>
           FillOk(i, a, c[t]) /\ \A u \in Threads \ {t} : Rests(c[u])
    /\ (\A t \in Threads : ~Fills(c[t])) =>
           \/ Holding(a, i.execfn)
           \/ a[0] = Nul /\ \A t \in Threads : Rests(c[t])

InvOf(i, a, c, r) ==
    /\ ImageOk(i) /\ CallsOk(i, c) /\ ArrayOk(i, a) /\ QuietOk(i, a, c)
    /\ i.stage = "running" /\ ~r => SoloOk(i, a, c)

Inv == InvOf(img, exe_path, call, raced)

\* The program and the file that runs it have paths that fit.
LEMMA ExeIs ==
    ASSUME NEW i, ImageOk(i), i.stage = "running"
    PROVE  i.exe \in Texts /\ i.execfn \in Texts /\ i.execfn # LinkerReal
  BY PathsAre DEF ImageOk

LEMMA EmptyIs ==
    /\ Empty \in Arrays /\ Empty[0] = Nul
    /\ \A w \in Texts : Empty[Len(w)] = Nul
<1>1. PathMax \in Nat /\ PathMax > 0
  BY PathsAre
<1>2. \A k \in 0 .. PathMax - 1 : Empty[k] = Nul
  BY DEF Empty
<1>3. 0 \in 0 .. PathMax - 1 /\ PathMax - 1 \in 0 .. PathMax - 1
  BY <1>1
<1>4. \A w \in Texts : Len(w) \in 0 .. PathMax - 1
  BY <1>1 DEF Texts
<1>5. Empty \in [0 .. PathMax - 1 -> Chars]
  BY DEF Empty, Chars
<1> QED
  BY <1>2, <1>3, <1>4, <1>5 DEF Arrays

\* A program or a loader has just been started, or the process is dead.
LEMMA BecomesKeeps ==
    ASSUME NEW image, ImageOk(image), Becomes(image)
    PROVE  Inv'
<1>1. /\ img' = image /\ exe_path' = Empty /\ call' = [t \in Threads |-> Idle] /\ raced' = FALSE
  BY DEF Becomes
<1> DEFINE c == [t \in Threads |-> Idle]
<1>2. Idle.pc = "idle" /\ Idle.argv = <<>> /\ Idle = Rec(Idle.pc, Idle.argv, Idle.count, Idle.got)
  BY DEF Idle, Rec
<1>3. CallsOk(image, c)
  <2>1. CallOk(image, Idle)
    BY <1>2 DEF CallOk, Pcs
  <2> QED
    BY <2>1 DEF CallsOk
<1>4. ArrayOk(image, Empty)
  BY EmptyIs, ExeIs DEF ArrayOk
<1>5. QuietOk(image, Empty, c)
  BY DEF QuietOk
<1>6. SoloOk(image, Empty, c)
  BY <1>2, EmptyIs DEF SoloOk, Fills, Rests
<1>7. InvOf(image, Empty, c, FALSE)
  BY <1>3, <1>4, <1>5, <1>6 DEF InvOf
<1> HIDE DEF c
<1> QED
  BY <1>1, <1>7 DEF Inv, c

\* One step of a call: t goes on with x, and the array is b then.
LEMMA SoloStep ==
    ASSUME NEW i, NEW a, NEW b, NEW c, NEW d, NEW t \in Threads, NEW x,
           c = [u \in Threads |-> c[u]], d = [c EXCEPT ![t] = x], SoloOk(i, a, c),
           x.pc = "exec" => x.got = i.execfn,
           Fills(x) => FillOk(i, b, x) /\ \A u \in Threads \ {t} : Rests(c[u]),
           \A u \in Threads \ {t} : ~Fills(c[u]),
           ~Fills(x) => \/ Holding(b, i.execfn)
                        \/ b[0] = Nul /\ Rests(x) /\ \A u \in Threads \ {t} : Rests(c[u])
    PROVE  SoloOk(i, b, d)
<1>1. d[t] = x /\ \A u \in Threads \ {t} : d[u] = c[u]
  OBVIOUS
<1>2. \A u \in Threads : d[u].pc = "exec" => d[u].got = i.execfn
  BY <1>1 DEF SoloOk
<1>3. ASSUME NEW u \in Threads, Fills(d[u])
      PROVE  FillOk(i, b, d[u]) /\ \A v \in Threads \ {u} : Rests(d[v])
  <2>1. u = t
    BY <1>1, <1>3
  <2> QED
    BY <1>1, <1>3, <2>1
<1>4. ASSUME \A u \in Threads : ~Fills(d[u])
      PROVE  Holding(b, i.execfn) \/ (b[0] = Nul /\ \A u \in Threads : Rests(d[u]))
  BY <1>1, <1>4
<1> QED
  BY <1>2, <1>3, <1>4 DEF SoloOk

LEMMA StepKeeps ==
    ASSUME Inv, img.stage = "running", NEW t \in Threads, NEW x, Step(t, x),
           CallOk(img, x), ArrayOk(img, exe_path'),
           ~raced /\ (\A u \in Threads \ {t} : ~Fills(call[u])) =>
               /\ x.pc = "exec" => x.got = img.execfn
               /\ Fills(x) => FillOk(img, exe_path', x) /\ \A u \in Threads \ {t} : Rests(call[u])
               /\ ~Fills(x) =>
                      \/ Holding(exe_path', img.execfn)
                      \/ /\ exe_path'[0] = Nul /\ Rests(x)
                         /\ \A u \in Threads \ {t} : Rests(call[u])
    PROVE  Inv'
<1>1. PICK i, a, b, c, d, r, s : /\ i = img /\ a = exe_path /\ b = exe_path' /\ c = call /\ d = call'
                                 /\ r = raced /\ s = raced'
  OBVIOUS
<1>2. d = [c EXCEPT ![t] = x] /\ img' = i /\ s = (r \/ \E u \in Threads \ {t} : Fills(c[u]))
  BY <1>1 DEF Step, Filling, Fills
<1>3. InvOf(i, a, c, r) /\ i.stage = "running"
  BY <1>1 DEF Inv
<1>4. ImageOk(i) /\ CallsOk(i, c) /\ (~r => SoloOk(i, a, c))
  BY <1>3 DEF InvOf
<1>5. CallsOk(i, d)
  <2>1. c = [u \in Threads |-> c[u]] /\ \A u \in Threads : CallOk(i, c[u])
    BY <1>4 DEF CallsOk
  <2>2. d = [u \in Threads |-> d[u]] /\ d[t] = x /\ \A u \in Threads \ {t} : d[u] = c[u]
    BY <1>2, <2>1
  <2>3. CallOk(i, x)
    BY <1>1
  <2> QED
    BY <2>1, <2>2, <2>3 DEF CallsOk
<1>6. ArrayOk(i, b) /\ QuietOk(i, b, d)
  BY <1>1, <1>3 DEF QuietOk
<1>7. ASSUME ~s PROVE SoloOk(i, b, d)
  <2>1. ~r /\ \A u \in Threads \ {t} : ~Fills(c[u])
    BY <1>2, <1>7
  <2>2. c = [u \in Threads |-> c[u]] /\ SoloOk(i, a, c)
    BY <1>4, <2>1 DEF CallsOk
  <2>3. /\ x.pc = "exec" => x.got = i.execfn
        /\ Fills(x) => FillOk(i, b, x) /\ \A u \in Threads \ {t} : Rests(c[u])
        /\ ~Fills(x) => \/ Holding(b, i.execfn)
                        \/ b[0] = Nul /\ Rests(x) /\ \A u \in Threads \ {t} : Rests(c[u])
    BY <1>1, <2>1
  <2> QED
    BY <1>2, <2>1, <2>2, <2>3, SoloStep
<1>8. InvOf(i, b, d, s)
  BY <1>3, <1>4, <1>5, <1>6, <1>7 DEF InvOf
<1> QED
  BY <1>1, <1>2, <1>8 DEF Inv

\* What the invariant says of a thread that takes a step.
LEMMA AtIs ==
    ASSUME Inv, img.stage = "running", NEW t \in Threads
    PROVE  /\ ImageOk(img) /\ ArrayOk(img, exe_path) /\ CallOk(img, call[t])
           /\ exe_path \in Arrays /\ img.exe \in Texts /\ img.execfn \in Texts
           /\ img.execfn # LinkerReal
           /\ ~raced =>
                  /\ Fills(call[t]) => /\ FillOk(img, exe_path, call[t])
                                       /\ \A u \in Threads \ {t} : Rests(call[u])
                  /\ ~Fills(call[t]) /\ (\A u \in Threads \ {t} : ~Fills(call[u])) =>
                         \/ Holding(exe_path, img.execfn)
                         \/ exe_path[0] = Nul /\ \A u \in Threads : Rests(call[u])
<1>1. /\ ImageOk(img) /\ ArrayOk(img, exe_path) /\ CallsOk(img, call)
      /\ ~raced => SoloOk(img, exe_path, call)
  BY DEF Inv, InvOf
<1>2. CallOk(img, call[t]) /\ exe_path \in Arrays
  BY <1>1 DEF CallsOk, ArrayOk
<1>3. img.exe \in Texts /\ img.execfn \in Texts /\ img.execfn # LinkerReal
  BY <1>1, ExeIs
<1>4. ASSUME ~raced
      PROVE  /\ Fills(call[t]) => /\ FillOk(img, exe_path, call[t])
                                  /\ \A u \in Threads \ {t} : Rests(call[u])
             /\ ~Fills(call[t]) /\ (\A u \in Threads \ {t} : ~Fills(call[u])) =>
                    \/ Holding(exe_path, img.execfn)
                    \/ exe_path[0] = Nul /\ \A u \in Threads : Rests(call[u])
  BY <1>1, <1>4 DEF SoloOk
<1> QED
  BY <1>1, <1>2, <1>3, <1>4

LEMMA CallIs ==
    ASSUME NEW i, NEW pc \in Pcs, NEW argv \in Argvs \cup {<<>>}, NEW count, NEW got,
           pc = "end" => count = Len(i.exe),
           pc = "target" => i.exe = LinkerReal,
           pc = "exec" => argv # <<>>
    PROVE  CallOk(i, Rec(pc, argv, count, got)) /\ Rec(pc, argv, count, got).pc = pc
           /\ Rec(pc, argv, count, got).got = got
<1>1. PICK c : c = Rec(pc, argv, count, got)
  OBVIOUS
<1>2. c.pc = pc /\ c.argv = argv /\ c.count = count /\ c.got = got
  BY <1>1 DEF Rec
<1> QED
  BY <1>1, <1>2 DEF CallOk

LEMMA ToIs ==
    ASSUME NEW i, NEW c, CallOk(i, c), NEW pc \in Pcs,
           pc = "end" => c.count = Len(i.exe),
           pc = "target" => i.exe = LinkerReal,
           pc = "exec" => c.argv # <<>>,
           NEW x, x = [c EXCEPT !.pc = pc]
    PROVE  CallOk(i, x) /\ x.pc = pc
<1>1. PICK was, argv, count, got : was = c.pc /\ argv = c.argv /\ count = c.count /\ got = c.got
  OBVIOUS
<1>2. c = Rec(was, argv, count, got) /\ argv \in Argvs \cup {<<>>}
  BY <1>1 DEF CallOk
<1>3. [c EXCEPT !.pc = pc] = Rec(pc, argv, count, got)
  BY <1>2 DEF Rec
<1>4. x = Rec(pc, argv, count, got)
  BY <1>3
<1>5. x.pc = pc /\ x.argv = argv /\ x.count = count /\ x.got = got
  BY <1>4 DEF Rec
<1>6. /\ pc = "end" => count = Len(i.exe)
      /\ pc = "target" => i.exe = LinkerReal
      /\ pc = "exec" => argv # <<>>
  BY <1>1
<1> QED
  BY <1>2, <1>4, <1>5, <1>6 DEF CallOk

LEMMA IdleIs == ASSUME NEW i PROVE CallOk(i, Idle) /\ Idle.pc = "idle" /\ Rests(Idle) /\ ~Fills(Idle)
<1>1. Idle.pc = "idle" /\ Idle.argv = <<>> /\ Idle = Rec(Idle.pc, Idle.argv, Idle.count, Idle.got)
  BY DEF Idle, Rec
<1> QED
  BY <1>1 DEF CallOk, Pcs, Rests, Fills

LEMMA ReadlinkKeeps ==
    ASSUME Inv, NEW t \in Threads, NEW argv \in Argvs \cup {<<>>}, Readlink(t, argv)
    PROVE  Inv'
<1>1. /\ img.stage = "running" /\ call[t].pc = "idle"
      /\ exe_path' = exe_path
  BY DEF Readlink, Running
<1> DEFINE pc == IF exe_path[0] = Nul THEN "realpath" ELSE "copy"
           x == [Idle EXCEPT !.argv = argv, !.pc = pc]
<1>2. Step(t, x)
  BY DEF Readlink
<1>3. pc \in Pcs /\ pc # "end" /\ pc # "target" /\ pc # "exec"
  BY DEF Pcs
<1>4. CallOk(img, x) /\ x.pc = pc
  <2> HIDE DEF pc
  <2>1. Idle = Rec("idle", <<>>, 0, <<>>)
    BY DEF Idle, Rec
  <2>2. PICK was, is, nothing : was = "idle" /\ is = pc /\ nothing = <<>>
    OBVIOUS
  <2>3. Idle = Rec(was, nothing, 0, nothing)
    BY <2>1, <2>2
  <2>4. PICK m : m = Rec(was, argv, 0, nothing)
    OBVIOUS
  <2>5. x = Rec(is, argv, 0, nothing)
    <3>1. [Idle EXCEPT !.argv = argv] = m
      BY <2>3, <2>4 DEF Rec
    <3>2. [m EXCEPT !.pc = pc] = Rec(is, argv, 0, nothing)
      BY <2>2, <2>4 DEF Rec
    <3>3. x = [[Idle EXCEPT !.argv = argv] EXCEPT !.pc = pc]
      BY Zenon
    <3> QED
      BY <3>1, <3>2, <3>3
  <2>6. is \in Pcs /\ is # "end" /\ is # "target" /\ is # "exec"
    BY <1>3, <2>2
  <2> HIDE DEF x
  <2>7. x.pc = is /\ x.argv = argv
    BY <2>5 DEF Rec
  <2>8. CallOk(img, x)
    BY <2>5, <2>6, <2>7, CallIs
  <2> QED
    BY <2>2, <2>7, <2>8
<1>5. ArrayOk(img, exe_path')
  BY <1>1, AtIs
<1>6. ASSUME ~raced, \A u \in Threads \ {t} : ~Fills(call[u])
      PROVE  /\ x.pc # "exec"
             /\ Fills(x) => FillOk(img, exe_path, x) /\ \A u \in Threads \ {t} : Rests(call[u])
             /\ ~Fills(x) => Holding(exe_path, img.execfn)
  <2>1. /\ Holding(exe_path, img.execfn) \/ (exe_path[0] = Nul /\ \A u \in Threads : Rests(call[u]))
        /\ img.execfn \in Texts
    BY <1>1, <1>6, AtIs DEF Fills
  <2>2. CASE exe_path[0] = Nul
    <3>1. ~Holding(exe_path, img.execfn)
      <4>1. 1 \in 1 .. Len(img.execfn) /\ 1 - 1 = 0 /\ img.execfn[1] # Nul
        BY <2>1 DEF Texts
      <4> QED
        BY <2>2, <4>1 DEF Holding, Begins
    <3>2. pc = "realpath"
      BY <2>2
    <3> HIDE DEF x, pc
    <3>3. Fills(x) /\ FillOk(img, exe_path, x)
      BY <1>4, <2>2, <3>2 DEF Fills, FillOk
    <3> QED
      BY <1>4, <2>1, <3>1, <3>2, <3>3
  <2>3. CASE exe_path[0] # Nul
    <3>1. pc = "copy"
      BY <2>3
    <3> HIDE DEF x, pc
    <3> QED
      BY <1>4, <2>1, <2>3, <3>1 DEF Fills
  <2> QED
    BY <2>2, <2>3
<1> HIDE DEF x, pc
<1> QED
  BY <1>1, <1>2, <1>4, <1>5, <1>6, StepKeeps

LEMMA RealpathKeeps == ASSUME Inv, NEW t \in Threads, Realpath(t) PROVE Inv'
<1>1. /\ img.stage = "running" /\ call[t].pc = "realpath" /\ exe_path' = exe_path
  BY DEF Realpath, Running
<1>2. ArrayOk(img, exe_path') /\ CallOk(img, call[t]) /\ Fills(call[t])
  BY <1>1, AtIs DEF Fills
<1>3. ASSUME ~raced
      PROVE  exe_path[0] = Nul /\ \A u \in Threads \ {t} : Rests(call[u])
  BY <1>1, <1>2, <1>3, AtIs DEF FillOk
<1>4. CASE Step(t, Idle)
  BY <1>1, <1>2, <1>3, <1>4, IdleIs, StepKeeps
<1>5. CASE To(t, "link")
  <2>1. PICK x : x = [call[t] EXCEPT !.pc = "link"]
    OBVIOUS
  <2>2. Step(t, x)
    BY <1>5, <2>1 DEF To
  <2>3. CallOk(img, x) /\ x.pc = "link"
    BY <1>2, <2>1, ToIs DEF Pcs
  <2>4. Fills(x) /\ (~raced => FillOk(img, exe_path, x))
    BY <1>3, <2>3 DEF Fills, FillOk
  <2> QED
    BY <1>1, <1>2, <1>3, <2>2, <2>3, <2>4, StepKeeps
<1> QED
  BY <1>4, <1>5 DEF Realpath

\* What writing into the array does to the promise about it.
LEMMA PutKeeps ==
    ASSUME NEW i, NEW a, NEW w \in Texts, ArrayOk(i, a), i.stage = "running" /\ i.exe = i.execfn => i.exe = w
    PROVE  ArrayOk(i, Put(a, 0, w)) /\ Begins(Put(a, 0, w), w)
<1>1. a \in Arrays
  BY DEF ArrayOk
<1>2. PICK p : p = Put(a, 0, w)
  OBVIOUS
<1>3. p \in Arrays /\ Begins(p, w) /\ \A j \in Len(w) .. PathMax - 1 : p[j] = a[j]
  BY <1>1, <1>2, PutIs
<1>4. Len(w) \in Len(w) .. PathMax - 1
  BY PathsAre DEF Texts
<1>5. ArrayOk(i, p)
  BY <1>3, <1>4 DEF ArrayOk
<1> QED
  BY <1>2, <1>3, <1>5

LEMMA LinkKeeps == ASSUME Inv, NEW t \in Threads, Link(t) PROVE Inv'
<1>1. img.stage = "running" /\ call[t].pc = "link"
  BY DEF Link, Running
<1>2. /\ ArrayOk(img, exe_path) /\ CallOk(img, call[t]) /\ Fills(call[t])
      /\ img.exe \in Texts
  BY <1>1, AtIs DEF Fills
<1>3. ASSUME ~raced PROVE \A u \in Threads \ {t} : Rests(call[u])
  BY <1>1, <1>2, <1>3, AtIs
<1>4. CASE To(t, "fail") /\ UNCHANGED exe_path
  <2>1. PICK x : x = [call[t] EXCEPT !.pc = "fail"]
    OBVIOUS
  <2>2. Step(t, x)
    BY <1>4, <2>1 DEF To
  <2>3. CallOk(img, x) /\ x.pc = "fail"
    BY <1>2, <2>1, ToIs DEF Pcs
  <2>4. Fills(x) /\ FillOk(img, exe_path, x)
    BY <2>3 DEF Fills, FillOk
  <2> QED
    BY <1>1, <1>2, <1>3, <1>4, <2>2, <2>3, <2>4, StepKeeps
<1>5. CASE /\ Step(t, [call[t] EXCEPT !.pc = "end", !.count = Len(img.exe)])
           /\ exe_path' = Put(exe_path, 0, img.exe)
  <2>1. PICK x, c, n : x = [call[t] EXCEPT !.pc = "end", !.count = Len(img.exe)] /\ c = call[t] /\ n = Len(img.exe)
    OBVIOUS
  <2>2. Step(t, x)
    BY <1>5, <2>1
  <2>3. CallOk(img, x) /\ x.pc = "end"
    <3>1. PICK was, argv, count, got : was = c.pc /\ argv = c.argv /\ count = c.count /\ got = c.got
      OBVIOUS
    <3>2. c = Rec(was, argv, count, got) /\ argv \in Argvs \cup {<<>>}
      BY <1>2, <2>1, <3>1 DEF CallOk
    <3>3. PICK m : m = Rec("end", argv, count, got)
      OBVIOUS
    <3>4. [c EXCEPT !.pc = "end"] = m
      BY <3>2, <3>3 DEF Rec
    <3>5. [m EXCEPT !.count = n] = Rec("end", argv, n, got)
      BY <3>3 DEF Rec
    <3>6. x = [[c EXCEPT !.pc = "end"] EXCEPT !.count = n]
      BY <2>1, Zenon
    <3>7. x = Rec("end", argv, n, got)
      BY <3>4, <3>5, <3>6
    <3>8. x.pc = "end" /\ x.argv = argv /\ x.count = n /\ x.got = got
      BY <3>7 DEF Rec
    <3> QED
      BY <2>1, <3>2, <3>7, <3>8 DEF CallOk, Pcs
  <2>4. ArrayOk(img, exe_path') /\ Begins(exe_path', img.exe)
    BY <1>2, <1>5, PutKeeps
  <2>5. Fills(x) /\ FillOk(img, exe_path', x)
    BY <2>3, <2>4 DEF Fills, FillOk
  <2> QED
    BY <1>1, <1>3, <2>2, <2>3, <2>4, <2>5, StepKeeps
<1> QED
  BY <1>4, <1>5 DEF Link

LEMMA EndKeeps ==
    ASSUME NEW a \in Arrays, NEW w \in Texts, NEW k \in {0, Len(w)}
    PROVE  /\ [a EXCEPT ![k] = Nul] \in Arrays /\ [a EXCEPT ![k] = Nul][k] = Nul
           /\ \A j \in 0 .. PathMax - 1 : j # k => [a EXCEPT ![k] = Nul][j] = a[j]
           /\ Begins(a, w) /\ k = Len(w) => Holding([a EXCEPT ![k] = Nul], w)
<1>1. PathMax \in Nat /\ PathMax > 0 /\ Len(w) \in Nat /\ Len(w) < PathMax /\ k \in 0 .. PathMax - 1
  BY PathsAre DEF Texts
<1>2. PICK b, z : b = [a EXCEPT ![k] = Nul] /\ z = Nul
  OBVIOUS
<1>3. a \in [0 .. PathMax - 1 -> Chars] /\ a[PathMax - 1] = z /\ z \in Chars
  BY <1>2 DEF Arrays, Chars
<1>4. b = [a EXCEPT ![k] = z]
  BY <1>2
<1>5. b \in [0 .. PathMax - 1 -> Chars] /\ b[k] = z /\ \A j \in 0 .. PathMax - 1 : j # k => b[j] = a[j]
  BY <1>1, <1>3, <1>4
<1>6. b[PathMax - 1] = z
  <2>1. PathMax - 1 \in 0 .. PathMax - 1
    BY <1>1
  <2> QED
    BY <1>3, <1>5, <2>1
<1>7. ASSUME Begins(a, w), k = Len(w) PROVE Begins(b, w)
  <2>1. \A j \in 1 .. Len(w) : j - 1 \in 0 .. PathMax - 1 /\ j - 1 # k
    BY <1>1, <1>7
  <2> QED
    BY <1>5, <1>7, <2>1 DEF Begins
<1> QED
  BY <1>2, <1>5, <1>6, <1>7 DEF Arrays, Holding

LEMMA EndLinkKeeps == ASSUME Inv, NEW t \in Threads, EndLink(t) PROVE Inv'
<1>1. img.stage = "running" /\ call[t].pc = "end"
  BY DEF EndLink, Running
<1>2. /\ ArrayOk(img, exe_path) /\ CallOk(img, call[t]) /\ Fills(call[t])
      /\ img.exe \in Texts /\ exe_path \in Arrays
  BY <1>1, AtIs DEF Fills
<1>3. ASSUME ~raced PROVE Begins(exe_path, img.exe) /\ \A u \in Threads \ {t} : Rests(call[u])
  BY <1>1, <1>2, <1>3, AtIs DEF FillOk
<1>4. PICK x, k, b : /\ x = [call[t] EXCEPT !.pc = "compare"] /\ k = Len(img.exe)
                     /\ b = [exe_path EXCEPT ![k] = Nul]
  OBVIOUS
<1>5. Step(t, x)
  BY <1>4 DEF EndLink, To
<1>6. exe_path' = b
  BY <1>1, <1>2, <1>4 DEF EndLink, CallOk
<1>7. CallOk(img, x) /\ x.pc = "compare"
  BY <1>2, <1>4, ToIs DEF Pcs
<1>8. /\ b \in Arrays /\ b[k] = Nul
      /\ \A j \in 0 .. PathMax - 1 : j # k => b[j] = exe_path[j]
      /\ Begins(exe_path, img.exe) => Holding(b, img.exe)
  <2>1. PICK a, w : a = exe_path /\ w = img.exe
    OBVIOUS
  <2>2. a \in Arrays /\ w \in Texts /\ k \in {0, Len(w)} /\ k = Len(w)
    BY <1>2, <1>4, <2>1
  <2>3. /\ [a EXCEPT ![k] = Nul] \in Arrays /\ [a EXCEPT ![k] = Nul][k] = Nul
        /\ \A j \in 0 .. PathMax - 1 : j # k => [a EXCEPT ![k] = Nul][j] = a[j]
        /\ Begins(a, w) /\ k = Len(w) => Holding([a EXCEPT ![k] = Nul], w)
    BY <2>2, EndKeeps
  <2>4. b = [a EXCEPT ![k] = Nul]
    BY <1>4, <2>1
  <2> QED
    BY <2>1, <2>2, <2>3, <2>4
<1>9. ArrayOk(img, b)
  <2>1. 0 \in 0 .. PathMax - 1 /\ 0 # k
    BY <1>2, <1>4, PathsAre DEF Texts
  <2>2. b[0] = exe_path[0]
    BY <1>8, <2>1
  <2> QED
    BY <1>2, <1>4, <1>8, <2>2 DEF ArrayOk, Holding
<1>10. Fills(x) /\ (~raced => FillOk(img, b, x))
  BY <1>3, <1>7, <1>8 DEF Fills, FillOk
<1> QED
  BY <1>1, <1>3, <1>5, <1>6, <1>7, <1>9, <1>10, StepKeeps

LEMMA CompareKeeps == ASSUME Inv, NEW t \in Threads, Compare(t) PROVE Inv'
<1>1. img.stage = "running" /\ call[t].pc = "compare" /\ exe_path' = exe_path
  BY DEF Compare, Running
<1>2. /\ ImageOk(img) /\ ArrayOk(img, exe_path) /\ CallOk(img, call[t]) /\ Fills(call[t])
      /\ img.exe \in Texts /\ exe_path \in Arrays /\ img.execfn # LinkerReal
  BY <1>1, AtIs DEF Fills
<1>3. ASSUME ~raced PROVE Holding(exe_path, img.exe) /\ \A u \in Threads \ {t} : Rests(call[u])
  BY <1>1, <1>2, <1>3, AtIs DEF FillOk
<1>4. Holding(exe_path, img.exe) => Text(exe_path) = img.exe
  BY <1>2, TextIs
<1>5. CASE Text(exe_path) = LinkerReal
  <2>1. PICK x : x = [call[t] EXCEPT !.pc = "target"]
    OBVIOUS
  <2>2. Step(t, x)
    BY <1>5, <2>1 DEF Compare, To
  <2>3. img.exe = LinkerReal
    <3>1. CASE img.exe = img.execfn
      <4>1. exe_path[Len(img.exe)] = Nul /\ (exe_path[0] = Nul \/ Begins(exe_path, img.exe))
        BY <1>1, <1>2, <3>1 DEF ArrayOk
      <4>2. Text(exe_path) = <<>> \/ Text(exe_path) = img.exe
        BY <1>2, <4>1, TextIs DEF Holding
      <4>3. LinkerReal # <<>>
        BY PathsAre DEF Texts
      <4> QED
        BY <1>2, <1>5, <3>1, <4>2, <4>3
    <3> QED
      BY <1>1, <1>2, <3>1 DEF ImageOk
  <2>4. CallOk(img, x) /\ x.pc = "target"
    BY <1>2, <2>1, <2>3, ToIs DEF Pcs
  <2>5. Fills(x) /\ FillOk(img, exe_path, x)
    BY <2>4 DEF Fills, FillOk
  <2> QED
    BY <1>1, <1>2, <1>3, <2>2, <2>4, <2>5, StepKeeps
<1>6. CASE Text(exe_path) # LinkerReal
  <2>1. PICK x : x = [call[t] EXCEPT !.pc = "copy"]
    OBVIOUS
  <2>2. Step(t, x)
    BY <1>6, <2>1 DEF Compare, To
  <2>3. CallOk(img, x) /\ x.pc = "copy"
    BY <1>2, <2>1, ToIs DEF Pcs
  <2>4. ~Fills(x) /\ (~raced => Holding(exe_path, img.execfn))
    <3>1. ~Fills(x)
      BY <2>3 DEF Fills
    <3>2. ~raced => img.exe # LinkerReal /\ Holding(exe_path, img.exe)
      BY <1>3, <1>4, <1>6
    <3>3. img.exe = img.execfn \/ img.exe = LinkerReal
      BY <1>1, <1>2 DEF ImageOk
    <3> QED
      BY <3>1, <3>2, <3>3
  <2> QED
    BY <1>1, <1>2, <2>2, <2>3, <2>4, StepKeeps
<1> QED
  BY <1>5, <1>6

LEMMA FindTargetKeeps == ASSUME Fits, Inv, NEW t \in Threads, FindTarget(t) PROVE Inv'
<1>1. img.stage = "running" /\ call[t].pc = "target"
  BY DEF FindTarget, Running
<1>2. /\ ImageOk(img) /\ ArrayOk(img, exe_path) /\ CallOk(img, call[t]) /\ Fills(call[t])
      /\ img.execfn \in Texts /\ exe_path \in Arrays /\ img.execfn # LinkerReal
  BY <1>1, AtIs DEF Fills
<1>3. ASSUME ~raced PROVE \A u \in Threads \ {t} : Rests(call[u])
  BY <1>1, <1>2, <1>3, AtIs
<1>4. CASE To(t, "fail") /\ UNCHANGED exe_path
  <2>1. PICK x : x = [call[t] EXCEPT !.pc = "fail"]
    OBVIOUS
  <2>2. Step(t, x)
    BY <1>4, <2>1 DEF To
  <2>3. CallOk(img, x) /\ x.pc = "fail"
    BY <1>2, <2>1, ToIs DEF Pcs
  <2>4. Fills(x) /\ FillOk(img, exe_path, x)
    BY <2>3 DEF Fills, FillOk
  <2> QED
    BY <1>1, <1>2, <1>3, <1>4, <2>2, <2>3, <2>4, StepKeeps
<1>5. CASE To(t, "copy") /\ exe_path' = Put(exe_path, 0, Append(TargetFromCmdline, Nul))
  <2>1. PICK x : x = [call[t] EXCEPT !.pc = "copy"]
    OBVIOUS
  <2>2. Step(t, x)
    BY <1>5, <2>1 DEF To
  <2>3. CallOk(img, x) /\ x.pc = "copy"
    BY <1>2, <2>1, ToIs DEF Pcs
  <2>4. img.exe = LinkerReal
    BY <1>1, <1>2 DEF CallOk
  <2>5. TargetFromCmdline = img.execfn
    <3>1. img.execfn \in DOMAIN Programs /\ CommandLine(img.cmdline, img.execfn)
      BY <1>1, <1>2, <2>4 DEF ImageOk
    <3>2. PICK path : path = img.execfn
      OBVIOUS
    <3>3. path \in DOMAIN Programs /\ CommandLine(img.cmdline, path)
      BY <3>1, <3>2
    <3> QED
      BY <3>2, <3>3, TargetIs
  <2>6. exe_path' \in Arrays /\ Holding(exe_path', img.execfn)
    <3>1. PICK a, w : a = exe_path /\ w = img.execfn
      OBVIOUS
    <3>2. a \in Arrays /\ w \in Texts /\ exe_path' = Put(a, 0, Append(w, Nul))
      BY <1>2, <1>5, <2>5, <3>1
    <3>3. Put(a, 0, Append(w, Nul)) \in Arrays /\ Holding(Put(a, 0, Append(w, Nul)), w)
      BY <3>2, PutIs
    <3> QED
      BY <3>1, <3>2, <3>3
  <2>7. ArrayOk(img, exe_path')
    BY <1>2, <2>4, <2>6 DEF ArrayOk
  <2>8. ~Fills(x)
    BY <2>3 DEF Fills
  <2> QED
    BY <1>1, <2>2, <2>3, <2>6, <2>7, <2>8, StepKeeps
<1> QED
  BY <1>4, <1>5 DEF FindTarget

LEMMA FailKeeps == ASSUME Inv, NEW t \in Threads, Fail(t) PROVE Inv'
<1>1. img.stage = "running" /\ call[t].pc = "fail" /\ Step(t, Idle)
  BY DEF Fail, Running
<1>2. /\ ArrayOk(img, exe_path) /\ Fills(call[t])
      /\ img.exe \in Texts /\ exe_path \in Arrays
  BY <1>1, AtIs DEF Fills
<1>3. ASSUME ~raced PROVE \A u \in Threads \ {t} : Rests(call[u])
  BY <1>1, <1>2, <1>3, AtIs
<1>4. PICK a, b, w : a = exe_path /\ b = [a EXCEPT ![0] = Nul] /\ w = img.exe
  OBVIOUS
<1>5. exe_path' = b
  BY <1>4 DEF Fail
<1>6. b \in Arrays /\ b[0] = Nul /\ \A j \in 0 .. PathMax - 1 : j # 0 => b[j] = a[j]
  <2>1. a \in Arrays /\ w \in Texts /\ 0 \in {0, Len(w)}
    BY <1>2, <1>4
  <2>2. /\ [a EXCEPT ![0] = Nul] \in Arrays /\ [a EXCEPT ![0] = Nul][0] = Nul
        /\ \A j \in 0 .. PathMax - 1 : j # 0 => [a EXCEPT ![0] = Nul][j] = a[j]
    BY <2>1, EndKeeps
  <2> QED
    BY <1>4, <2>2
<1>7. ArrayOk(img, b)
  <2>1. Len(w) \in 0 .. PathMax - 1 /\ Len(w) # 0
    BY <1>2, <1>4, PathsAre DEF Texts
  <2>2. b[Len(img.exe)] = exe_path[Len(img.exe)]
    BY <1>4, <1>6, <2>1
  <2> QED
    BY <1>2, <1>6, <2>2 DEF ArrayOk
<1> QED
  BY <1>1, <1>3, <1>5, <1>6, <1>7, IdleIs, StepKeeps

LEMMA CopyKeeps == ASSUME Inv, NEW t \in Threads, Copy(t) PROVE Inv'
<1>1. img.stage = "running" /\ call[t].pc = "copy" /\ exe_path' = exe_path
  BY DEF Copy, Running
<1>2. /\ ArrayOk(img, exe_path) /\ CallOk(img, call[t]) /\ ~Fills(call[t]) /\ ~Rests(call[t])
      /\ img.execfn \in Texts /\ exe_path \in Arrays
  BY <1>1, AtIs DEF Fills, Rests
<1>3. ASSUME ~raced, \A u \in Threads \ {t} : ~Fills(call[u])
      PROVE  Holding(exe_path, img.execfn) /\ Text(exe_path) = img.execfn
  <2>1. Holding(exe_path, img.execfn)
    BY <1>1, <1>2, <1>3, AtIs
  <2> QED
    BY <1>2, <2>1, TextIs
<1>4. CASE call[t].argv = <<>>
  <2>1. Step(t, Idle)
    BY <1>4 DEF Copy
  <2> QED
    BY <1>1, <1>2, <1>3, <2>1, IdleIs, StepKeeps
<1>5. CASE call[t].argv # <<>>
  <2>1. PICK x, c, s : /\ x = [call[t] EXCEPT !.pc = "exec", !.got = Text(exe_path)]
                       /\ c = call[t] /\ s = Text(exe_path)
    OBVIOUS
  <2>2. Step(t, x)
    BY <1>5, <2>1 DEF Copy
  <2>3. CallOk(img, x) /\ x.pc = "exec" /\ x.got = s
    <3>1. PICK was, argv, count, got : was = c.pc /\ argv = c.argv /\ count = c.count /\ got = c.got
      OBVIOUS
    <3>2. c = Rec(was, argv, count, got) /\ argv \in Argvs \cup {<<>>} /\ argv # <<>>
      BY <1>2, <1>5, <2>1, <3>1 DEF CallOk
    <3>3. PICK m : m = Rec("exec", argv, count, got)
      OBVIOUS
    <3>4. [c EXCEPT !.pc = "exec"] = m
      BY <3>2, <3>3 DEF Rec
    <3>5. [m EXCEPT !.got = s] = Rec("exec", argv, count, s)
      BY <3>3 DEF Rec
    <3>6. x = [[c EXCEPT !.pc = "exec"] EXCEPT !.got = s]
      BY <2>1, Zenon
    <3>7. x = Rec("exec", argv, count, s)
      BY <3>4, <3>5, <3>6
    <3>8. x.pc = "exec" /\ x.argv = argv /\ x.count = count /\ x.got = s
      BY <3>7 DEF Rec
    <3> QED
      BY <3>2, <3>7, <3>8 DEF CallOk, Pcs
  <2>4. ~Fills(x)
    BY <2>3 DEF Fills
  <2> QED
    BY <1>1, <1>2, <1>3, <2>1, <2>2, <2>3, <2>4, StepKeeps
<1> QED
  BY <1>4, <1>5

LEMMA ExecFailsKeeps == ASSUME Inv, NEW t \in Threads, ExecFails(t) PROVE Inv'
<1>1. PICK i, a, c, d, r : i = img /\ a = exe_path /\ c = call /\ d = call' /\ r = raced
  OBVIOUS
<1>2. /\ d = [c EXCEPT ![t] = Idle] /\ c[t].pc = "exec" /\ i.stage = "running"
      /\ img' = i /\ exe_path' = a /\ raced' = r
  BY <1>1 DEF ExecFails, Running
<1>3. InvOf(i, a, c, r)
  BY <1>1 DEF Inv
<1>4. ImageOk(i) /\ CallsOk(i, c) /\ ArrayOk(i, a) /\ (~r => SoloOk(i, a, c))
  BY <1>2, <1>3 DEF InvOf
<1>5. c = [u \in Threads |-> c[u]] /\ \A u \in Threads : CallOk(i, c[u])
  BY <1>4 DEF CallsOk
<1>6. d = [u \in Threads |-> d[u]] /\ d[t] = Idle /\ \A u \in Threads \ {t} : d[u] = c[u]
  BY <1>2, <1>5
<1>7. CallsOk(i, d)
  BY <1>5, <1>6, IdleIs DEF CallsOk
<1>8. Rests(c[t]) /\ ~Fills(c[t])
  BY <1>2 DEF Rests, Fills
<1>9. ASSUME ~r PROVE SoloOk(i, a, d)
  <2>1. /\ \A u \in Threads : c[u].pc = "exec" => c[u].got = i.execfn
        /\ \A u \in Threads : Fills(c[u]) => FillOk(i, a, c[u]) /\ \A v \in Threads \ {u} : Rests(c[v])
        /\ (\A u \in Threads : ~Fills(c[u])) =>
               Holding(a, i.execfn) \/ (a[0] = Nul /\ \A u \in Threads : Rests(c[u]))
    BY <1>4, <1>9 DEF SoloOk
  <2>2. \A u \in Threads : Fills(d[u]) <=> Fills(c[u])
    BY <1>6, <1>8, IdleIs
  <2>3. \A u \in Threads : Rests(d[u]) <=> Rests(c[u])
    BY <1>6, <1>8, IdleIs
  <2>4. \A u \in Threads : d[u].pc = "exec" => d[u].got = i.execfn
    BY <1>6, <2>1, IdleIs
  <2>5. \A u \in Threads : Fills(d[u]) => FillOk(i, a, d[u]) /\ \A v \in Threads \ {u} : Rests(d[v])
    <3>1. \A u \in Threads : Fills(d[u]) => d[u] = c[u]
      BY <1>6, IdleIs
    <3> QED
      BY <2>1, <2>2, <2>3, <3>1
  <2> QED
    BY <2>1, <2>2, <2>3, <2>4, <2>5 DEF SoloOk
<1>10. InvOf(i, a, d, r)
  BY <1>2, <1>4, <1>7, <1>9 DEF InvOf, QuietOk
<1> QED
  BY <1>2, <1>1, <1>10 DEF Inv

\* The linker as the loader and execve start it.
LEMMA LinkedIs ==
    ASSUME NEW e \in Envs, NEW path, NEW argv \in Argvs,
           NEW i, i = Linked(NewArgv(Joined(e), path, argv))
    PROVE  /\ ImageOk(i)
           /\ Program(path) # "none" =>
                  /\ i.stage = "running" /\ i.program = Program(path) /\ i.argv = argv
                  /\ i.preloads = Joined(e)
<1>1. PICK line, pre, program : line = NewArgv(pre, path, argv) /\ pre = Joined(e) /\ program = Program(path)
  OBVIOUS
<1>2. pre \in Seq(Chars)
  BY <1>1, PreloadsAre
<1>3. WordsOf(line, pre, path, argv)
  BY <1>1, <1>2, LineIs
<1>4. line[9] = path /\ line[3] = pre /\ <<line[7]>> \o SubSeq(line, 10, Len(line)) = argv
  BY <1>3 DEF WordsOf
<1>5. i = IF program = "none" THEN Dead
          ELSE Image("running", path, program, LinkerReal, line, argv, pre)
  BY <1>1, <1>4 DEF Linked
<1>6. CASE program = "none"
  BY <1>1, <1>5, <1>6 DEF ImageOk, Dead, Image
<1>7. CASE program # "none"
  <2>1. /\ i.stage = "running" /\ i.execfn = path /\ i.program = program /\ i.exe = LinkerReal
        /\ i.cmdline = line /\ i.argv = argv /\ i.preloads = pre
    BY <1>5, <1>7 DEF Image
  <2>2. path \in DOMAIN Programs
    BY <1>1, <1>7 DEF Program
  <2>3. CommandLine(line, path)
    BY <1>1 DEF CommandLine
  <2> QED
    BY <1>1, <1>7, <2>1, <2>2, <2>3 DEF ImageOk
<1> QED
  BY <1>6, <1>7

LEMMA StartedIs ==
    ASSUME NEW path \in DOMAIN Programs \cup {LoaderPath}, NEW argv \in Argvs
    PROVE  ImageOk(Started(path, argv))
  BY DEF ImageOk, Started, Image

Held == Inv /\ env \in Envs

LEMMA InitHolds == ASSUME Init PROVE Held
<1>1. env \in Envs /\ exe_path = Empty /\ call = [t \in Threads |-> Idle] /\ raced = FALSE
  BY DEF Init
<1>2. PICK argv \in Argvs, path \in DOMAIN Programs \cup {LoaderPath} :
          \/ img = Started(path, argv)
          \/ path # LoaderPath /\ Head(path) = "/" /\ img = Native(path, argv)
  BY DEF Init
<1>3. ImageOk(img)
  <2>1. CASE img = Started(path, argv)
    BY <2>1, StartedIs
  <2>2. CASE path # LoaderPath /\ Head(path) = "/" /\ img = Native(path, argv)
    <3>1. path \in DOMAIN Programs
      BY <2>2
    <3>2. Program(path) = Programs[path]
      BY <2>2, <3>1 DEF Program
    <3>3. Programs[path] # "none"
      BY <3>1, ReexecAssumption DEF Range
    <3>4. /\ img.stage = "running" /\ img.execfn = path /\ img.program = Program(path)
          /\ img.exe = path
      BY <2>2 DEF Native, Image
    <3> QED
      BY <3>1, <3>2, <3>3, <3>4 DEF ImageOk
  <2> QED
    BY <1>2, <2>1, <2>2
<1>4. PICK i, c : i = img /\ c = [t \in Threads |-> Idle]
  OBVIOUS
<1>5. CallsOk(i, c) /\ ArrayOk(i, Empty) /\ QuietOk(i, Empty, c) /\ SoloOk(i, Empty, c)
  <2>1. CallsOk(i, c)
    BY <1>4, IdleIs DEF CallsOk
  <2>2. ArrayOk(i, Empty)
    BY <1>3, <1>4, EmptyIs, ExeIs DEF ArrayOk
  <2>3. QuietOk(i, Empty, c)
    BY <1>4 DEF QuietOk
  <2>4. SoloOk(i, Empty, c)
    <3>1. \A t \in Threads : c[t] = Idle
      BY <1>4
    <3> QED
      BY <3>1, IdleIs, EmptyIs DEF SoloOk
  <2> QED
    BY <2>1, <2>2, <2>3, <2>4
<1>6. InvOf(i, Empty, c, FALSE)
  BY <1>3, <1>4, <1>5 DEF InvOf
<1> QED
  BY <1>1, <1>4, <1>6 DEF Held, Inv

LEMMA ThreadKeeps == ASSUME Fits, Held, NEW t \in Threads, ThreadNext(t) PROVE Held'
<1>0. Inv /\ env \in Envs
  BY DEF Held
<1>1. CASE \E argv \in Argvs \cup {<<>>} : Readlink(t, argv)
  BY <1>0, <1>1, ReadlinkKeeps DEF Held, Readlink, Step
<1>2. CASE Realpath(t)
  <2>1. env' = env
    BY <1>2 DEF Realpath, To, Step
  <2> QED
    BY <1>0, <1>2, <2>1, RealpathKeeps DEF Held
<1>3. CASE Link(t)
  <2>1. env' = env
    BY <1>3 DEF Link, To, Step
  <2> QED
    BY <1>0, <1>3, <2>1, LinkKeeps DEF Held
<1>4. CASE EndLink(t)
  <2>1. env' = env
    BY <1>4 DEF EndLink, To, Step
  <2> QED
    BY <1>0, <1>4, <2>1, EndLinkKeeps DEF Held
<1>5. CASE Compare(t)
  <2>1. env' = env
    BY <1>5 DEF Compare, To, Step
  <2> QED
    BY <1>0, <1>5, <2>1, CompareKeeps DEF Held
<1>6. CASE FindTarget(t)
  <2>1. env' = env
    BY <1>6 DEF FindTarget, To, Step
  <2> QED
    BY <1>0, <1>6, <2>1, FindTargetKeeps DEF Held
<1>7. CASE Fail(t)
  <2>1. env' = env
    BY <1>7 DEF Fail, Step
  <2> QED
    BY <1>0, <1>7, <2>1, FailKeeps DEF Held
<1>8. CASE Copy(t)
  <2>1. env' = env
    BY <1>8 DEF Copy, Step
  <2> QED
    BY <1>0, <1>8, <2>1, CopyKeeps DEF Held
<1>9. CASE ExecFails(t)
  <2>1. env' = env
    BY <1>9 DEF ExecFails
  <2> QED
    BY <1>0, <1>9, <2>1, ExecFailsKeeps DEF Held
<1>10. CASE ExecSelf(t)
  <2>1. img.stage = "running" /\ call[t].pc = "exec" /\ PreloadList(env) # Failure
    BY <1>10 DEF ExecSelf, Running
  <2>2. call[t].argv \in Argvs
    BY <1>0, <2>1, AtIs DEF CallOk
  <2>3. PICK e, argv, path, i : /\ e = env /\ argv = call[t].argv /\ path = call[t].got
                                /\ i = Linked(NewArgv(Joined(e), path, argv))
    OBVIOUS
  <2>4. ImageOk(i)
    BY <1>0, <2>2, <2>3, LinkedIs
  <2>5. PreloadList(env) = Joined(env)
    BY <1>0, <2>1, PreloadsAre
  <2>6. Becomes(i)
    BY <1>10, <2>3, <2>5 DEF ExecSelf
  <2> QED
    BY <1>0, <2>4, <2>6, BecomesKeeps DEF Held, Becomes
<1>11. CASE \E path \in DOMAIN Programs, argv \in Argvs : Exec(t, path, argv)
  <2>1. PICK path \in DOMAIN Programs, argv \in Argvs : Becomes(Started(path, argv))
    BY <1>11 DEF Exec
  <2> QED
    BY <1>0, <2>1, StartedIs, BecomesKeeps DEF Held, Becomes
<1> QED
  BY <1>1, <1>2, <1>3, <1>4, <1>5, <1>6, <1>7, <1>8, <1>9, <1>10, <1>11 DEF ThreadNext

LEMMA NextKeeps == ASSUME Fits, Held, [Next]_vars PROVE Held'
<1>0. Inv /\ env \in Envs
  BY DEF Held
<1>1. CASE Load
  <2>1. CASE Becomes(Dead)
    <3>1. ImageOk(Dead)
      BY DEF ImageOk, Dead, Image
    <3> QED
      BY <1>0, <2>1, <3>1, BecomesKeeps DEF Held, Becomes
  <2>2. CASE /\ img.execfn # LoaderPath /\ PreloadList(env) # Failure
             /\ Becomes(Linked(NewArgv(PreloadList(env), img.execfn, img.argv)))
    <3>1. img.argv \in Argvs
      BY <1>0, <1>1 DEF Load, Inv, InvOf, ImageOk
    <3>2. PICK e, argv, path, i : /\ e = env /\ argv = img.argv /\ path = img.execfn
                                  /\ i = Linked(NewArgv(Joined(e), path, argv))
      OBVIOUS
    <3>3. ImageOk(i)
      BY <1>0, <3>1, <3>2, LinkedIs
    <3>4. PreloadList(env) = Joined(env)
      BY <1>0, <2>2, PreloadsAre
    <3>5. Becomes(i)
      BY <2>2, <3>2, <3>4
    <3> QED
      BY <1>0, <3>3, <3>5, BecomesKeeps DEF Held, Becomes
  <2> QED
    BY <1>1, <2>1, <2>2 DEF Load
<1>2. CASE Chdir
  BY <1>0, <1>2 DEF Chdir, Held, Inv
<1>3. CASE \E e \in Envs : Setenv(e)
  BY <1>0, <1>3 DEF Setenv, Held, Inv
<1>4. CASE \E t \in Threads : ThreadNext(t)
  BY <1>4, ThreadKeeps
<1>5. CASE UNCHANGED vars
  BY <1>0, <1>5 DEF vars, Held, Inv
<1> QED
  BY <1>1, <1>2, <1>3, <1>4, <1>5 DEF Next

----------------------------------------------------------------------------
(* What follows.                                                           *)

LEMMA AlwaysHeld == ASSUME Fits PROVE Spec => []Held
<1>1. Init => Held
  BY InitHolds
<1>2. Held /\ [Next]_vars => Held'
  BY NextKeeps
<1> QED
  BY <1>1, <1>2, PTL DEF Spec

LEMMA HeldIsTyped == ASSUME Held PROVE TypeOK
<1>1. ImageOk(img) /\ CallsOk(img, call) /\ ArrayOk(img, exe_path) /\ QuietOk(img, exe_path, call)
  BY DEF Held, Inv, InvOf
<1>2. img.stage \in {"loader", "running", "dead"}
  BY <1>1 DEF ImageOk
<1>3. DOMAIN exe_path = 0 .. PathMax - 1 /\ exe_path[PathMax - 1] = Nul
  BY <1>1 DEF ArrayOk, Arrays
<1>4. ASSUME NEW t \in Threads, call[t].pc = "end" PROVE call[t].count < PathMax
  <2>1. CASE img.stage = "running"
    <3>1. call[t].count = Len(img.exe)
      BY <1>1, <1>4 DEF CallsOk, CallOk
    <3>2. img.exe \in Texts
      BY <1>1, <2>1, ExeIs
    <3> QED
      BY <3>1, <3>2 DEF Texts
  <2>2. CASE img.stage # "running"
    BY <1>1, <1>4, <2>2, IdleIs DEF QuietOk
  <2> QED
    BY <2>1, <2>2
<1>5. img.stage # "running" => exe_path = Empty /\ call = [t \in Threads |-> Idle]
  BY <1>1 DEF QuietOk
<1> QED
  BY <1>2, <1>3, <1>4, <1>5 DEF TypeOK

\* Between the calls of readlink and execve, exe_path (readlink.c) is empty or the path of
\* the program that runs, however often and where the calls have failed and for whatever
\* paths, arguments and preloads fit into the 8 KiB of the command line that are read.
THEOREM CacheIsTrue == ASSUME Fits PROVE Spec => []CacheTrue
<1>1. ASSUME Held PROVE CacheTrue
  <2>1. TypeOK
    BY <1>1, HeldIsTyped
  <2>2. ASSUME img.stage = "running", ~raced, \A t \in Threads : ~Filling(t)
        PROVE  Text(exe_path) \in {<<>>, img.execfn}
    <3>1. ImageOk(img) /\ exe_path \in Arrays /\ SoloOk(img, exe_path, call)
      BY <1>1, <2>2 DEF Held, Inv, InvOf, ArrayOk
    <3>2. Holding(exe_path, img.execfn) \/ exe_path[0] = Nul
      BY <2>2, <3>1 DEF SoloOk, Filling, Fills
    <3> QED
      BY <2>2, <3>1, <3>2, ExeIs, TextIs
  <2> QED
    BY <2>1, <2>2 DEF CacheTrue
<1> QED
  BY <1>1, AlwaysHeld, PTL

LEMMA AgainStep == ASSUME Held, NEW t \in Threads, ~raced PROVE Again(t)
<1>1. ASSUME ExecSelf(t), Reachable
      PROVE  /\ img'.stage = "running" /\ img'.program = img.program
             /\ img'.argv = call[t].argv /\ img'.preloads = Joined(env)
  <2>1. img.stage = "running" /\ call[t].pc = "exec" /\ PreloadList(env) # Failure
    BY <1>1 DEF ExecSelf, Running
  <2>2. Inv /\ env \in Envs
    BY DEF Held
  <2>3. ImageOk(img) /\ CallOk(img, call[t]) /\ SoloOk(img, exe_path, call)
    BY <2>1, <2>2, AtIs DEF Inv, InvOf
  <2>4. call[t].got = img.execfn /\ call[t].argv \in Argvs /\ img.program # "none"
    BY <2>1, <2>3 DEF SoloOk, CallOk, ImageOk
  <2>5. PICK e, argv, path, i : /\ e = env /\ argv = call[t].argv /\ path = img.execfn
                                /\ i = Linked(NewArgv(Joined(e), path, argv))
    OBVIOUS
  <2>6. Program(path) = img.program
    BY <1>1, <2>5 DEF Reachable
  <2>7. i.stage = "running" /\ i.program = Program(path) /\ i.argv = argv /\ i.preloads = Joined(e)
    BY <2>2, <2>4, <2>5, <2>6, LinkedIs
  <2>8. PreloadList(env) = Joined(env)
    BY <2>1, <2>2, PreloadsAre
  <2>9. img' = i
    BY <1>1, <2>4, <2>5, <2>8 DEF ExecSelf, Becomes
  <2> QED
    BY <2>5, <2>6, <2>7, <2>9
<1> QED
  BY <1>1 DEF Again

\* A program that calls execve("/proc/self/exe") (exec.c) runs itself, with the arguments
\* it gave and with the preloads of the moment, through the linker's command line and the
\* cache of readlink: for any programs, arguments and preloads that fit.
THEOREM SelfRunsItself == ASSUME Fits PROVE Spec => RunsItself
<1>1. ASSUME Held, [Next]_vars PROVE [\A t \in Threads : raced \/ Again(t)]_vars
  BY <1>1, AgainStep
<1> QED
  BY <1>1, AlwaysHeld, PTL DEF Spec, RunsItself
=============================================================================
