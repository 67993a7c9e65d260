---------------------------- MODULE ObstackProofs ----------------------------
(***************************************************************************)
(* Proofs about Obstack: every object that the caller has is inside of a   *)
(* chunk of the chain, in order, and the chain is the heap, for every size *)
(* of chunk and object, every alignment, and wherever the allocator puts   *)
(* the chunks; and what is kept in memory is a stack of objects.           *)
(***************************************************************************)
EXTENDS Obstack, SequenceTheorems, TLAPS

Fields == {"chunks", "object_base", "next_free", "maybe_empty_object", "heap", "memory"}

Aligned(a) == a % (Mask + 1) = 0

Apart(c, d) == c.limit <= d.at \/ d.limit <= c.at

(* The object o lies in the chunk c: where an object can start, and if not *)
(* aligned at the limit, where it is empty.                                *)
In(c, o) ==
    /\ FirstBase(c) <= o.at /\ o.at + o.size <= c.limit
    /\ Aligned(o.at) \/ o.at = c.limit

Growing(s) == [at |-> s.object_base, size |-> Size(s)]

(* The chunks of the chain s.chunks have room for a header and alignment,  *)
(* do not overlap, and are the ones of the heap.                           *)
Chain(s) ==
    /\ DOMAIN s = Fields
    /\ s.chunks \in Seq(Chunks) /\ s.heap = ToSet(s.chunks)
    /\ \A k \in 1..Len(s.chunks) : s.chunks[k].at + Header + Mask <= s.chunks[k].limit
    /\ \A j, k \in 1..Len(s.chunks) : j # k => Apart(s.chunks[j], s.chunks[k])

(* The object that grows is in the last chunk, or there is none and it is  *)
(* the null pointer.                                                       *)
Current(s) ==
    /\ s.object_base \in Nat /\ s.next_free \in Nat /\ s.object_base <= s.next_free
    /\ s.maybe_empty_object \in BOOLEAN
    /\ IF s.chunks = <<>>
       THEN s.object_base = NULL /\ s.next_free = NULL /\ s.maybe_empty_object
       ELSE In(s.chunks[Len(s.chunks)], Growing(s))

(* The finished objects g are in chunks, or null pointers.                 *)
Placed(s, g) ==
    /\ g \in Seq([at : Nat, size : Nat])
    /\ \A i \in 1..Len(g) :
          IF g[i].at = NULL THEN g[i].size = 0
          ELSE \E k \in 1..Len(s.chunks) : In(s.chunks[k], g[i])

(* The object p comes after o: in a later chunk, or behind it in the same. *)
Before(s, o, p) ==
    \A k, l \in 1..Len(s.chunks) :
        In(s.chunks[k], o) /\ In(s.chunks[l], p) => k < l \/ (k = l /\ o.at + o.size <= p.at)

Ordered(s, g) ==
    \A i, j \in 1..Len(g) :
        i < j /\ g[i].at # NULL => g[j].at # NULL /\ Before(s, g[i], g[j])

(* The objects in the last chunk end before the one that grows begins, and *)
(* without maybe_empty_object none of them is empty.                       *)
Behind(s, g) ==
    \A i \in 1..Len(g) :
        g[i].at # NULL =>
            /\ s.chunks # <<>>
            /\ In(s.chunks[Len(s.chunks)], g[i]) =>
                  /\ g[i].at + g[i].size <= s.object_base
                  /\ s.maybe_empty_object \/ g[i].size > 0

Good(s, g) == Chain(s) /\ Current(s) /\ Placed(s, g) /\ Ordered(s, g) /\ Behind(s, g)

(* The inductive invariant.                                                *)
IndInv == Good(h, given)

----------------------------------------------------------------------------
(* Alignment and chunks.                                                   *)

LEMMA Rounding ==
    ASSUME NEW a \in Nat
    PROVE  RoundUp(a) \in Nat /\ a <= RoundUp(a) /\ RoundUp(a) <= a + Mask /\ Aligned(RoundUp(a))
<1> DEFINE m == Mask + 1
           q == (a + Mask) \div m
<1>1. m \in Nat /\ m > 0 /\ a + Mask \in Nat
  BY ObstackAssumption
<1> HIDE DEF m
<1>2. q \in Nat /\ q * m <= a + Mask /\ a + Mask < q * m + m
  BY <1>1, SMT
<1> HIDE DEF q
<1>3. (q * m) % m = 0 /\ q * m \in Nat
  BY <1>1, <1>2, SMT
<1>4. RoundUp(a) = q * m
  BY DEF RoundUp, q, m
<1>5. a <= q * m /\ q * m <= a + Mask
  BY <1>1, <1>2, <1>3, ObstackAssumption DEF m
<1> QED
  BY <1>3, <1>4, <1>5 DEF Aligned, m

LEMMA ChunkTyped ==
    ASSUME NEW s, Chain(s), NEW k \in 1..Len(s.chunks)
    PROVE  /\ s.chunks[k] \in Chunks /\ s.chunks[k].at \in Nat \ {0} /\ s.chunks[k].limit \in Nat
           /\ s.chunks[k].at < s.chunks[k].limit
<1>1. s.chunks[k] \in Chunks
  BY ElementOfSeq DEF Chain
<1>2. s.chunks[k].at \in Nat \ {0} /\ s.chunks[k].limit \in Nat
  BY <1>1, ObstackAssumption DEF Chunks, Addresses
<1> QED
  BY <1>1, <1>2, ObstackAssumption DEF Chain

\* An address after the header and up to the limit is in one chunk only.
LEMMA OneHolder ==
    ASSUME NEW c \in Chunks, NEW d \in Chunks, Apart(c, d), NEW a \in Nat, Holds(c, a)
    PROVE  ~Holds(d, a)
  BY ObstackAssumption DEF Chunks, Addresses, Apart, Holds

LEMMA InHolds ==
    ASSUME NEW c \in Chunks, NEW o \in [at : Nat, size : Nat], In(c, o)
    PROVE  Holds(c, o.at) /\ c.at < FirstBase(c)
<1>1. c.at \in Nat /\ c.limit \in Nat /\ c.at + Header \in Nat
  BY ObstackAssumption DEF Chunks, Addresses
<1>2. FirstBase(c) \in Nat /\ c.at + Header <= FirstBase(c)
  BY <1>1, Rounding DEF FirstBase
<1> QED
  BY <1>1, <1>2, ObstackAssumption DEF In, Holds

\* In a sound chain an object is in one chunk only.
LEMMA InOnce ==
    ASSUME NEW s, Chain(s), NEW o \in [at : Nat, size : Nat],
           NEW k \in 1..Len(s.chunks), NEW l \in 1..Len(s.chunks),
           Holds(s.chunks[k], o.at), Holds(s.chunks[l], o.at)
    PROVE  k = l
<1>1. s.chunks[k] \in Chunks /\ s.chunks[l] \in Chunks
  BY ChunkTyped
<1>2. o.at \in Nat
  OBVIOUS
<1> QED
  BY <1>1, <1>2, OneHolder DEF Chain

\* The chunk of an object is the one it is in.
LEMMA TheHolder ==
    ASSUME NEW s, Chain(s), NEW o \in [at : Nat, size : Nat],
           NEW k \in 1..Len(s.chunks), In(s.chunks[k], o)
    PROVE  Holders(s, o.at) = {k} /\ Max(Holders(s, o.at)) = k
<1>1. s.chunks[k] \in Chunks
  BY ChunkTyped
<1>2. Holds(s.chunks[k], o.at)
  BY <1>1, InHolds
<1>3. Holders(s, o.at) = {k}
  BY <1>2, InOnce DEF Holders
<1>4. Max({k}) = k
  BY DEF Max
<1> QED
  BY <1>3, <1>4

----------------------------------------------------------------------------
(* What the invariant says of the objects.                                 *)

LEMMA GoodOwned == IndInv => ChunksOwned
<1> SUFFICES ASSUME IndInv PROVE ChunksOwned
  OBVIOUS
<1>1. Chain(h)
  BY DEF IndInv, Good
<1>2. DOMAIN h.chunks = 1..Len(h.chunks)
  BY <1>1, LenProperties DEF Chain
<1>3. ASSUME NEW j \in 1..Len(h.chunks), NEW k \in 1..Len(h.chunks), h.chunks[j] = h.chunks[k]
      PROVE  j = k
  <2>1. ~Apart(h.chunks[j], h.chunks[k])
    BY <1>1, <1>3, ChunkTyped DEF Apart
  <2> QED
    BY <1>1, <2>1 DEF Chain
<1> QED
  BY <1>1, <1>2, <1>3 DEF ChunksOwned, Chain, IsInjective

\* The object at place i of Objects, one of the finished or the one that grows.
LEMMA ObjectIs ==
    ASSUME IndInv, NEW i \in 1..Len(Objects), Objects[i].at # NULL
    PROVE  /\ Objects[i] \in [at : Nat, size : Nat]
           /\ \E k \in 1..Len(h.chunks) : In(h.chunks[k], Objects[i])
           /\ Len(Objects) = Len(given) + (IF h.chunks = <<>> THEN 0 ELSE 1)
           /\ \/ i \in 1..Len(given) /\ Objects[i] = given[i]
              \/ h.chunks # <<>> /\ i = Len(given) + 1 /\ Objects[i] = Growing(h)
<1>1. given \in Seq([at : Nat, size : Nat]) /\ Chain(h) /\ Current(h) /\ Placed(h, given)
  BY DEF IndInv, Good, Placed
<1>2. Len(given) \in Nat /\ Len(h.chunks) \in Nat /\ (h.chunks # <<>> => Len(h.chunks) > 0)
  BY <1>1, LenProperties, EmptySeq DEF Chain
<1>3. CASE h.chunks = <<>>
  BY <1>1, <1>2, <1>3, ElementOfSeq DEF Objects, Placed
<1>4. CASE h.chunks # <<>>
  <2>1. Growing(h) \in [at : Nat, size : Nat] /\ In(h.chunks[Len(h.chunks)], Growing(h))
    BY <1>1, <1>4 DEF Current, Growing, Size
  <2>2. Objects = Append(given, Growing(h))
    BY <1>4 DEF Objects, Growing
  <2>3. /\ Len(Objects) = Len(given) + 1 /\ Objects[Len(given) + 1] = Growing(h)
        /\ \A j \in 1..Len(given) : Objects[j] = given[j]
    BY <1>1, <2>1, <2>2, AppendProperties
  <2>4. CASE i \in 1..Len(given)
    BY <1>1, <1>4, <2>3, <2>4, ElementOfSeq DEF Placed
  <2>5. CASE i = Len(given) + 1
    BY <1>2, <1>4, <2>1, <2>3, <2>5
  <2> QED
    BY <1>2, <2>3, <2>4, <2>5
<1> QED
  BY <1>3, <1>4

\* And which chunk ChunkOf names.
LEMMA ObjectIn ==
    ASSUME IndInv, NEW i \in 1..Len(Objects), Objects[i].at # NULL
    PROVE  /\ Holders(h, Objects[i].at) # {} /\ ChunkOf(Objects[i]) \in 1..Len(h.chunks)
           /\ In(h.chunks[ChunkOf(Objects[i])], Objects[i])
<1>1. PICK k \in 1..Len(h.chunks) : In(h.chunks[k], Objects[i])
  BY ObjectIs
<1>2. Objects[i] \in [at : Nat, size : Nat] /\ Chain(h)
  BY ObjectIs DEF IndInv, Good
<1>3. Holders(h, Objects[i].at) = {k} /\ ChunkOf(Objects[i]) = k
  BY <1>1, <1>2, TheHolder DEF ChunkOf
<1> QED
  BY <1>1, <1>3

LEMMA GoodPlaced == IndInv => ObjectsPlaced
<1> SUFFICES ASSUME IndInv PROVE ObjectsPlaced
  OBVIOUS
<1>1. Chain(h) /\ Current(h) /\ Placed(h, given) /\ Ordered(h, given) /\ Behind(h, given)
  BY DEF IndInv, Good
<1>2. Len(given) \in Nat
  BY <1>1, LenProperties DEF Placed
<1>3. ASSUME NEW i \in 1..Len(Objects), Objects[i].at # NULL
      PROVE  /\ Holders(h, Objects[i].at) # {}
             /\ Objects[i].at + Objects[i].size <= h.chunks[ChunkOf(Objects[i])].limit
  BY <1>3, ObjectIn DEF In
<1>4. ASSUME NEW i \in 1..Len(Objects), NEW j \in 1..Len(Objects), i < j, Objects[i].at # NULL
      PROVE  \/ ChunkOf(Objects[i]) < ChunkOf(Objects[j])
             \/ /\ ChunkOf(Objects[i]) = ChunkOf(Objects[j])
                /\ Objects[i].at + Objects[i].size <= Objects[j].at
  <2>1. i \in 1..Len(given) /\ Objects[i] = given[i]
    BY <1>2, <1>4, ObjectIs
  <2>2. /\ ChunkOf(Objects[i]) \in 1..Len(h.chunks)
        /\ In(h.chunks[ChunkOf(Objects[i])], Objects[i])
    BY <1>4, ObjectIn
  <2>3. CASE Objects[j].at # NULL /\ j \in 1..Len(given) /\ Objects[j] = given[j]
    <3>1. /\ ChunkOf(Objects[j]) \in 1..Len(h.chunks)
          /\ In(h.chunks[ChunkOf(Objects[j])], Objects[j])
      BY <2>3, ObjectIn
    <3>2. Before(h, given[i], given[j])
      BY <1>1, <1>4, <2>1, <2>3 DEF Ordered
    <3> QED
      BY <2>1, <2>2, <2>3, <3>1, <3>2 DEF Before
  <2>4. CASE Objects[j].at # NULL /\ h.chunks # <<>> /\ j = Len(given) + 1 /\ Objects[j] = Growing(h)
    <3> DEFINE n == Len(h.chunks)
    <3>1. n \in 1..n /\ In(h.chunks[n], Objects[j]) /\ Objects[j] \in [at : Nat, size : Nat]
      <4>1. n \in Nat /\ n > 0
        BY <1>1, <2>4, LenProperties, EmptySeq DEF Chain
      <4>2. In(h.chunks[n], Growing(h))
        BY <1>1, <2>4 DEF Current
      <4>3. Objects[j] \in [at : Nat, size : Nat]
        BY <2>4, ObjectIs
      <4> QED
        BY <2>4, <4>1, <4>2, <4>3
    <3>2. ChunkOf(Objects[j]) = n
      BY <1>1, <3>1, TheHolder DEF ChunkOf
    <3>3. CASE ChunkOf(Objects[i]) = n
      <4>1. Objects[i].at + Objects[i].size <= h.object_base
        BY <1>1, <1>4, <2>1, <2>2, <3>3 DEF Behind
      <4> QED
        BY <2>4, <3>2, <3>3, <4>1 DEF Growing
    <3>4. CASE ChunkOf(Objects[i]) # n
      BY <2>2, <3>1, <3>2, <3>4
    <3> QED
      BY <3>3, <3>4
  <2>5. Objects[j].at # NULL
    <3>1. CASE j \in 1..Len(given) /\ Objects[j] = given[j]
      BY <1>1, <1>4, <2>1, <3>1 DEF Ordered
    <3>2. CASE h.chunks # <<>> /\ j = Len(given) + 1
      <4>1. Objects[j] = Growing(h) /\ In(h.chunks[Len(h.chunks)], Growing(h))
        BY <1>1, <3>2, AppendProperties DEF Objects, Growing, Current, Placed, Size
      <4>2. h.chunks[Len(h.chunks)] \in Chunks
        BY <1>1, <3>2, ElementOfSeq, LenProperties, EmptySeq DEF Chain
      <4>3. Growing(h) \in [at : Nat, size : Nat]
        BY <1>1, <3>2 DEF Growing, Size, Current
      <4>4. Holds(h.chunks[Len(h.chunks)], Growing(h).at)
        BY <4>1, <4>2, <4>3, InHolds
      <4> QED
        BY <4>1, <4>2, <4>4 DEF Holds, Chunks, Addresses, NULL
    <3>3. \/ j \in 1..Len(given) /\ Objects[j] = given[j]
          \/ h.chunks # <<>> /\ j = Len(given) + 1
      <4>1. CASE h.chunks = <<>>
        BY <4>1 DEF Objects
      <4>2. CASE h.chunks # <<>>
        <5>1. Growing(h) \in [at : Nat, size : Nat] /\ Objects = Append(given, Growing(h))
          BY <1>1, <4>2 DEF Current, Growing, Size, Objects
        <5>2. Len(Objects) = Len(given) + 1 /\ \A k \in 1..Len(given) : Objects[k] = given[k]
          BY <1>1, <5>1, AppendProperties DEF Placed
        <5> QED
          BY <1>2, <4>2, <5>2
      <4> QED
        BY <4>1, <4>2
    <3> QED
      BY <3>1, <3>2, <3>3
  <2> QED
    BY <1>4, <2>3, <2>4, <2>5, ObjectIs
<1>5. ASSUME NEW i \in 1..Len(given), given[i].size > 0 PROVE given[i].at % (Mask + 1) = 0
  <2>1. given[i] \in [at : Nat, size : Nat]
    BY <1>1, ElementOfSeq DEF Placed
  <2>2. PICK k \in 1..Len(h.chunks) : In(h.chunks[k], given[i])
    BY <1>1, <1>5, <2>1 DEF Placed
  <2>3. h.chunks[k].limit \in Nat
    BY <1>1, ChunkTyped
  <2> QED
    BY <1>5, <2>1, <2>2, <2>3 DEF In, Aligned
<1> QED
  BY <1>3, <1>4, <1>5 DEF ObjectsPlaced

----------------------------------------------------------------------------
(* What keeps an obstack sound.                                            *)

\* The chain seen as a number of chunks.
LEMMA ChainLength ==
    ASSUME NEW s, Chain(s)
    PROVE  /\ Len(s.chunks) \in Nat /\ DOMAIN s.chunks = 1..Len(s.chunks)
           /\ s.chunks = <<>> <=> Len(s.chunks) = 0
           /\ Limit(s) \in Nat
           /\ s.chunks # <<>> => Limit(s) = s.chunks[Len(s.chunks)].limit
<1>1. /\ Len(s.chunks) \in Nat /\ DOMAIN s.chunks = 1..Len(s.chunks)
      /\ s.chunks = <<>> <=> Len(s.chunks) = 0
  BY LenProperties, EmptySeq DEF Chain
<1>2. CASE s.chunks = <<>>
  BY <1>1, <1>2 DEF Limit, NULL
<1>3. CASE s.chunks # <<>>
  BY <1>1, <1>3, ChunkTyped DEF Limit, Last
<1> QED
  BY <1>1, <1>2, <1>3

\* A first object fits into a chunk that has room for it after the header.
LEMMA FirstFits ==
    ASSUME NEW c \in Chunks, NEW size \in Nat, c.at + Header + Mask + size <= c.limit
    PROVE  FirstBase(c) \in Nat /\ FirstBase(c) # NULL /\ In(c, [at |-> FirstBase(c), size |-> size])
<1>1. c.at \in Nat /\ c.limit \in Nat /\ c.at + Header \in Nat
  BY ObstackAssumption DEF Chunks, Addresses
<1>2. /\ FirstBase(c) \in Nat /\ c.at + Header <= FirstBase(c)
      /\ FirstBase(c) <= c.at + Header + Mask /\ Aligned(FirstBase(c))
  BY <1>1, Rounding DEF FirstBase
<1> QED
  BY <1>1, <1>2, ObstackAssumption DEF In, NULL

\* The object that grows may end anywhere up to the limit.
LEMMA NextMoved ==
    ASSUME NEW s, NEW g, Good(s, g), NEW t, DOMAIN t = Fields,
           t.chunks = s.chunks, t.heap = s.heap, t.object_base = s.object_base,
           t.maybe_empty_object = s.maybe_empty_object,
           t.next_free \in s.object_base .. Limit(s)
    PROVE  Good(t, g)
<1>1. Chain(s) /\ Current(s) /\ Placed(s, g) /\ Ordered(s, g) /\ Behind(s, g)
  BY DEF Good
<1>2. Chain(t) /\ Placed(t, g) /\ Ordered(t, g) /\ Behind(t, g)
  BY <1>1 DEF Chain, Placed, Ordered, Before, Behind
<1>3. Current(t)
  <2>1. CASE s.chunks = <<>>
    BY <1>1, <2>1 DEF Current, Limit, NULL
  <2>2. CASE s.chunks # <<>>
    BY <1>1, <2>2, ChainLength DEF Current, Growing, Size, In
  <2> QED
    BY <2>1, <2>2
<1> QED
  BY <1>2, <1>3 DEF Good

\* The first m chunks.
LEMMA Kept ==
    ASSUME NEW s, Chain(s), NEW m \in 0..Len(s.chunks)
    PROVE  /\ SubSeq(s.chunks, 1, m) \in Seq(Chunks) /\ Len(SubSeq(s.chunks, 1, m)) = m
           /\ \A k \in 1..m : SubSeq(s.chunks, 1, m)[k] = s.chunks[k]
<1>1. m \in Nat /\ \A k \in 1..m : s.chunks[k] \in Chunks
  BY ChainLength, ChunkTyped
<1>2. m - 1 + 1 = m /\ 1 - 1 = 0
  BY <1>1
<1>3. \A k \in 1..m : 1 + k - 1 = k
  BY <1>1
<1> QED
  BY <1>1, <1>2, <1>3, SubSeqProperties

\* The object that grows moves to a new chunk c behind the first m chunks, when no object is
\* left in those after them.
LEMMA ChunkAppended ==
    ASSUME NEW s, NEW g, Good(s, g), NEW m \in 0..Len(s.chunks), NEW c \in Chunks, NEW t,
           \A k \in 1..Len(s.chunks), i \in 1..Len(g) :
               g[i].at # NULL /\ In(s.chunks[k], g[i]) => k <= m,
           \A k \in 1..m : Apart(s.chunks[k], c),
           c.at + Header + Mask + Size(s) <= c.limit,
           DOMAIN t = Fields, t.chunks = Append(SubSeq(s.chunks, 1, m), c),
           t.heap = {s.chunks[k] : k \in 1..m} \cup {c},
           t.object_base = FirstBase(c), t.next_free = FirstBase(c) + Size(s),
           t.maybe_empty_object = FALSE
    PROVE  Good(t, g)
<1>1. Chain(s) /\ Current(s) /\ Placed(s, g) /\ Ordered(s, g) /\ Behind(s, g)
  BY DEF Good
<1>2. Len(s.chunks) \in Nat /\ m \in Nat /\ Len(g) \in Nat
  BY <1>1, ChainLength, LenProperties DEF Placed
<1>3. /\ t.chunks \in Seq(Chunks) /\ Len(t.chunks) = m + 1 /\ t.chunks # <<>>
      /\ (\A k \in 1..m : t.chunks[k] = s.chunks[k]) /\ t.chunks[m + 1] = c
  BY <1>1, Kept, AppendProperties
<1>4. Size(s) \in Nat
  BY <1>1 DEF Current, Size
<1>5. FirstBase(c) \in Nat /\ FirstBase(c) # NULL /\ In(c, [at |-> FirstBase(c), size |-> Size(s)])
  BY <1>4, FirstFits
<1>6. ASSUME NEW k \in 1..m + 1 PROVE k = m + 1 \/ (k \in 1..m /\ k \in 1..Len(s.chunks))
  BY <1>2
<1>7. Chain(t)
  <2>1. t.heap = ToSet(t.chunks)
    <3>1. DOMAIN t.chunks = 1..m + 1
      BY <1>3, LenProperties
    <3>2. ToSet(t.chunks) = {t.chunks[k] : k \in 1..m + 1}
      BY <3>1 DEF ToSet
    <3>3. \A k \in 1..m + 1 : t.chunks[k] \in t.heap
      BY <1>3, <1>6
    <3>4. \A k \in 1..m : k \in 1..m + 1
      BY <1>2
    <3>5. \A d \in t.heap : \E k \in 1..m + 1 : d = t.chunks[k]
      BY <1>2, <1>3, <3>4
    <3>6. ToSet(t.chunks) \subseteq t.heap
      BY <3>2, <3>3, Zenon
    <3>7. t.heap \subseteq ToSet(t.chunks)
      BY <3>2, <3>5, Zenon
    <3> QED
      BY <3>6, <3>7, Zenon
  <2>2. \A k \in 1..m + 1 : t.chunks[k].at + Header + Mask <= t.chunks[k].limit
    <3>1. c.at + Header + Mask <= c.limit
      BY <1>4, ObstackAssumption DEF Chunks, Addresses
    <3> QED
      BY <1>1, <1>3, <1>6, <3>1 DEF Chain
  <2>3. \A j, k \in 1..m + 1 : j # k => Apart(t.chunks[j], t.chunks[k])
    BY <1>1, <1>3, <1>6 DEF Chain, Apart
  <2> QED
    BY <1>3, <2>1, <2>2, <2>3 DEF Chain
<1>8. Current(t)
  <2>1. Growing(t) = [at |-> FirstBase(c), size |-> Size(s)]
    BY <1>4, <1>5 DEF Growing, Size, Current
  <2>2. t.next_free \in Nat /\ t.object_base <= t.next_free
    BY <1>4, <1>5
  <2> QED
    BY <1>3, <1>5, <2>1, <2>2 DEF Current
\* No object is in c: each is in one of the others.
<1>9. ASSUME NEW i \in 1..Len(g), g[i].at # NULL
      PROVE  /\ \E k \in 1..m : In(t.chunks[k], g[i])
             /\ ~In(t.chunks[m + 1], g[i])
  <2>1. g[i] \in [at : Nat, size : Nat]
    BY <1>1, ElementOfSeq DEF Placed
  <2>2. PICK k \in 1..Len(s.chunks) : In(s.chunks[k], g[i])
    BY <1>1, <1>9 DEF Placed
  <2>3. k \in 1..m
    BY <1>2, <1>9, <2>2
  <2>4. Holds(t.chunks[k], g[i].at) /\ k \in 1..Len(t.chunks) /\ m + 1 \in 1..Len(t.chunks) /\ k # m + 1
    BY <1>1, <1>2, <1>3, <2>1, <2>2, <2>3, ChunkTyped, InHolds
  <2>5. ~Holds(t.chunks[m + 1], g[i].at)
    BY <1>7, <2>1, <2>4, InOnce
  <2> QED
    BY <1>3, <2>1, <2>2, <2>3, <2>5, InHolds
<1>10. Placed(t, g)
  <2>1. \A k \in 1..m : k \in 1..Len(t.chunks)
    BY <1>2, <1>3
  <2> QED
    BY <1>1, <1>9, <2>1 DEF Placed
<1>11. Ordered(t, g)
  <2>1. ASSUME NEW i \in 1..Len(g), NEW j \in 1..Len(g), i < j, g[i].at # NULL
        PROVE  g[j].at # NULL /\ Before(t, g[i], g[j])
    <3>1. g[j].at # NULL /\ Before(s, g[i], g[j])
      BY <1>1, <2>1 DEF Ordered
    <3>2. ~In(t.chunks[m + 1], g[i]) /\ ~In(t.chunks[m + 1], g[j])
      BY <1>9, <2>1, <3>1
    <3> QED
      BY <1>3, <1>6, <3>1, <3>2 DEF Before
  <2> QED
    BY <2>1 DEF Ordered
<1>12. Behind(t, g)
  BY <1>3, <1>9 DEF Behind
<1> QED
  BY <1>7, <1>8, <1>10, <1>11, <1>12 DEF Good

\* What malloc returns is apart from what it has returned before.
LEMMA PlacesApart ==
    ASSUME NEW heap, NEW size \in Nat, NEW c \in Places(heap, size), NEW d \in heap,
           d \in Chunks, d.at < d.limit, size > 0
    PROVE  Apart(d, c)
<1>1. c \in Chunks /\ c.limit = c.at + size /\ Within(c) \cap Within(d) = {}
  BY DEF Places
<1>2. {c.at, c.limit, d.at, d.limit} \subseteq Nat
  BY <1>1, ObstackAssumption DEF Chunks, Addresses
<1>3. SUFFICES ASSUME ~Apart(d, c) PROVE FALSE
  OBVIOUS
<1>4. c.at < d.limit /\ d.at < c.limit
  BY <1>2, <1>3 DEF Apart
<1>5. CASE c.at <= d.at
  BY <1>1, <1>2, <1>4, <1>5 DEF Within
<1>6. CASE d.at <= c.at
  BY <1>1, <1>2, <1>4, <1>6 DEF Within
<1> QED
  BY <1>2, <1>5, <1>6

LEMMA NewSizeEnough ==
    ASSUME NEW s, Size(s) \in Nat, NEW length \in Nat
    PROVE  NewSize(s, length) \in Nat /\ NewSize(s, length) >= Size(s) + length + Mask + Header
<1> DEFINE b == Size(s) + length + Mask + Slack + Size(s) \div 8
<1>1. Size(s) \div 8 \in Nat
  OBVIOUS
<1>2. b \in Nat /\ b >= Size(s) + length + Mask + Header
  BY <1>1, ObstackAssumption
<1> HIDE DEF b
<1>3. \E x \in {ChunkSize, b} : \A y \in {ChunkSize, b} : x >= y
  BY <1>2, ObstackAssumption
<1>4. Max({ChunkSize, b}) \in {ChunkSize, b} /\ Max({ChunkSize, b}) >= b
  BY <1>3 DEF Max
<1>5. NewSize(s, length) = Max({ChunkSize, b})
  BY DEF NewSize, b
<1> QED
  BY <1>2, <1>4, <1>5, ObstackAssumption

\* _obstack_newchunk: also when the object leaves a chunk in which it was alone.
LEMMA NewChunkGood ==
    ASSUME NEW s, NEW g, Good(s, g), NEW length \in Nat, NEW c \in Places(s.heap, NewSize(s, length)),
           s.chunks # <<>> \/ length > 0
    PROVE  /\ Good(NewChunk(s, c), g) /\ Room(NewChunk(s, c)) >= length
<1> DEFINE n == Len(s.chunks)
           m == IF Alone(s) THEN n - 1 ELSE n
           t == NewChunk(s, c)
<1>1. Chain(s) /\ Current(s) /\ Placed(s, g) /\ Behind(s, g)
  BY DEF Good
<1>2. n \in Nat /\ DOMAIN s.chunks = 1..n /\ (s.chunks = <<>> <=> n = 0)
  BY <1>1, ChainLength
<1>3. Size(s) \in Nat
  BY <1>1 DEF Current, Size
<1>4. NewSize(s, length) \in Nat /\ NewSize(s, length) >= Size(s) + length + Mask + Header
  BY <1>3, NewSizeEnough
<1>5. /\ c \in Chunks /\ c.at \in Nat /\ c.limit \in Nat
      /\ c.at + Header + Mask + Size(s) + length <= c.limit
  <2>1. c \in Chunks /\ c.limit = c.at + NewSize(s, length)
    BY DEF Places
  <2>2. c.at \in Nat
    BY <2>1, ObstackAssumption DEF Chunks, Addresses
  <2> QED
    BY <1>3, <1>4, <2>1, <2>2, ObstackAssumption
<1>6. \A k \in 1..n : Apart(s.chunks[k], c)
  <2>1. ASSUME NEW k \in 1..n PROVE Apart(s.chunks[k], c)
    <3>1. s.chunks[k] \in s.heap
      BY <1>1, <1>2 DEF Chain, ToSet
    <3>2. NewSize(s, length) \in Nat /\ NewSize(s, length) > 0
      BY <1>3, <1>4, ObstackAssumption
    <3> QED
      BY <1>1, <3>1, <3>2, ChunkTyped, PlacesApart
  <2> QED
    BY <2>1
<1>7. Alone(s) => n > 0
  BY <1>1, <1>2 DEF Alone, Current
<1>8. m \in 0..n
  BY <1>2, <1>7
<1>9. ASSUME NEW k \in 1..n, NEW i \in 1..Len(g), g[i].at # NULL, In(s.chunks[k], g[i])
      PROVE  k <= m
  <2>1. g[i] \in [at : Nat, size : Nat]
    BY <1>1, ElementOfSeq DEF Placed
  <2>2. ASSUME Alone(s), k = n PROVE FALSE
    <3>1. g[i].at + g[i].size <= s.object_base /\ g[i].size > 0
      BY <1>1, <1>9, <2>2 DEF Behind, Alone
    <3>2. s.object_base = FirstBase(s.chunks[n]) /\ FirstBase(s.chunks[n]) <= g[i].at
      BY <1>9, <2>2 DEF Alone, Last, In
    <3> QED
      BY <1>1, <2>1, <3>1, <3>2 DEF Current
  <2> QED
    BY <1>2, <2>2
<1>10. /\ DOMAIN t = Fields /\ t.chunks = Append(SubSeq(s.chunks, 1, m), c)
      /\ t.heap = {s.chunks[k] : k \in 1..m} \cup {c}
      /\ t.object_base = FirstBase(c) /\ t.next_free = FirstBase(c) + Size(s)
      /\ t.maybe_empty_object = FALSE
  <2> DEFINE moved == MoveTo(s, c)
  <2>1. /\ DOMAIN moved = Fields /\ moved.chunks = s.chunks /\ moved.heap = s.heap \cup {c}
        /\ moved.object_base = FirstBase(c) /\ moved.next_free = FirstBase(c) + Size(s)
    BY <1>1 DEF MoveTo, Chain, Fields
  <2> HIDE DEF moved
  <2>2. CASE ~Alone(s)
    <3>1. t = [moved EXCEPT !.chunks = Append(@, c), !.maybe_empty_object = FALSE]
      BY <2>2 DEF NewChunk, moved
    <3>2. SubSeq(s.chunks, 1, m) = s.chunks
      BY <1>1, <2>2, SubSeqFull DEF Chain
    <3>3. s.heap = {s.chunks[k] : k \in 1..m}
      BY <1>1, <1>2, <2>2 DEF Chain, ToSet
    <3> HIDE DEF t, m
    <3> QED
      BY <2>1, <3>1, <3>2, <3>3 DEF Fields
  <2>3. CASE Alone(s)
    <3> DEFINE r == DropOld(moved)
    <3>1. t = [r EXCEPT !.chunks = Append(@, c), !.maybe_empty_object = FALSE]
      BY <2>3 DEF NewChunk, moved
    <3>2. /\ DOMAIN r = Fields /\ r.chunks = SubSeq(s.chunks, 1, n - 1)
          /\ r.heap = (s.heap \cup {c}) \ {s.chunks[n]}
          /\ r.object_base = FirstBase(c) /\ r.next_free = FirstBase(c) + Size(s)
      BY <2>1 DEF DropOld, Fields, Front, Last
    <3> HIDE DEF r, t
    <3>3. /\ DOMAIN t = Fields /\ t.chunks = Append(SubSeq(s.chunks, 1, n - 1), c)
          /\ t.heap = (s.heap \cup {c}) \ {s.chunks[n]}
          /\ t.object_base = FirstBase(c) /\ t.next_free = FirstBase(c) + Size(s)
          /\ t.maybe_empty_object = FALSE
      BY <3>1, <3>2 DEF Fields
    <3>4. (s.heap \cup {c}) \ {s.chunks[n]} = {s.chunks[k] : k \in 1..n - 1} \cup {c}
      <4>1. s.heap = {s.chunks[k] : k \in 1..n}
        BY <1>1, <1>2 DEF Chain, ToSet
      <4>2. ASSUME NEW j \in 1..n, NEW k \in 1..n, j # k PROVE s.chunks[j] # s.chunks[k]
        <5>1. Apart(s.chunks[j], s.chunks[k])
          BY <1>1, <4>2 DEF Chain
        <5>2. /\ s.chunks[j].at \in Nat /\ s.chunks[j].limit \in Nat
              /\ s.chunks[j].at < s.chunks[j].limit
          BY <1>1, ChunkTyped
        <5> QED
          BY <5>1, <5>2 DEF Apart
      <4>3. c # s.chunks[n]
        BY <1>1, <1>2, <1>5, <1>6, <1>7, <2>3, ChunkTyped DEF Apart
      <4>4. \A k \in 1..n : k = n \/ k \in 1..n - 1
        BY <1>2
      <4>5. \A k \in 1..n - 1 : k \in 1..n /\ k # n
        BY <1>2
      <4>6. n \in 1..n
        BY <1>2, <1>7, <2>3
      <4> QED
        BY <4>1, <4>2, <4>3, <4>4, <4>5, <4>6
    <3>5. m = n - 1
      BY <2>3
    <3> QED
      BY <3>3, <3>4, <3>5
  <2> QED
    BY <2>2, <2>3
<1>11. Good(t, g)
  <2>1. \A k \in 1..m : k \in 1..n
    BY <1>2, <1>8
  <2>2. c.at + Header + Mask + Size(s) <= c.limit
    BY <1>3, <1>5, ObstackAssumption
  <2> HIDE DEF t, m
  <2> QED
    BY <1>5, <1>6, <1>8, <1>9, <1>10, <2>1, <2>2, ChunkAppended
<1>12. Room(t) >= length
  <2>1. Limit(t) = c.limit
    <3>1. SubSeq(s.chunks, 1, m) \in Seq(Chunks)
      BY <1>1, <1>8, Kept
    <3> HIDE DEF t
    <3>2. t.chunks # <<>> /\ t.chunks[Len(t.chunks)] = c
      BY <1>5, <1>10, <3>1, AppendProperties
    <3> QED
      BY <3>2 DEF Limit, Last
  <2>2. FirstBase(c) \in Nat /\ FirstBase(c) <= c.at + Header + Mask
    <3>1. c.at + Header \in Nat
      BY <1>5, ObstackAssumption
    <3> QED
      BY <3>1, Rounding DEF FirstBase
  <2> HIDE DEF t
  <2> QED
    BY <1>3, <1>5, <1>10, <2>1, <2>2, ObstackAssumption DEF Room
<1> QED
  BY <1>11, <1>12

\* obstack_finish.
LEMMA FinishGood ==
    ASSUME NEW s, NEW g, Good(s, g), NEW t, DOMAIN t = Fields,
           t.chunks = s.chunks, t.heap = s.heap, t.maybe_empty_object = SeenEmpty(s),
           t.object_base = AlignedNext(s), t.next_free = AlignedNext(s)
    PROVE  Good(t, Append(g, Growing(s)))
<1> DEFINE n == Len(s.chunks)
           o == Growing(s)
           f == Append(g, o)
<1>1. Chain(s) /\ Current(s) /\ Placed(s, g) /\ Ordered(s, g) /\ Behind(s, g)
  BY DEF Good
<1>2. n \in Nat /\ (s.chunks = <<>> <=> n = 0) /\ Len(g) \in Nat /\ Limit(s) \in Nat
  BY <1>1, ChainLength, LenProperties DEF Placed
<1>3. o \in [at : Nat, size : Nat] /\ o.at = s.object_base /\ o.size = Size(s) /\ o.at + o.size = s.next_free
  BY <1>1 DEF Growing, Size, Current
<1>4. /\ f \in Seq([at : Nat, size : Nat]) /\ Len(f) = Len(g) + 1
      /\ (\A i \in 1..Len(g) : f[i] = g[i]) /\ f[Len(g) + 1] = o
  BY <1>1, <1>3, AppendProperties DEF Placed
<1> HIDE DEF f
<1>5. \A i \in 1..Len(f) : i \in 1..Len(g) \/ i = Len(g) + 1
  BY <1>2, <1>4
<1>6. Chain(t)
  BY <1>1 DEF Chain
<1>7. RoundUp(s.next_free) \in Nat /\ s.next_free <= RoundUp(s.next_free) /\ Aligned(RoundUp(s.next_free))
  BY <1>1, Rounding DEF Current
<1>8. t.object_base \in Nat
  BY <1>2, <1>7 DEF AlignedNext
<1>9. Growing(t) = [at |-> t.object_base, size |-> 0]
  BY <1>8 DEF Growing, Size
<1>10. (s.maybe_empty_object => t.maybe_empty_object) /\ (Size(s) = 0 => t.maybe_empty_object)
  BY Zenon DEF SeenEmpty
<1>11. t.maybe_empty_object \in BOOLEAN
  BY <1>1, Zenon DEF SeenEmpty, Current
<1>12. CASE s.chunks = <<>>
  <2>1. s.object_base = NULL /\ s.next_free = NULL /\ Limit(s) = NULL /\ s.maybe_empty_object
    BY <1>1, <1>12 DEF Current, Limit
  <2>2. t.object_base = NULL /\ t.next_free = NULL
    BY <1>7, <2>1 DEF AlignedNext, NULL
  <2>3. o.at = NULL /\ o.size = 0
    BY <1>3, <2>1 DEF NULL
  <2>4. ASSUME NEW i \in 1..Len(f) PROVE f[i].at = NULL /\ f[i].size = 0
    <3>1. CASE i \in 1..Len(g)
      BY <1>1, <1>4, <1>12, <3>1 DEF Behind, Placed
    <3>2. CASE i = Len(g) + 1
      BY <1>4, <2>3, <3>2
    <3> QED
      BY <1>5, <3>1, <3>2
  <2>5. Current(t)
    <3>1. t.maybe_empty_object
      BY <2>1, <1>10
    <3> QED
      BY <1>12, <1>11, <2>2, <3>1 DEF Current, NULL
  <2> QED
    BY <1>4, <1>6, <2>4, <2>5 DEF Good, Placed, Ordered, Behind, f
<1>13. CASE s.chunks # <<>>
  <2> DEFINE c == s.chunks[n]
  <2>1. n \in 1..n /\ c \in Chunks /\ c.limit = Limit(s) /\ c.limit \in Nat
    BY <1>1, <1>2, <1>13, ChainLength, ChunkTyped
  <2>2. In(c, o)
    BY <1>1, <1>13 DEF Current
  <2>3. o.at # NULL /\ Holds(c, o.at) /\ Holds(s.chunks[n], o.at)
    BY <1>3, <2>1, <2>2, InHolds DEF Holds, Chunks, Addresses, NULL
  <2> HIDE DEF c
  <2>4. /\ s.next_free <= t.object_base /\ t.object_base <= c.limit
        /\ Aligned(t.object_base) \/ t.object_base = c.limit
    BY <1>1, <1>2, <1>3, <1>7, <2>1, <2>2 DEF AlignedNext, In, Current
  <2>5. Current(t)
    <3>1. FirstBase(c) <= t.object_base
      <4>1. FirstBase(c) \in Nat
        <5>1. c.at + Header \in Nat
          BY <2>1, ObstackAssumption DEF Chunks, Addresses
        <5> QED
          BY <5>1, Rounding DEF FirstBase
      <4> QED
        BY <1>1, <1>3, <1>8, <2>2, <2>4, <4>1 DEF In, Current
    <3>2. In(c, [at |-> t.object_base, size |-> 0])
      BY <1>8, <2>4, <3>1 DEF In
    <3> QED
      BY <1>8, <1>9, <1>13, <1>11, <3>2 DEF Current, c
  <2>6. Placed(t, f)
    <3>1. ASSUME NEW i \in 1..Len(f)
          PROVE  IF f[i].at = NULL THEN f[i].size = 0
                 ELSE \E k \in 1..Len(t.chunks) : In(t.chunks[k], f[i])
      <4>1. CASE i \in 1..Len(g)
        BY <1>1, <1>4, <4>1 DEF Placed
      <4>2. CASE i = Len(g) + 1
        BY <1>4, <2>1, <2>2, <2>3, <4>2 DEF c
      <4> QED
        BY <1>5, <4>1, <4>2
    <3> QED
      BY <1>4, <3>1 DEF Placed
  <2>7. Ordered(t, f)
    <3>1. ASSUME NEW i \in 1..Len(f), NEW j \in 1..Len(f), i < j, f[i].at # NULL
          PROVE  f[j].at # NULL /\ Before(t, f[i], f[j])
      <4>1. i \in 1..Len(g) /\ f[i] = g[i]
        <5>1. i # Len(g) + 1
          <6>1. PICK last : last = Len(g)
            OBVIOUS
          <6>2. i \in 1..last + 1 /\ j \in 1..last + 1 /\ last \in Nat
            BY <1>2, <1>4, <6>1
          <6> QED
            BY <3>1, <6>1, <6>2
        <5> QED
          BY <1>4, <1>5, <5>1
      <4>2. CASE j \in 1..Len(g)
        <5>1. f[j] = g[j] /\ g[i].at # NULL
          BY <1>4, <3>1, <4>1, <4>2
        <5>2. g[j].at # NULL /\ Before(s, g[i], g[j])
          BY <1>1, <3>1, <4>1, <4>2, <5>1 DEF Ordered
        <5> QED
          BY <4>1, <5>1, <5>2 DEF Before
      <4>3. CASE j = Len(g) + 1
        <5>1. ASSUME NEW k \in 1..n, NEW l \in 1..n, In(s.chunks[k], g[i]), In(s.chunks[l], o)
              PROVE  k < l \/ (k = l /\ g[i].at + g[i].size <= o.at)
          <6>1. s.chunks[l] \in Chunks
            BY <1>1, ChunkTyped
          <6>2. Holds(s.chunks[l], o.at)
            BY <1>3, <5>1, <6>1, InHolds
          <6>3. l = n
            BY <1>1, <1>3, <2>1, <2>3, <6>2, InOnce
          <6>4. k = n => g[i].at + g[i].size <= o.at
            BY <1>1, <1>3, <3>1, <4>1, <5>1 DEF Behind
          <6> QED
            BY <1>2, <6>3, <6>4
        <5> QED
          BY <1>4, <2>3, <4>1, <4>3, <5>1 DEF Before
      <4> QED
        BY <1>5, <4>2, <4>3
    <3> QED
      BY <3>1 DEF Ordered
  <2>8. Behind(t, f)
    <3>1. ASSUME NEW i \in 1..Len(f), f[i].at # NULL, In(t.chunks[Len(t.chunks)], f[i])
          PROVE  f[i].at + f[i].size <= t.object_base /\ (t.maybe_empty_object \/ f[i].size > 0)
      <4>1. CASE i \in 1..Len(g)
        <5>1. g[i].at + g[i].size <= s.object_base /\ (s.maybe_empty_object \/ g[i].size > 0)
          BY <1>1, <1>4, <3>1, <4>1 DEF Behind
        <5>2. g[i] \in [at : Nat, size : Nat]
          BY <1>1, <4>1, ElementOfSeq DEF Placed
        <5>3. f[i].at + f[i].size <= t.object_base
          <6>1. f[i] = g[i] /\ g[i].at \in Nat /\ g[i].size \in Nat
            BY <1>4, <4>1, <5>2
          <6>2. s.object_base \in Nat /\ s.next_free \in Nat /\ s.object_base <= s.next_free
            BY <1>1 DEF Current
          <6> QED
            BY <1>8, <2>4, <5>1, <6>1, <6>2
        <5>4. t.maybe_empty_object \/ g[i].size > 0
          BY <1>10, <5>1, Zenon
        <5> QED
          BY <1>4, <4>1, <5>3, <5>4
      <4>2. CASE i = Len(g) + 1
        <5>1. f[i].at + f[i].size <= t.object_base
          BY <1>3, <1>4, <2>4, <4>2
        <5>2. Size(s) \in Nat /\ f[i].size = Size(s)
          BY <1>3, <1>4, <4>2
        <5>3. Size(s) = 0 \/ f[i].size > 0
          BY <5>2
        <5> QED
          BY <1>10, <5>1, <5>3, Zenon
      <4> QED
        BY <1>5, <4>1, <4>2
    <3> QED
      BY <1>13, <3>1 DEF Behind
  <2> QED
    BY <1>6, <2>5, <2>6, <2>7, <2>8 DEF Good, f
<1> QED
  BY <1>12, <1>13

(* The objects e are the first ones of g.                                  *)
First(e, g) ==
    /\ e \in Seq([at : Nat, size : Nat])
    /\ \A i \in 1..Len(e) : i \in 1..Len(g) /\ e[i] = g[i]

(* The objects e come before the address obj of the chunk k.               *)
Below(s, e, k, obj) ==
    \A l \in 1..Len(s.chunks), i \in 1..Len(e) :
        e[i].at # NULL /\ In(s.chunks[l], e[i]) => l < k \/ (l = k /\ e[i].at + e[i].size <= obj)

(* t says so when one of the objects e in the chunk k may be empty.        *)
Told(s, e, k, t) ==
    \A i \in 1..Len(e) :
        e[i].at # NULL /\ In(s.chunks[k], e[i]) => t.maybe_empty_object \/ e[i].size > 0

\* The chain ends at the chunk k, and the object that grows is an empty one at obj, behind the
\* first m objects.
LEMMA CutGood ==
    ASSUME NEW s, NEW g, Good(s, g), NEW e, First(e, g), NEW k \in 1..Len(s.chunks), NEW obj \in Nat,
           In(s.chunks[k], [at |-> obj, size |-> 0]), Below(s, e, k, obj), NEW t, Told(s, e, k, t),
           DOMAIN t = Fields, t.chunks = SubSeq(s.chunks, 1, k),
           t.heap = {s.chunks[j] : j \in 1..k}, t.object_base = obj, t.next_free = obj,
           t.maybe_empty_object \in BOOLEAN
    PROVE  Good(t, e)
<1>1. Chain(s) /\ Placed(s, g) /\ Ordered(s, g)
  BY DEF Good
<1>2. e \in Seq([at : Nat, size : Nat]) /\ \A i \in 1..Len(e) : i \in 1..Len(g) /\ e[i] = g[i]
  BY DEF First
<1>3. Len(s.chunks) \in Nat /\ k \in Nat /\ k \in 0..Len(s.chunks) /\ Len(e) \in Nat
  BY <1>1, <1>2, ChainLength, LenProperties
<1>4. /\ t.chunks \in Seq(Chunks) /\ Len(t.chunks) = k
      /\ \A j \in 1..k : t.chunks[j] = s.chunks[j] /\ j \in 1..Len(s.chunks)
  BY <1>1, <1>3, Kept
<1>5. DOMAIN t.chunks = 1..k /\ k \in 1..k /\ t.chunks # <<>>
  <2>1. DOMAIN t.chunks = 1..Len(t.chunks) /\ (t.chunks = <<>> <=> Len(t.chunks) = 0)
    BY <1>4, LenProperties, EmptySeq
  <2>2. k \in 1..k /\ k # 0
    BY <1>3
  <2> QED
    BY <1>4, <2>1, <2>2
<1>6. Chain(t)
  <2>1. t.heap = ToSet(t.chunks)
    BY <1>4, <1>5 DEF ToSet
  <2> QED
    BY <1>1, <1>4, <2>1 DEF Chain
<1>7. Current(t)
  <2>1. Growing(t) = [at |-> obj, size |-> 0]
    BY DEF Growing, Size
  <2> QED
    BY <1>4, <1>5, <2>1 DEF Current
<1>8. ASSUME NEW i \in 1..Len(e), e[i].at # NULL
      PROVE  \E l \in 1..k : In(t.chunks[l], e[i])
  <2>1. PICK l \in 1..Len(s.chunks) : In(s.chunks[l], e[i])
    BY <1>1, <1>8, <1>2 DEF Placed
  <2>2. l < k \/ l = k
    BY <1>8, <2>1, Zenon DEF Below
  <2>3. l \in 1..k
    BY <1>3, <2>2
  <2> QED
    BY <1>4, <2>1, <2>3
<1>9. Placed(t, e)
  <2>1. \A i \in 1..Len(e) : e[i].at = NULL => e[i].size = 0
    BY <1>1, <1>2 DEF Placed
  <2> QED
    BY <1>4, <1>8, <1>2, <2>1 DEF Placed
<1>10. Ordered(t, e)
  <2>1. ASSUME NEW i \in 1..Len(e), NEW j \in 1..Len(e), i < j, e[i].at # NULL
        PROVE  e[j].at # NULL /\ Before(t, e[i], e[j])
    <3>1. i \in 1..Len(g) /\ j \in 1..Len(g) /\ e[i] = g[i] /\ e[j] = g[j]
      BY <1>2
    <3>2. e[j].at # NULL /\ Before(s, e[i], e[j])
      BY <1>1, <2>1, <3>1 DEF Ordered
    <3> QED
      BY <1>4, <3>2 DEF Before
  <2> QED
    BY <2>1 DEF Ordered
<1>11. Behind(t, e)
  <2>1. ASSUME NEW i \in 1..Len(e), e[i].at # NULL, In(t.chunks[k], e[i])
        PROVE  e[i].at + e[i].size <= t.object_base /\ (t.maybe_empty_object \/ e[i].size > 0)
    <3>1. In(s.chunks[k], e[i])
      BY <1>4, <1>5, <2>1
    <3>2. e[i].at + e[i].size <= obj
      BY <1>3, <2>1, <3>1 DEF Below
    <3>3. t.maybe_empty_object \/ e[i].size > 0
      BY <2>1, <3>1, Zenon DEF Told
    <3> QED
      BY <3>2, <3>3, Zenon
  <2> QED
    BY <1>4, <1>5, <2>1 DEF Behind
<1> QED
  BY <1>6, <1>7, <1>9, <1>10, <1>11 DEF Good

(* The chunk at which obstack_free stops, and the ones that it frees.      *)
StopsAt(s, obj) == IF InCurrent(s, obj) THEN Len(s.chunks) ELSE Max(Holders(s, obj))

FreedAfter(s, k) == ToSet(SubSeq(s.chunks, k + 1, Len(s.chunks)))

\* By either path it stops at the chunk of the object, which is the last one for the macro.
LEMMA Stops ==
    ASSUME NEW s, Chain(s), NEW k \in 1..Len(s.chunks), NEW obj \in Nat,
           In(s.chunks[k], [at |-> obj, size |-> 0])
    PROVE  StopsAt(s, obj) = k /\ (InCurrent(s, obj) => k = Len(s.chunks))
<1> DEFINE last == Len(s.chunks)
<1>1. last \in Nat /\ DOMAIN s.chunks = 1..last /\ k \in Nat /\ last \in 1..last
  BY ChainLength
<1>2. [at |-> obj, size |-> 0] \in [at : Nat, size : Nat]
  OBVIOUS
<1>3. Max(Holders(s, obj)) = k
  BY <1>2, TheHolder
<1>4. InCurrent(s, obj) => k = last
  <2>1. SUFFICES ASSUME InCurrent(s, obj) PROVE k = last
    OBVIOUS
  <2>2. s.chunks[last].at < obj /\ obj < s.chunks[last].limit
    BY <2>1, ChainLength DEF InCurrent, Last
  <2>3. s.chunks[last] \in Chunks /\ s.chunks[k] \in Chunks /\ s.chunks[last].limit \in Nat
    BY <1>1, ChunkTyped
  <2>4. Holds(s.chunks[last], obj)
    BY <2>2, <2>3 DEF Holds
  <2>5. Holds(s.chunks[k], obj)
    BY <1>2, <2>3, InHolds
  <2> QED
    BY <1>1, <1>2, <2>4, <2>5, InOnce
<1> QED
  BY <1>3, <1>4 DEF StopsAt

LEMMA FreedChunks ==
    ASSUME NEW s, Chain(s), NEW k \in 1..Len(s.chunks)
    PROVE  FreedAfter(s, k) = {s.chunks[j] : j \in k + 1..Len(s.chunks)}
<1> DEFINE last == Len(s.chunks)
           rest == SubSeq(s.chunks, k + 1, last)
<1>1. last \in Nat /\ k \in Nat
  BY ChainLength
<1>2. \A j \in k + 1..last : s.chunks[j] \in Chunks
  BY <1>1, ChunkTyped
<1>3. /\ rest \in Seq(Chunks) /\ Len(rest) = last - k
      /\ \A i \in 1..last - k : rest[i] = s.chunks[k + i]
  <2>1. k + 1 \in Int /\ last \in Int /\ last - (k + 1) + 1 = last - k
    BY <1>1
  <2>2. \A i \in 1..last - k : k + 1 + i - 1 = k + i
    BY <1>1
  <2>3. IF k + 1 <= last THEN last - (k + 1) + 1 = last - k ELSE 0 = last - k
    BY <1>1
  <2> QED
    BY <1>2, <2>1, <2>2, <2>3, SubSeqProperties
<1> HIDE DEF rest
<1>4. DOMAIN rest = 1..last - k
  BY <1>3, LenProperties
<1>5. \A i \in 1..last - k : k + i \in k + 1..last
  BY <1>1
<1>6. \A j \in k + 1..last : j - k \in 1..last - k /\ k + (j - k) = j
  BY <1>1
<1>7. ToSet(rest) = {rest[i] : i \in 1..last - k}
  BY <1>4 DEF ToSet
<1>8. \A i \in 1..last - k : rest[i] \in {s.chunks[j] : j \in k + 1..last}
  BY <1>3, <1>5
<1>9. \A j \in k + 1..last : s.chunks[j] \in {rest[i] : i \in 1..last - k}
  BY <1>3, <1>6
<1>10. FreedAfter(s, k) = ToSet(rest)
  BY DEF rest, FreedAfter
<1> QED
  BY <1>7, <1>8, <1>9, <1>10

\* What it leaves.
LEMMA FreedIs ==
    ASSUME NEW s, Chain(s), s.maybe_empty_object \in BOOLEAN,
           NEW k \in 1..Len(s.chunks), NEW obj \in Nat, In(s.chunks[k], [at |-> obj, size |-> 0])
    PROVE  LET t == FreedTo(s, obj)
           IN  /\ DOMAIN t = Fields /\ t.chunks = SubSeq(s.chunks, 1, k)
               /\ t.heap = {s.chunks[j] : j \in 1..k}
               /\ t.object_base = obj /\ t.next_free = obj
               /\ t.maybe_empty_object \in BOOLEAN
               /\ t.maybe_empty_object
                    \/ (k = Len(s.chunks) /\ (s.maybe_empty_object => t.maybe_empty_object))
<1> DEFINE last == Len(s.chunks)
           t    == FreedTo(s, obj)
<1>1. last \in Nat /\ DOMAIN s.chunks = 1..last /\ k \in Nat
  BY ChainLength
<1>2. StopsAt(s, obj) = k /\ (InCurrent(s, obj) => k = last)
  BY Stops
<1>3. t = [s EXCEPT !.chunks = SubSeq(@, 1, StopsAt(s, obj)),
                    !.heap = @ \ FreedAfter(s, StopsAt(s, obj)),
                    !.object_base = obj, !.next_free = obj,
                    !.maybe_empty_object = @ \/ ~InCurrent(s, obj),
                    !.memory = t.memory]
  BY DEF FreedTo, StopsAt, FreedAfter
<1> HIDE DEF t
<1>4. DOMAIN s = Fields
  BY DEF Chain
<1>5. /\ DOMAIN t = Fields /\ t.chunks = SubSeq(s.chunks, 1, k) /\ t.heap = s.heap \ FreedAfter(s, k)
      /\ t.object_base = obj /\ t.next_free = obj
      /\ t.maybe_empty_object = (s.maybe_empty_object \/ ~InCurrent(s, obj))
  BY <1>2, <1>3, <1>4 DEF Fields
<1>6. s.heap \ FreedAfter(s, k) = {s.chunks[j] : j \in 1..k}
  <2>1. s.heap = {s.chunks[j] : j \in 1..last}
    BY <1>1 DEF Chain, ToSet
  <2>2. ASSUME NEW i \in 1..last, NEW j \in 1..last, i # j PROVE s.chunks[i] # s.chunks[j]
    <3>1. Apart(s.chunks[i], s.chunks[j])
      BY <2>2 DEF Chain
    <3>2. ~Apart(s.chunks[i], s.chunks[i])
      BY ChunkTyped DEF Apart
    <3> QED
      BY <3>1, <3>2
  <2>3. \A j \in 1..last : j \in 1..k \/ j \in k + 1..last
    BY <1>1
  <2>4. \A i \in 1..k, j \in k + 1..last : i \in 1..last /\ j \in 1..last /\ i # j
    BY <1>1
  <2>5. FreedAfter(s, k) = {s.chunks[j] : j \in k + 1..last}
    BY FreedChunks
  <2> QED
    BY <2>1, <2>2, <2>3, <2>4, <2>5
<1>7. t.maybe_empty_object \in BOOLEAN
  BY <1>5, Zenon
<1>8. t.maybe_empty_object \/ InCurrent(s, obj)
  BY <1>5, Zenon
<1>9. s.maybe_empty_object => t.maybe_empty_object
  BY <1>5, Zenon
<1> QED
  BY <1>2, <1>5, <1>6, <1>7, <1>8, <1>9 DEF t

\* obstack_free of the null pointer, and of an object that is one: no object that is left is
\* anywhere.
LEMMA EmptiedGood ==
    ASSUME NEW s, NEW g, Good(s, g), NEW e \in Seq([at : Nat, size : Nat]),
           \A i \in 1..Len(e) : e[i].at = NULL /\ e[i].size = 0
    PROVE  Good(Emptied(s), e)
<1> DEFINE t == Emptied(s)
<1>1. Chain(s)
  BY DEF Good
<1>2. /\ DOMAIN t = Fields /\ t.chunks = <<>> /\ t.heap = s.heap \ ToSet(s.chunks)
      /\ t.object_base = NULL /\ t.next_free = NULL /\ t.maybe_empty_object = TRUE
  BY <1>1 DEF Emptied, Chain, Fields
<1> HIDE DEF t
<1>3. Len(t.chunks) = 0 /\ t.chunks \in Seq(Chunks) /\ ToSet(t.chunks) = {}
  BY <1>2, EmptySeq DEF ToSet
<1>4. Chain(t)
  BY <1>1, <1>2, <1>3 DEF Chain
<1>5. Current(t)
  <2>1. t.maybe_empty_object /\ t.maybe_empty_object \in BOOLEAN
    BY <1>2, Zenon
  <2>2. t.object_base \in Nat /\ t.next_free \in Nat /\ t.object_base <= t.next_free
    BY <1>2 DEF NULL
  <2> QED
    BY <1>2, <2>1, <2>2 DEF Current
<1>6. Placed(t, e) /\ Ordered(t, e) /\ Behind(t, e)
  BY DEF Placed, Ordered, Behind
<1> QED
  BY <1>4, <1>5, <1>6 DEF Good, t

\* The obstack with room, new chunk or not.
LEMMA MadeRoomGood ==
    ASSUME NEW s, NEW g, Good(s, g), NEW length \in Nat, NEW r \in MadeRoom(s, length)
    PROVE  Good(r, g) /\ r.next_free + length \in r.object_base .. Limit(r)
<1>1. Chain(s) /\ Current(s)
  BY DEF Good
<1>2. Limit(s) \in Nat /\ s.next_free \in Nat
  BY <1>1, ChainLength DEF Current
<1>3. Good(r, g) /\ Room(r) >= length
  <2>1. CASE Room(s) >= length
    BY <2>1 DEF MadeRoom
  <2>2. CASE ~(Room(s) >= length)
    <3>1. PICK c \in Places(s.heap, NewSize(s, length)) : r = NewChunk(s, c)
      BY <2>2 DEF MadeRoom
    <3>2. s.chunks # <<>> \/ length > 0
      <4>1. CASE s.chunks = <<>>
        <5>1. Room(s) = 0
          BY <1>1, <4>1 DEF Room, Limit, Current, NULL
        <5> QED
          BY <2>2, <5>1
      <4> QED
        BY <4>1
    <3> QED
      BY <3>1, <3>2, NewChunkGood
  <2> QED
    BY <2>1, <2>2
<1>4. Chain(r) /\ Current(r)
  BY <1>3 DEF Good
<1>5. Limit(r) \in Nat
  BY <1>4, ChainLength
<1>6. r.next_free \in Nat /\ r.object_base \in Nat /\ r.object_base <= r.next_free
  BY <1>4 DEF Current
<1> QED
  BY <1>3, <1>5, <1>6 DEF Room

\* obstack_blank, and obstack_grow with what it writes.
LEMMA ExtendedGood ==
    ASSUME NEW s, NEW g, Good(s, g), NEW length \in Nat,
           s.next_free + length \in s.object_base .. Limit(s), NEW memory
    PROVE  Good([s EXCEPT !.next_free = @ + length, !.memory = memory], g)
<1> DEFINE t == [s EXCEPT !.next_free = @ + length, !.memory = memory]
<1>1. Chain(s)
  BY DEF Good
<1>2. /\ DOMAIN t = Fields /\ t.chunks = s.chunks /\ t.heap = s.heap
      /\ t.object_base = s.object_base /\ t.maybe_empty_object = s.maybe_empty_object
      /\ t.next_free = s.next_free + length
  BY <1>1 DEF Chain, Fields
<1> HIDE DEF t
<1>3. Good(t, g)
  BY <1>2, NextMoved
<1> QED
  BY <1>3 DEF t

LEMMA PutGood ==
    ASSUME NEW s, NEW g, Good(s, g), NEW length \in Nat,
           s.next_free + length \in s.object_base .. Limit(s)
    PROVE  Good(Put(s, Appended(length)), g)
<1>1. Len(Appended(length)) = length
  BY DEF Appended
<1> DEFINE memory == [a \in Addresses |->
                          IF a \in s.next_free .. s.next_free + length - 1
                          THEN Appended(length)[a - s.next_free + 1] ELSE s.memory[a]]
<1>2. Put(s, Appended(length)) = [s EXCEPT !.next_free = @ + length, !.memory = memory]
  BY <1>1 DEF Put
<1> HIDE DEF memory
<1>3. Good([s EXCEPT !.next_free = @ + length, !.memory = memory], g)
  BY ExtendedGood
<1> QED
  BY <1>2, <1>3

----------------------------------------------------------------------------
(* The steps.                                                              *)

LEMMA InitGood == Init => IndInv
<1> SUFFICES ASSUME Init PROVE IndInv
  OBVIOUS
<1>1. PICK c \in Places({}, ChunkSize) :
          h = [chunks |-> <<c>>, object_base |-> FirstBase(c), next_free |-> FirstBase(c),
               maybe_empty_object |-> FALSE,
               heap |-> {c}, memory |-> [a \in Addresses |-> Junk]]
  BY DEF Init
<1>2. given = <<>>
  BY DEF Init
<1>3. c \in Chunks /\ c.limit = c.at + ChunkSize
  BY DEF Places
<1>4. c.at + Header + Mask <= c.limit /\ c.at + Header + Mask + 0 <= c.limit
  BY <1>3, ObstackAssumption DEF Chunks, Addresses
<1>5. FirstBase(c) \in Nat /\ In(c, [at |-> FirstBase(c), size |-> 0])
  BY <1>3, <1>4, FirstFits
<1>6. /\ DOMAIN h = Fields /\ h.chunks = <<c>> /\ h.heap = {c} /\ h.object_base = FirstBase(c)
      /\ h.next_free = FirstBase(c) /\ h.maybe_empty_object = FALSE
  BY <1>1 DEF Fields
<1>7. Len(h.chunks) = 1 /\ h.chunks[1] = c /\ h.chunks \in Seq(Chunks) /\ ToSet(h.chunks) = {c}
  BY <1>3, <1>6 DEF ToSet
<1>8. Chain(h)
  BY <1>4, <1>6, <1>7 DEF Chain
<1>9. Current(h)
  <2>1. Growing(h) = [at |-> FirstBase(c), size |-> 0]
    BY <1>5, <1>6 DEF Growing, Size
  <2>2. h.maybe_empty_object \in BOOLEAN
    BY <1>6, Zenon
  <2> QED
    BY <1>5, <1>6, <1>7, <2>1, <2>2 DEF Current
<1>10. Placed(h, given) /\ Ordered(h, given) /\ Behind(h, given)
  BY <1>2, EmptySeq DEF Placed, Ordered, Behind
<1> QED
  BY <1>8, <1>9, <1>10 DEF IndInv, Good

LEMMA GrowKeeps == ASSUME IndInv, NEW length \in Nat, Grow(length) PROVE IndInv'
<1>1. PICK r \in MadeRoom(h, length) : h' = Put(r, Appended(length))
  BY DEF Grow
<1>2. Good(r, given) /\ r.next_free + length \in r.object_base .. Limit(r)
  BY MadeRoomGood DEF IndInv
<1> QED
  BY <1>1, <1>2, PutGood DEF IndInv, Grow

LEMMA BlankKeeps == ASSUME IndInv, NEW length \in Nat, Blank(length) PROVE IndInv'
<1>1. PICK r \in MadeRoom(h, length) : h' = [r EXCEPT !.next_free = @ + length]
  BY DEF Blank
<1>2. Good(r, given) /\ r.next_free + length \in r.object_base .. Limit(r)
  BY MadeRoomGood DEF IndInv
<1>3. DOMAIN r = Fields
  BY <1>2 DEF Good, Chain
<1>4. /\ DOMAIN h' = Fields /\ h'.chunks = r.chunks /\ h'.heap = r.heap
      /\ h'.object_base = r.object_base /\ h'.maybe_empty_object = r.maybe_empty_object
      /\ h'.next_free = r.next_free + length
  BY <1>1, <1>3 DEF Fields
<1>5. Good(h', given)
  BY <1>2, <1>4, NextMoved
<1> QED
  BY <1>5 DEF IndInv, Blank

LEMMA VPrintfKeeps == ASSUME IndInv, NEW length \in Nat, VPrintf(length) PROVE IndInv'
<1>1. PICK r \in MadeRoom(h, length + 1) : h' = Put(r, Appended(length)) \/ h' = r
  BY DEF VPrintf
<1>2. length + 1 \in Nat
  OBVIOUS
<1>3. Good(r, given) /\ r.next_free + (length + 1) \in r.object_base .. Limit(r)
  BY <1>2, MadeRoomGood DEF IndInv
<1>4. r.next_free + length \in r.object_base .. Limit(r)
  <2>1. Chain(r) /\ Current(r)
    BY <1>3 DEF Good
  <2>2. Limit(r) \in Nat
    BY <2>1, ChainLength
  <2> QED
    BY <1>3, <2>1, <2>2 DEF Current
<1>5. Good(Put(r, Appended(length)), given)
  BY <1>3, <1>4, PutGood
<1> QED
  BY <1>1, <1>3, <1>5 DEF IndInv, VPrintf

LEMMA ShrinkKeeps == ASSUME IndInv, NEW length \in Nat, Shrink(length) PROVE IndInv'
<1>1. Chain(h) /\ Current(h) /\ Good(h, given)
  BY DEF IndInv, Good
<1>2. /\ DOMAIN h' = Fields /\ h'.chunks = h.chunks /\ h'.heap = h.heap
      /\ h'.object_base = h.object_base /\ h'.maybe_empty_object = h.maybe_empty_object
      /\ h'.next_free = h.next_free - length
  BY <1>1 DEF Shrink, Chain, Fields
<1>3. h.next_free <= Limit(h)
  <2>1. CASE h.chunks = <<>>
    BY <1>1, <2>1 DEF Current, Limit, NULL
  <2>2. CASE h.chunks # <<>>
    BY <1>1, <2>2, ChainLength DEF Current, Growing, Size, In
  <2> QED
    BY <2>1, <2>2
<1>4. Limit(h) \in Nat
  BY <1>1, ChainLength
<1>5. h'.next_free \in h.object_base .. Limit(h)
  BY <1>1, <1>2, <1>3, <1>4 DEF Shrink, Current, Size
<1>6. Good(h', given)
  BY <1>1, <1>2, <1>5, NextMoved
<1> QED
  BY <1>6 DEF IndInv, Shrink

LEMMA FinishKeeps == ASSUME IndInv, Finish PROVE IndInv'
<1>1. DOMAIN h = Fields
  BY DEF IndInv, Good, Chain
<1>2. /\ DOMAIN h' = Fields /\ h'.chunks = h.chunks /\ h'.heap = h.heap
      /\ h'.maybe_empty_object = SeenEmpty(h)
      /\ h'.object_base = AlignedNext(h) /\ h'.next_free = AlignedNext(h)
  BY <1>1 DEF Finish, Fields
<1>3. given' = Append(given, Growing(h))
  BY DEF Finish, Growing
<1>4. Good(h, given)
  BY DEF IndInv
<1>5. Good(h', Append(given, Growing(h)))
  BY <1>2, <1>4, FinishGood
<1> QED
  BY <1>3, <1>5 DEF IndInv

\* The first objects.
LEMMA Prefix ==
    ASSUME NEW g \in Seq([at : Nat, size : Nat]), NEW m \in 0..Len(g)
    PROVE  /\ SubSeq(g, 1, m) \in Seq([at : Nat, size : Nat]) /\ Len(SubSeq(g, 1, m)) = m
           /\ \A k \in 1..m : SubSeq(g, 1, m)[k] = g[k]
<1>1. Len(g) \in Nat /\ m \in Nat
  BY LenProperties
<1>2. ASSUME NEW k \in 1..m PROVE g[k] \in [at : Nat, size : Nat]
  <2>1. k \in 1..Len(g)
    BY <1>1
  <2> QED
    BY <2>1, ElementOfSeq
<1>3. m - 1 + 1 = m /\ 1 - 1 = 0
  BY <1>1
<1>4. \A k \in 1..m : 1 + k - 1 = k
  BY <1>1
<1> QED
  BY <1>1, <1>2, <1>3, <1>4, SubSeqProperties

LEMMA FreeGrowingKeeps == ASSUME IndInv, FreeGrowing PROVE IndInv'
<1> DEFINE k == Len(h.chunks)
           t == FreedTo(h, h.object_base)
<1>1. Good(h, given) /\ Chain(h) /\ Current(h) /\ Placed(h, given) /\ Behind(h, given)
  BY DEF IndInv, Good
<1>2. h' = t /\ given' = given /\ h.object_base # NULL
  BY DEF FreeGrowing, Freed
<1>3. h.chunks # <<>> /\ k \in 1..k /\ k \in Nat
  <2>1. h.chunks # <<>>
    BY <1>1, <1>2 DEF Current
  <2> QED
    BY <1>1, <2>1, ChainLength
<1>4. h.object_base \in Nat /\ In(h.chunks[k], [at |-> h.object_base, size |-> 0])
  <2>1. h.chunks[k] \in Chunks /\ h.chunks[k].limit \in Nat
    BY <1>1, <1>3, ChunkTyped
  <2> QED
    BY <1>1, <1>3, <2>1 DEF Current, In, Growing, Size
<1>5. h.maybe_empty_object \in BOOLEAN
  BY <1>1 DEF Current
<1>6. /\ DOMAIN t = Fields /\ t.chunks = SubSeq(h.chunks, 1, k)
      /\ t.heap = {h.chunks[j] : j \in 1..k}
      /\ t.object_base = h.object_base /\ t.next_free = h.object_base
      /\ t.maybe_empty_object \in BOOLEAN
      /\ t.maybe_empty_object
           \/ (k = Len(h.chunks) /\ (h.maybe_empty_object => t.maybe_empty_object))
  BY <1>1, <1>3, <1>4, <1>5, FreedIs
<1> HIDE DEF t
<1>7. First(given, given)
  BY <1>1 DEF First, Placed
<1>8. ASSUME NEW l \in 1..k, NEW i \in 1..Len(given), given[i].at # NULL, In(h.chunks[l], given[i])
      PROVE  l < k \/ (l = k /\ given[i].at + given[i].size <= h.object_base)
  BY <1>1, <1>3, <1>8 DEF Behind
<1>9. ASSUME NEW i \in 1..Len(given), given[i].at # NULL, In(h.chunks[k], given[i])
      PROVE  t.maybe_empty_object \/ given[i].size > 0
  <2>1. h.maybe_empty_object \/ given[i].size > 0
    BY <1>1, <1>9 DEF Behind
  <2> QED
    BY <1>6, <2>1, Zenon
<1>10. Below(h, given, k, h.object_base) /\ Told(h, given, k, t)
  BY <1>8, <1>9, Zenon DEF Below, Told
<1>11. Good(t, given)
  BY <1>1, <1>3, <1>4, <1>6, <1>7, <1>10, CutGood
<1> QED
  BY <1>2, <1>11 DEF IndInv

LEMMA FreeAllKeeps == ASSUME IndInv, FreeAll PROVE IndInv'
<1>1. Len(<<>>) = 0 /\ <<>> \in Seq([at : Nat, size : Nat])
  OBVIOUS
<1>2. Good(h, given) /\ \A i \in 1..Len(<<>>) : <<>>[i].at = NULL /\ <<>>[i].size = 0
  BY <1>1 DEF IndInv
<1>3. Good(Emptied(h), <<>>)
  BY <1>1, <1>2, EmptiedGood
<1> QED
  BY <1>3 DEF FreeAll, Freed, IndInv

LEMMA FreeKeeps == ASSUME IndInv, NEW i \in 1..Len(given), Free(i) PROVE IndInv'
<1> DEFINE e   == SubSeq(given, 1, i - 1)
           obj == given[i].at
<1>1. /\ Good(h, given) /\ Chain(h) /\ Current(h) /\ Placed(h, given) /\ Ordered(h, given)
      /\ Behind(h, given)
  BY DEF IndInv, Good
<1>2. h' = Freed(h, obj) /\ given' = e
  BY DEF Free
<1>3. given \in Seq([at : Nat, size : Nat]) /\ Len(given) \in Nat
  BY <1>1, LenProperties DEF Placed
<1>4. i - 1 \in 0..Len(given)
  BY <1>3
<1>5. /\ e \in Seq([at : Nat, size : Nat]) /\ Len(e) = i - 1
      /\ \A j \in 1..i - 1 : e[j] = given[j]
  BY <1>3, <1>4, Prefix
<1>6. \A j \in 1..i - 1 : j \in 1..Len(given) /\ j < i
  BY <1>3
<1> HIDE DEF e
<1>7. given[i] \in [at : Nat, size : Nat] /\ obj \in Nat
  <2>1. given[i] \in [at : Nat, size : Nat]
    BY <1>3, ElementOfSeq
  <2> QED
    BY <2>1
<1>8. CASE obj = NULL
  <2>1. ASSUME NEW j \in 1..Len(e) PROVE e[j].at = NULL /\ e[j].size = 0
    <3>1. j \in 1..Len(given) /\ j < i /\ e[j] = given[j]
      BY <1>5, <1>6
    <3>2. given[j].at = NULL
      BY <1>1, <1>8, <3>1 DEF Ordered
    <3> QED
      BY <1>1, <3>1, <3>2 DEF Placed
  <2>2. Good(Emptied(h), e)
    BY <1>1, <1>5, <2>1, EmptiedGood
  <2> QED
    BY <1>2, <1>8, <2>2 DEF Freed, IndInv
<1>9. CASE obj # NULL
  <2> DEFINE t == FreedTo(h, obj)
  <2>1. PICK k \in 1..Len(h.chunks) : In(h.chunks[k], given[i])
    BY <1>1, <1>9 DEF Placed
  <2>2. In(h.chunks[k], [at |-> obj, size |-> 0])
    <3>1. h.chunks[k] \in Chunks /\ h.chunks[k].limit \in Nat
      BY <1>1, ChunkTyped
    <3> QED
      BY <1>7, <2>1, <3>1 DEF In
  <2>3. h.maybe_empty_object \in BOOLEAN
    BY <1>1 DEF Current
  <2>4. /\ DOMAIN t = Fields /\ t.chunks = SubSeq(h.chunks, 1, k)
        /\ t.heap = {h.chunks[j] : j \in 1..k}
        /\ t.object_base = obj /\ t.next_free = obj
        /\ t.maybe_empty_object \in BOOLEAN
        /\ t.maybe_empty_object
             \/ (k = Len(h.chunks) /\ (h.maybe_empty_object => t.maybe_empty_object))
    BY <1>1, <1>7, <2>2, <2>3, FreedIs
  <2>5. h' = t
    BY <1>2, <1>9 DEF Freed
  <2> HIDE DEF t
  <2>6. ASSUME NEW l \in 1..Len(h.chunks), NEW j \in 1..Len(e), e[j].at # NULL, In(h.chunks[l], e[j])
        PROVE  l < k \/ (l = k /\ e[j].at + e[j].size <= obj)
    <3>1. j \in 1..Len(given) /\ j < i /\ e[j] = given[j]
      BY <1>5, <1>6
    <3>2. Before(h, given[j], given[i])
      BY <1>1, <2>6, <3>1 DEF Ordered
    <3> QED
      BY <2>1, <2>6, <3>1, <3>2 DEF Before
  <2>7. ASSUME NEW j \in 1..Len(e), e[j].at # NULL, In(h.chunks[k], e[j])
        PROVE  t.maybe_empty_object \/ e[j].size > 0
    <3>1. j \in 1..Len(given) /\ e[j] = given[j]
      BY <1>5, <1>6
    <3>2. k = Len(h.chunks) => h.maybe_empty_object \/ e[j].size > 0
      BY <1>1, <2>7, <3>1 DEF Behind
    <3> QED
      BY <2>4, <3>2, Zenon
  <2>8. First(e, given)
    BY <1>5, <1>6 DEF First
  <2> HIDE DEF obj
  <2>9. Below(h, e, k, obj) /\ Told(h, e, k, t)
    BY <2>6, <2>7, Zenon DEF Below, Told
  <2>10. Good(t, e)
    BY <1>1, <1>7, <2>2, <2>4, <2>8, <2>9, CutGood
  <2> QED
    BY <1>2, <2>5, <2>10 DEF IndInv
<1> QED
  BY <1>8, <1>9

LEMMA GoodKept == IndInv /\ [Next]_vars => IndInv'
<1> SUFFICES ASSUME IndInv, [Next]_vars PROVE IndInv'
  OBVIOUS
<1>1. 0..MaxSize \subseteq Nat
  BY ObstackAssumption
<1>2. ASSUME NEW length \in 0..MaxSize, Grow(length) PROVE IndInv'
  BY <1>1, <1>2, GrowKeeps
<1>3. ASSUME NEW length \in 0..MaxSize, VPrintf(length) PROVE IndInv'
  BY <1>1, <1>3, VPrintfKeeps
<1>4. ASSUME NEW length \in 0..MaxSize, Blank(length) PROVE IndInv'
  BY <1>1, <1>4, BlankKeeps
<1>5. ASSUME NEW length \in 0..MaxSize, Shrink(length) PROVE IndInv'
  BY <1>1, <1>5, ShrinkKeeps
<1>6. CASE Finish
  BY <1>6, FinishKeeps
<1>7. CASE FreeGrowing
  BY <1>7, FreeGrowingKeeps
<1>8. CASE FreeAll
  BY <1>8, FreeAllKeeps
<1>9. ASSUME NEW i \in 1..Len(given), Free(i) PROVE IndInv'
  BY <1>9, FreeKeeps
<1>10. CASE UNCHANGED vars
  BY <1>10 DEF vars, IndInv
<1> QED
  BY <1>2, <1>3, <1>4, <1>5, <1>6, <1>7, <1>8, <1>9, <1>10 DEF Next

LEMMA GoodAlways == Spec => []IndInv
  BY InitGood, GoodKept, PTL DEF Spec

----------------------------------------------------------------------------

\* The chain holds every chunk that was allocated and not freed, once: obstack_free and
\* _obstack_newchunk lose no chunk and free none twice.
THEOREM AllChunksOwned == Spec => []ChunksOwned
  BY GoodAlways, GoodOwned, PTL

\* Whatever the caller does, each object it has is inside of a chunk of the chain, the later
\* ones behind it, and aligned if it is not empty: obstack_free finds its chunk and never aborts.
THEOREM AllObjectsPlaced == Spec => []ObjectsPlaced
  BY GoodAlways, GoodPlaced, PTL

----------------------------------------------------------------------------
(* What an Obstack keeps in memory: it implements ObjectStack, for every   *)
(* alignment and size and wherever the allocator puts the chunks.  No byte *)
(* of an object is lost or changed when the object that grows moves, when  *)
(* a chunk is freed, and when objects are given back.                      *)

Known == Bytes \cup {Junk}

Stored(s) == s.memory \in [Addresses -> Known]

Sized(s, g) ==
    /\ Size(s) <= MaxSize /\ Len(g) <= MaxObjects
    /\ \A i \in 1..Len(g) : g[i].size <= MaxSize

(* The inductive invariant: the objects are in place, and small enough for *)
(* the bytes that the caller writes to be different at each place.         *)
MemInv == IndInv /\ Stored(h) /\ Sized(h, given)

(* The bytes of the objects g are the same in t.                           *)
Keeps(s, t, g) ==
    \A k \in 1..Len(g) : \A i \in 1..g[k].size :
        t.memory[g[k].at + i - 1] = s.memory[g[k].at + i - 1]

(* The first bytes of the object that grows are the ones it had.           *)
Carries(s, t, size) ==
    \A i \in 1..size : t.memory[t.object_base + i - 1] = s.memory[s.object_base + i - 1]

----------------------------------------------------------------------------
(* Where objects are.                                                      *)

\* An object that has bytes is in a chunk, and no byte of it is where the object that grows is or
\* may come to be.
LEMMA ObjectSpace ==
    ASSUME NEW s, NEW g, Good(s, g), NEW i \in 1..Len(g), NEW j \in 1..g[i].size
    PROVE  /\ g[i] \in [at : Nat, size : Nat] /\ g[i].at # NULL
           /\ g[i].at + j - 1 \in Addresses
           /\ \E k \in 1..Len(s.chunks) :
                 In(s.chunks[k], g[i]) /\ g[i].at + j - 1 \in Within(s.chunks[k])
           /\ g[i].at + j - 1 \notin s.object_base .. Limit(s) - 1
<1> DEFINE a == g[i].at + j - 1
           n == Len(s.chunks)
<1>1. Chain(s) /\ Current(s) /\ Placed(s, g) /\ Behind(s, g)
  BY DEF Good
<1>2. g[i] \in [at : Nat, size : Nat]
  BY <1>1, ElementOfSeq DEF Placed
<1>3. g[i].at # NULL
  BY <1>1, <1>2 DEF Placed
<1>4. PICK k \in 1..n : In(s.chunks[k], g[i])
  BY <1>1, <1>3 DEF Placed
<1>5. /\ s.chunks[k] \in Chunks /\ s.chunks[k].at \in Nat \ {0} /\ s.chunks[k].limit \in Nat
      /\ s.chunks[k].limit <= Top
  BY <1>1, ChunkTyped, ObstackAssumption DEF Chunks, Addresses
<1>6. Holds(s.chunks[k], g[i].at)
  BY <1>2, <1>4, <1>5, InHolds
<1>7. g[i].at + g[i].size <= s.chunks[k].limit
  BY <1>4 DEF In
<1>8. a \in Within(s.chunks[k])
  <2>1. PICK at, size, from, to : /\ at = g[i].at /\ size = g[i].size
                                  /\ from = s.chunks[k].at /\ to = s.chunks[k].limit
    OBVIOUS
  <2>2. j \in 1..size /\ at \in Nat /\ size \in Nat /\ from \in Nat /\ to \in Nat
    BY <1>2, <1>5, <2>1
  <2>3. from < at /\ at + size <= to
    BY <1>6, <1>7, <2>1 DEF Holds
  <2>4. at + j - 1 \in from .. to - 1
    BY <2>2, <2>3
  <2> QED
    BY <2>1, <2>4 DEF Within
<1>9. a \in Addresses
  <2>1. PICK from, to : from = s.chunks[k].at /\ to = s.chunks[k].limit
    OBVIOUS
  <2>2. PICK x : x = a
    OBVIOUS
  <2>3. from \in Nat \ {0} /\ to \in Nat /\ to <= Top /\ x \in from .. to - 1
    BY <1>5, <1>8, <2>1, <2>2 DEF Within
  <2>4. x \in 1..Top
    BY <2>3, ObstackAssumption
  <2> QED
    BY <2>2, <2>4 DEF Addresses
<1>10. s.chunks # <<>> /\ n \in 1..n /\ n \in Nat /\ Limit(s) = s.chunks[n].limit
  BY <1>1, ChainLength
<1>11. CASE k = n
  <2>1. g[i].at + g[i].size <= s.object_base
    BY <1>1, <1>3, <1>4, <1>11 DEF Behind
  <2>2. a \notin s.object_base .. Limit(s) - 1
    <3>1. PICK at, size, base : at = g[i].at /\ size = g[i].size /\ base = s.object_base
      OBVIOUS
    <3>2. at \in Nat /\ size \in Nat /\ j \in 1..size /\ base \in Nat /\ at + size <= base
      BY <1>1, <1>2, <2>1, <3>1 DEF Current
    <3>3. at + j - 1 < base
      BY <3>2
    <3>4. \A x \in base .. Limit(s) - 1 : base <= x
      OBVIOUS
    <3> QED
      BY <3>1, <3>2, <3>3, <3>4
  <2> QED
    BY <1>2, <1>3, <1>4, <1>8, <1>9, <2>2
<1>12. CASE k # n
  <2>1. Apart(s.chunks[k], s.chunks[n])
    BY <1>1, <1>10, <1>12 DEF Chain
  <2>2. s.chunks[n] \in Chunks /\ s.chunks[n].at \in Nat \ {0} /\ s.chunks[n].limit \in Nat
    BY <1>1, <1>10, ChunkTyped
  <2>3. s.chunks[n].at < s.object_base
    <3>1. In(s.chunks[n], Growing(s)) /\ Growing(s) \in [at : Nat, size : Nat]
      BY <1>1, <1>10 DEF Current, Growing, Size
    <3> QED
      BY <2>2, <3>1, InHolds DEF Holds, Growing
  <2>4. a \notin s.object_base .. s.chunks[n].limit - 1
    <3>1. s.object_base \in Nat /\ a \in s.chunks[k].at .. s.chunks[k].limit - 1
      BY <1>1, <1>8 DEF Current, Within
    <3> HIDE DEF a
    <3>2. PICK p, q, u, v : /\ p = s.chunks[k].at /\ q = s.chunks[k].limit
                            /\ u = s.chunks[n].at /\ v = s.chunks[n].limit
      OBVIOUS
    <3>3. p \in Nat /\ q \in Nat /\ u \in Nat /\ v \in Nat
      BY <1>5, <2>2, <3>2
    <3>4. u < s.object_base /\ a \in p .. q - 1 /\ (q <= u \/ v <= p)
      BY <2>1, <2>3, <3>1, <3>2 DEF Apart
    <3>5. a \notin s.object_base .. v - 1
      BY <3>1, <3>3, <3>4
    <3> QED
      BY <3>2, <3>5
  <2> QED
    BY <1>2, <1>3, <1>4, <1>8, <1>9, <1>10, <2>4
<1> QED
  BY <1>11, <1>12

\* The object that grows is inside of the last chunk, or empty.
LEMMA GrowingSpace ==
    ASSUME NEW s, NEW g, Good(s, g)
    PROVE  /\ Size(s) \in Nat /\ s.object_base \in Nat /\ s.next_free = s.object_base + Size(s)
           /\ s.next_free <= Limit(s) /\ Limit(s) \in 0..Top
           /\ Limit(s) > 0 => s.object_base > 0
<1>1. Chain(s) /\ Current(s)
  BY DEF Good
<1>2. /\ Size(s) \in Nat /\ s.object_base \in Nat /\ s.next_free = s.object_base + Size(s)
  BY <1>1 DEF Current, Size
<1>3. CASE s.chunks = <<>>
  BY <1>1, <1>2, <1>3, ObstackAssumption DEF Current, Limit, NULL
<1>4. CASE s.chunks # <<>>
  <2> DEFINE n == Len(s.chunks)
  <2>1. n \in 1..n /\ Limit(s) = s.chunks[n].limit
    BY <1>1, <1>4, ChainLength
  <2>2. s.chunks[n] \in Chunks /\ s.chunks[n].limit \in 0..Top
    BY <1>1, <2>1, ChunkTyped, ObstackAssumption DEF Chunks, Addresses
  <2>3. In(s.chunks[n], Growing(s)) /\ Growing(s) \in [at : Nat, size : Nat]
    BY <1>1, <1>2, <1>4 DEF Current, Growing
  <2>4. s.object_base > 0
    BY <2>2, <2>3, InHolds, ObstackAssumption DEF Holds, Growing, Chunks, Addresses
  <2> QED
    BY <1>2, <2>1, <2>2, <2>3, <2>4 DEF In, Growing
<1> QED
  BY <1>3, <1>4

\* A byte of the object that grows, and of the room behind it.
LEMMA GrowingAddress ==
    ASSUME NEW s, NEW g, Good(s, g), NEW a \in s.object_base .. Limit(s) - 1
    PROVE  a \in Addresses
  BY GrowingSpace, ObstackAssumption DEF Addresses

----------------------------------------------------------------------------
(* A new chunk.                                                            *)

\* Chunks that do not overlap have no byte in common.
LEMMA NoByteShared ==
    ASSUME NEW c \in Chunks, NEW d \in Chunks, Apart(c, d), NEW a \in Within(c)
    PROVE  a \notin Within(d)
<1>1. {c.at, c.limit, d.at, d.limit} \subseteq Nat
  BY ObstackAssumption DEF Chunks, Addresses
<1>2. a \in Int /\ c.at <= a /\ a < c.limit
  BY <1>1 DEF Within
<1>3. CASE c.limit <= d.at
  BY <1>1, <1>2, <1>3 DEF Within
<1>4. CASE d.limit <= c.at
  BY <1>1, <1>2, <1>4 DEF Within
<1> QED
  BY <1>3, <1>4 DEF Apart

\* Where malloc puts it, and that the object fits in.
LEMMA NewPlace ==
    ASSUME NEW s, NEW g, Good(s, g), NEW length \in Nat, NEW c \in Places(s.heap, NewSize(s, length))
    PROVE  /\ c \in Chunks /\ c.at \in Nat /\ c.limit \in Nat /\ FirstBase(c) \in Nat
           /\ c.at < FirstBase(c) /\ FirstBase(c) + Size(s) <= c.limit
           /\ \A k \in 1..Len(s.chunks) : Apart(s.chunks[k], c)
<1>1. Chain(s) /\ Size(s) \in Nat
  BY GrowingSpace DEF Good
<1>2. NewSize(s, length) \in Nat /\ NewSize(s, length) >= Size(s) + length + Mask + Header
  BY <1>1, NewSizeEnough
<1>3. c \in Chunks /\ c.limit = c.at + NewSize(s, length)
  BY DEF Places
<1>4. c.at \in Nat /\ c.limit \in Nat /\ c.at + Header \in Nat
  BY <1>3, ObstackAssumption DEF Chunks, Addresses
<1>5. FirstBase(c) \in Nat /\ c.at + Header <= FirstBase(c) /\ FirstBase(c) <= c.at + Header + Mask
  BY <1>4, Rounding DEF FirstBase
<1>6. c.at < FirstBase(c) /\ FirstBase(c) + Size(s) <= c.limit
  BY <1>1, <1>2, <1>3, <1>4, <1>5, ObstackAssumption
<1>7. ASSUME NEW k \in 1..Len(s.chunks) PROVE Apart(s.chunks[k], c)
  <2>1. s.chunks[k] \in s.heap
    BY <1>1, ChainLength DEF Chain, ToSet
  <2>2. NewSize(s, length) > 0
    BY <1>1, <1>2, ObstackAssumption
  <2> QED
    BY <1>1, <1>2, <2>1, <2>2, ChunkTyped, PlacesApart
<1> QED
  BY <1>3, <1>4, <1>5, <1>6, <1>7

\* Nothing is in the last chunk but the object that grows when it is alone there.
LEMMA AloneThere ==
    ASSUME NEW s, NEW g, Good(s, g), Alone(s), NEW i \in 1..Len(g), g[i].at # NULL
    PROVE  ~In(s.chunks[Len(s.chunks)], g[i])
<1>1. Chain(s) /\ Current(s) /\ Placed(s, g) /\ Behind(s, g)
  BY DEF Good
<1>2. g[i] \in [at : Nat, size : Nat]
  BY <1>1, ElementOfSeq DEF Placed
<1>3. SUFFICES ASSUME In(s.chunks[Len(s.chunks)], g[i]) PROVE FALSE
  OBVIOUS
<1>4. g[i].at + g[i].size <= s.object_base /\ (s.maybe_empty_object \/ g[i].size > 0)
  BY <1>1, <1>3 DEF Behind
<1>5. g[i].size > 0
  BY <1>4, Zenon DEF Alone
<1>6. s.object_base = FirstBase(s.chunks[Len(s.chunks)])
  BY DEF Alone, Last
<1>7. s.object_base <= g[i].at
  BY <1>3, <1>6 DEF In
<1> QED
  BY <1>1, <1>2, <1>4, <1>5, <1>7 DEF Current

\* _obstack_newchunk copies the object that grows, and nothing else changes: also when the chunk
\* it leaves is freed.
LEMMA NewChunkKeeps ==
    ASSUME NEW s, NEW g, Good(s, g), Stored(s), NEW length \in Nat,
           NEW c \in Places(s.heap, NewSize(s, length)), s.chunks # <<>> \/ length > 0
    PROVE  LET t == NewChunk(s, c)
           IN  Stored(t) /\ Size(t) = Size(s) /\ Keeps(s, t, g) /\ Carries(s, t, Size(s))
<1> DEFINE n    == Len(s.chunks)
           base == FirstBase(c)
           old  == s.object_base .. s.next_free - 1
           m    == MoveTo(s, c).memory
           t    == NewChunk(s, c)
<1>1. Chain(s) /\ Current(s) /\ DOMAIN s = Fields /\ Placed(s, g)
  BY DEF Good, Chain
<1>2. /\ c \in Chunks /\ c.at \in Nat /\ c.limit \in Nat /\ base \in Nat
      /\ c.at < base /\ base + Size(s) <= c.limit /\ c.limit <= Top
      /\ \A k \in 1..n : Apart(s.chunks[k], c)
  BY NewPlace, ObstackAssumption DEF Chunks, Addresses
<1>3. /\ Size(s) \in Nat /\ s.object_base \in Nat /\ s.next_free = s.object_base + Size(s)
      /\ s.next_free <= Limit(s) /\ Limit(s) \in 0..Top
      /\ Limit(s) > 0 => s.object_base > 0
  BY GrowingSpace
<1>4. m = [a \in Addresses |-> IF a \in base .. base + Size(s) - 1 THEN s.memory[a - base + s.object_base]
                               ELSE IF a \in old THEN Junk ELSE s.memory[a]]
  BY <1>1 DEF MoveTo, Fields
<1>5. t.object_base = base /\ t.next_free = base + Size(s)
  BY <1>1 DEF NewChunk, DropOld, MoveTo, Fields
<1>6. t.memory = IF Alone(s) THEN Forget(m, Within(s.chunks[n])) ELSE m
  BY <1>1 DEF NewChunk, DropOld, MoveTo, Fields, Last
<1> HIDE DEF t, m, base
<1>7. ASSUME NEW i \in 1..Size(s)
      PROVE  /\ base + i - 1 \in Addresses /\ base + i - 1 \in Within(c)
             /\ m[base + i - 1] = s.memory[s.object_base + i - 1]
  <2>1. base + i - 1 \in Addresses /\ base + i - 1 \in Within(c)
    BY <1>2, <1>3, ObstackAssumption DEF Addresses, Within
  <2> DEFINE a == base + i - 1
  <2>2. a \in base .. base + Size(s) - 1 /\ a - base + s.object_base = s.object_base + i - 1
    BY <1>2, <1>3
  <2> HIDE DEF a
  <2>3. m[a] = s.memory[a - base + s.object_base]
    BY <1>4, <2>1, <2>2 DEF a
  <2> QED
    BY <2>1, <2>2, <2>3 DEF a
<1>8. \A i \in 1..Size(s) : s.memory[s.object_base + i - 1] \in Known
  <2>1. ASSUME NEW i \in 1..Size(s) PROVE s.object_base + i - 1 \in Addresses
    BY <1>3, ObstackAssumption DEF Addresses
  <2> QED
    BY <2>1 DEF Stored
<1>9. Stored(t)
  <2>1. m \in [Addresses -> Known]
    <3>1. ASSUME NEW a \in Addresses PROVE m[a] \in Known
      <4>1. CASE a \in base .. base + Size(s) - 1
        <5> DEFINE i == a - base + 1
        <5>1. i \in 1..Size(s) /\ a = base + i - 1
          BY <1>2, <1>3, <4>1
        <5> HIDE DEF i
        <5> QED
          BY <1>7, <1>8, <5>1
      <4>2. CASE a \notin base .. base + Size(s) - 1
        BY <1>4, <4>2 DEF Stored, Known
      <4> QED
        BY <4>1, <4>2
    <3> QED
      BY <1>4, <3>1
  <2> QED
    BY <1>6, <2>1 DEF Stored, Forget, Known
<1>10. Size(t) = Size(s)
  BY <1>2, <1>3, <1>5 DEF Size
\* The byte a is in the chunk d of the chain or in the new one.
<1>11. ASSUME NEW a \in Addresses, Alone(s) => a \notin Within(s.chunks[n])
       PROVE  t.memory[a] = m[a]
  BY <1>6, <1>11 DEF Forget
<1>12. Carries(s, t, Size(s))
  <2>1. ASSUME NEW i \in 1..Size(s), Alone(s)
        PROVE  base + i - 1 \notin Within(s.chunks[n])
    <3>1. n \in 1..n
      BY <1>1, <2>1, ChainLength DEF Alone, Current
    <3>2. Apart(c, s.chunks[n]) /\ s.chunks[n] \in Chunks
      BY <1>1, <1>2, <3>1, ChunkTyped DEF Apart
    <3> QED
      BY <1>2, <1>7, <3>2, NoByteShared
  <2>2. ASSUME NEW i \in 1..Size(s)
        PROVE  t.memory[base + i - 1] = s.memory[s.object_base + i - 1]
    BY <1>7, <1>11, <2>1
  <2> QED
    BY <1>5, <2>2 DEF Carries
<1>13. Keeps(s, t, g)
  <2>1. ASSUME NEW k \in 1..Len(g), NEW i \in 1..g[k].size
        PROVE  t.memory[g[k].at + i - 1] = s.memory[g[k].at + i - 1]
    <3> DEFINE a == g[k].at + i - 1
    <3>1. g[k].at # NULL /\ a \in Addresses /\ a \notin s.object_base .. Limit(s) - 1
      BY ObjectSpace
    <3>2. PICK l \in 1..n : In(s.chunks[l], g[k]) /\ a \in Within(s.chunks[l])
      BY ObjectSpace
    <3> HIDE DEF a
    <3>3. s.chunks[l] \in Chunks /\ Apart(s.chunks[l], c)
      BY <1>1, <1>2, ChunkTyped
    <3>4. a \notin base .. base + Size(s) - 1
      <4>1. a \notin Within(c)
        BY <1>2, <3>2, <3>3, NoByteShared
      <4>2. \A x \in base .. base + Size(s) - 1 : x \in Within(c)
        <5>1. PICK b, size, at, to : b = base /\ size = Size(s) /\ at = c.at /\ to = c.limit
          OBVIOUS
        <5>2. b \in Nat /\ size \in Nat /\ at \in Nat /\ to \in Nat /\ at < b /\ b + size <= to
          BY <1>2, <1>3, <5>1
        <5>3. \A x \in b .. b + size - 1 : x \in at .. to - 1
          BY <5>2
        <5> QED
          BY <5>1, <5>3 DEF Within
      <4> QED
        BY <4>1, <4>2
    <3>5. a \notin old
      BY <1>3, <3>1
    <3>6. m[a] = s.memory[a]
      BY <1>4, <3>1, <3>4, <3>5
    <3>7. ASSUME Alone(s) PROVE a \notin Within(s.chunks[n])
      <4>1. n \in 1..n
        BY <1>1, <3>7, ChainLength DEF Alone, Current
      <4>2. l # n
        BY <3>1, <3>2, <3>7, AloneThere
      <4>3. s.chunks[n] \in Chunks /\ Apart(s.chunks[l], s.chunks[n])
        BY <1>1, <4>1, <4>2, ChunkTyped DEF Chain
      <4> QED
        BY <3>2, <3>3, <4>3, NoByteShared
    <3> QED
      BY <1>11, <3>1, <3>6, <3>7 DEF a
  <2> QED
    BY <2>1 DEF Keeps
<1> QED
  BY <1>9, <1>10, <1>12, <1>13 DEF t

\* The obstack with room, new chunk or not.
LEMMA MadeRoomKeeps ==
    ASSUME NEW s, NEW g, Good(s, g), Stored(s), NEW length \in Nat, NEW r \in MadeRoom(s, length)
    PROVE  Stored(r) /\ Size(r) = Size(s) /\ Keeps(s, r, g) /\ Carries(s, r, Size(s))
<1>1. CASE Room(s) >= length
  BY <1>1 DEF MadeRoom, Keeps, Carries
<1>2. CASE ~(Room(s) >= length)
  <2>1. PICK c \in Places(s.heap, NewSize(s, length)) : r = NewChunk(s, c)
    BY <1>2 DEF MadeRoom
  <2>2. s.chunks # <<>> \/ length > 0
    <3>1. CASE s.chunks = <<>>
      <4>1. Room(s) = 0
        BY <3>1 DEF Room, Limit, Current, NULL, Good
      <4> QED
        BY <1>2, <4>1
    <3> QED
      BY <3>1
  <2> QED
    BY <2>1, <2>2, NewChunkKeeps
<1> QED
  BY <1>1, <1>2

----------------------------------------------------------------------------
(* obstack_free.                                                           *)

\* The objects e that are left are before the address obj of the chunk k, where it is cut.
LEMMA FreedKeeps ==
    ASSUME NEW s, NEW g, Good(s, g), Stored(s), NEW e, First(e, g), NEW k \in 1..Len(s.chunks),
           NEW obj \in Nat, In(s.chunks[k], [at |-> obj, size |-> 0]), Below(s, e, k, obj)
    PROVE  Stored(FreedTo(s, obj)) /\ Keeps(s, FreedTo(s, obj), e)
<1> DEFINE t    == FreedTo(s, obj)
           last == Len(s.chunks)
           lost == (obj .. s.chunks[k].limit - 1) \cup UNION {Within(c) : c \in FreedAfter(s, k)}
<1>1. Chain(s) /\ DOMAIN s = Fields /\ last \in Nat /\ k \in Nat
  BY ChainLength DEF Good, Chain
<1>2. t.memory = Forget(s.memory, lost)
  <2>1. StopsAt(s, obj) = k
    BY <1>1, Stops
  <2>2. t.memory = Forget(s.memory, (obj .. s.chunks[StopsAt(s, obj)].limit - 1)
                                        \cup UNION {Within(c) : c \in FreedAfter(s, StopsAt(s, obj))})
    BY <1>1 DEF FreedTo, StopsAt, FreedAfter, Fields
  <2> QED
    BY <2>1, <2>2
<1> HIDE DEF t
<1>3. FreedAfter(s, k) = {s.chunks[j] : j \in k + 1..last}
  BY <1>1, FreedChunks
<1>4. Stored(t)
  BY <1>2 DEF Stored, Forget, Known
<1>5. ASSUME NEW i \in 1..Len(e), NEW j \in 1..e[i].size
      PROVE  t.memory[e[i].at + j - 1] = s.memory[e[i].at + j - 1]
  <2> DEFINE a == e[i].at + j - 1
  <2>1. i \in 1..Len(g) /\ e[i] = g[i]
    BY DEF First
  <2>2. e[i] \in [at : Nat, size : Nat] /\ e[i].at # NULL /\ a \in Addresses
    BY <2>1, ObjectSpace
  <2>3. PICK l \in 1..last : In(s.chunks[l], e[i]) /\ a \in Within(s.chunks[l])
    BY <2>1, ObjectSpace
  <2>4. l < k \/ (l = k /\ e[i].at + e[i].size <= obj)
    BY <2>2, <2>3, Zenon DEF Below
  <2>5. a < obj \/ l # k
    BY <2>2, <2>4
  <2> HIDE DEF a
  <2>6. ASSUME NEW m \in 1..last, l # m PROVE a \notin Within(s.chunks[m])
    <3>1. s.chunks[l] \in Chunks /\ s.chunks[m] \in Chunks /\ Apart(s.chunks[l], s.chunks[m])
      BY <1>1, <2>6, ChunkTyped DEF Chain
    <3> QED
      BY <2>3, <3>1, NoByteShared
  <2>7. a \notin obj .. s.chunks[k].limit - 1
    <3>1. CASE l = k
      BY <2>5, <3>1
    <3>2. CASE l # k
      <4>1. a \notin Within(s.chunks[k])
        BY <2>6, <3>2
      <4>2. s.chunks[k] \in Chunks /\ [at |-> obj, size |-> 0] \in [at : Nat, size : Nat]
        BY <1>1, ChunkTyped
      <4>3. s.chunks[k].at < obj
        BY <4>2, InHolds DEF Holds
      <4>4. s.chunks[k].at \in Nat /\ s.chunks[k].limit \in Nat
        BY <1>1, ChunkTyped
      <4> QED
        BY <4>1, <4>3, <4>4 DEF Within
    <3> QED
      BY <3>1, <3>2
  <2>8. \A m \in k + 1..last : a \notin Within(s.chunks[m])
    <3>1. ASSUME NEW m \in k + 1..last PROVE m \in 1..last /\ l # m
      BY <1>1, <2>4
    <3> QED
      BY <2>6, <3>1
  <2>9. a \notin lost
    <3>1. a \notin UNION {Within(c) : c \in FreedAfter(s, k)}
      BY <1>3, <2>8
    <3> QED
      BY <2>7, <3>1
  <2> HIDE DEF lost
  <2>10. t.memory[a] = s.memory[a]
    BY <1>2, <2>2, <2>9 DEF Forget
  <2> QED
    BY <2>10 DEF a
<1> QED
  BY <1>4, <1>5 DEF Keeps, t

----------------------------------------------------------------------------
(* The abstract state.                                                     *)

\* What the caller finds in its objects, and in the one that grows.
Found == [i \in 1..Len(given) |-> BytesAt(given[i].at, given[i].size)]

FoundGrowing == BytesAt(h.object_base, Size(h))

\* Objects that keep their bytes are the same to the caller.
LEMMA FoundSame ==
    ASSUME MemInv, Keeps(h, h', given), given' = given
    PROVE  Found' = Found
<1>1. ASSUME NEW k \in 1..Len(given)
      PROVE  BytesAt(given[k].at, given[k].size)' = BytesAt(given[k].at, given[k].size)
  BY <1>1 DEF Keeps, BytesAt
<1> QED
  BY <1>1 DEF Found

LEMMA GrowingTyped ==
    ASSUME NEW s, NEW g, Good(s, g), Stored(s)
    PROVE  [i \in 1..Size(s) |-> s.memory[s.object_base + i - 1]] \in [1..Size(s) -> Known]
<1>1. ASSUME NEW i \in 1..Size(s) PROVE s.memory[s.object_base + i - 1] \in Known
  <2>1. s.object_base + i - 1 \in s.object_base .. Limit(s) - 1
    BY GrowingSpace
  <2> QED
    BY <2>1, GrowingAddress DEF Stored
<1> QED
  BY <1>1

LEMMA PrefixIs ==
    ASSUME NEW S, NEW m \in Nat, NEW n \in Nat, m <= n, NEW s \in [1..m -> S], NEW t \in [1..n -> S],
           \A i \in 1..m : s[i] = t[i]
    PROVE  Stack!IsPrefix(s, t) /\ s \in Stack!Prefixes(t)
<1>1. s \in Seq(S) /\ t \in Seq(S) /\ Len(s) = m /\ Len(t) = n
  OBVIOUS
<1>2. SubSeq(s, 1, m) = s
  BY <1>1, SubSeqFull
<1>3. SubSeq(t, 1, m) = s
  <2>1. \A i \in 1..m : t[i] \in S
    OBVIOUS
  <2>2. m - 1 + 1 = m /\ \A i \in 1..m : 1 + i - 1 = i
    OBVIOUS
  <2>3. /\ SubSeq(t, 1, m) \in Seq(S) /\ Len(SubSeq(t, 1, m)) = m
        /\ \A i \in 1..m : SubSeq(t, 1, m)[i] = t[i]
    BY <2>1, <2>2, SubSeqProperties
  <2> QED
    BY <1>1, <2>3, SeqEqual
<1>4. Stack!IsPrefix(s, t)
  BY <1>1, <1>2, <1>3 DEF Stack!IsPrefix
<1>5. m \in 0..Len(t)
  BY <1>1
<1>6. s \in Stack!Prefixes(t)
  BY <1>3, <1>5 DEF Stack!Prefixes
<1> QED
  BY <1>4, <1>6

\* The object that grows has grown, and the others are the same.
LEMMA GrownIs ==
    ASSUME MemInv, MemInv', given' = given, Keeps(h, h', given), Size(h) <= Size(h'),
           Carries(h, h', Size(h))
    PROVE  Stack!Grow
<1>1. Found' = Found
  BY FoundSame
<1>2. FoundGrowing \in [1..Size(h) -> Known] /\ Size(h) \in Nat
  BY GrowingTyped, GrowingSpace DEF MemInv, IndInv, FoundGrowing, BytesAt
<1>3. FoundGrowing' \in [1..Size(h') -> Known] /\ Size(h') \in Nat /\ Size(h') <= MaxSize
  BY GrowingTyped, GrowingSpace DEF MemInv, IndInv, FoundGrowing, BytesAt, Sized
<1>4. ASSUME NEW i \in 1..Size(h) PROVE FoundGrowing[i] = FoundGrowing'[i]
  BY <1>2, <1>3 DEF FoundGrowing, BytesAt, Carries
<1>5. Stack!IsPrefix(FoundGrowing, FoundGrowing')
  BY <1>2, <1>3, <1>4, PrefixIs
<1>6. FoundGrowing' \in Stack!Contents
  BY <1>3, ObstackAssumption DEF Stack!Contents, Stack!BoundedSeq, Stack!SeqOf, Known
<1> QED
  BY <1>1, <1>5, <1>6 DEF Stack!Grow, Found, FoundGrowing

\* The same with fewer bytes.
LEMMA ShrunkIs ==
    ASSUME MemInv, MemInv', given' = given, Keeps(h, h', given), Size(h') <= Size(h),
           Carries(h, h', Size(h'))
    PROVE  Stack!Shrink
<1>1. Found' = Found
  BY FoundSame
<1>2. FoundGrowing \in [1..Size(h) -> Known] /\ Size(h) \in Nat
  BY GrowingTyped, GrowingSpace DEF MemInv, IndInv, FoundGrowing, BytesAt
<1>3. FoundGrowing' \in [1..Size(h') -> Known] /\ Size(h') \in Nat
  BY GrowingTyped, GrowingSpace DEF MemInv, IndInv, FoundGrowing, BytesAt
<1>4. ASSUME NEW i \in 1..Size(h') PROVE FoundGrowing'[i] = FoundGrowing[i]
  BY <1>2, <1>3 DEF FoundGrowing, BytesAt, Carries
<1>5. FoundGrowing' \in Stack!Prefixes(FoundGrowing)
  BY <1>2, <1>3, <1>4, PrefixIs
<1> QED
  BY <1>1, <1>5 DEF Stack!Shrink, Found, FoundGrowing

----------------------------------------------------------------------------
(* The object that grows.                                                  *)

\* The caller's bytes are bytes of the memory.
LEMMA AppendedTyped ==
    ASSUME MemInv, NEW length \in Nat, Size(h) + length <= MaxSize
    PROVE  Appended(length) \in [1..length -> Known]
<1> DEFINE n == Len(given)
<1>1. n \in Nat /\ n <= MaxObjects /\ Size(h) \in Nat
  BY GrowingSpace, LenProperties DEF MemInv, IndInv, Good, Placed, Sized
<1>2. MaxObjects \in Nat /\ MaxSize \in Nat
  BY ObstackAssumption
<1> HIDE DEF n
<1>3. \E d \in Nat : MaxObjects = n + d
  <2>1. MaxObjects - n \in Nat /\ MaxObjects = n + (MaxObjects - n)
    BY <1>1, <1>2
  <2> QED
    BY <2>1
<1>4. PICK d \in Nat : MaxObjects = n + d
  BY <1>3
<1>5. (MaxObjects + 1) * MaxSize = n * MaxSize + d * MaxSize + MaxSize
  BY <1>1, <1>2, <1>4, SMT
<1>6. n * MaxSize \in Nat /\ d * MaxSize \in Nat
  BY <1>1, <1>2, <1>4, SMT
<1>7. ASSUME NEW i \in 1..length PROVE n * MaxSize + Size(h) + i \in Bytes
  <2> DEFINE x == n * MaxSize
             y == d * MaxSize
  <2>1. x \in Nat /\ y \in Nat /\ Bytes = 1 .. x + y + MaxSize
    BY <1>5, <1>6 DEF Bytes
  <2> HIDE DEF x, y
  <2>2. x + Size(h) + i \in 1 .. x + y + MaxSize
    BY <1>1, <1>2, <2>1
  <2> QED
    BY <2>1, <2>2 DEF x
<1>8. ASSUME NEW i \in 1..length
      PROVE  Len(given) * MaxSize + h.next_free - h.object_base + i = n * MaxSize + Size(h) + i
  <2>1. h.next_free \in Int /\ h.object_base \in Int
    BY GrowingSpace DEF MemInv, IndInv, Good, Current
  <2> QED
    BY <1>6, <2>1 DEF Size, n
<1> QED
  BY <1>7, <1>8 DEF Appended, Known

\* obstack_grow writes behind all objects.
LEMMA PutKeeps ==
    ASSUME NEW s, NEW g, Good(s, g), Stored(s), NEW length \in Nat,
           s.next_free + length \in s.object_base .. Limit(s),
           NEW bytes \in [1..length -> Known]
    PROVE  LET t == Put(s, bytes)
           IN  /\ Stored(t) /\ Size(t) = Size(s) + length
               /\ Keeps(s, t, g) /\ Carries(s, t, Size(s))
<1> DEFINE t == Put(s, bytes)
           new == s.next_free .. s.next_free + length - 1
<1>1. DOMAIN s = Fields /\ Len(bytes) = length
  BY DEF Good, Chain
<1>2. /\ Size(s) \in Nat /\ s.object_base \in Nat /\ s.next_free = s.object_base + Size(s)
      /\ Limit(s) \in 0..Top
  BY GrowingSpace
<1>3. /\ t.object_base = s.object_base /\ t.next_free = s.next_free + length
      /\ t.memory = [a \in Addresses |-> IF a \in new THEN bytes[a - s.next_free + 1] ELSE s.memory[a]]
  BY <1>1 DEF Put, Fields
<1> HIDE DEF t
<1>4. Stored(t)
  <2>1. ASSUME NEW a \in new PROVE bytes[a - s.next_free + 1] \in Known
    <3>1. PICK from : from = s.next_free
      OBVIOUS
    <3>2. from \in Nat
      BY <1>2, <3>1
    <3>3. a - from + 1 \in 1..length
      BY <3>1, <3>2
    <3> QED
      BY <3>1, <3>3
  <2> QED
    BY <1>3, <2>1 DEF Stored
<1>5. Size(t) = Size(s) + length
  BY <1>2, <1>3 DEF Size
<1>6. ASSUME NEW k \in 1..Len(g), NEW i \in 1..g[k].size
      PROVE  t.memory[g[k].at + i - 1] = s.memory[g[k].at + i - 1]
  <2> DEFINE a == g[k].at + i - 1
  <2>1. a \in Addresses /\ a \notin s.object_base .. Limit(s) - 1
    BY ObjectSpace
  <2> HIDE DEF a
  <2>2. a \notin new
    BY <1>2, <2>1
  <2> QED
    BY <1>3, <2>1, <2>2 DEF a
<1>7. ASSUME NEW i \in 1..Size(s)
      PROVE  t.memory[t.object_base + i - 1] = s.memory[s.object_base + i - 1]
  <2> DEFINE a == s.object_base + i - 1
  <2>1. a \in s.object_base .. Limit(s) - 1 /\ a < s.next_free
    BY <1>2, GrowingSpace
  <2>2. a \in Addresses
    BY <2>1, GrowingAddress
  <2> HIDE DEF a
  <2>3. a \notin new
    BY <1>2, <2>1
  <2> QED
    BY <1>3, <2>2, <2>3 DEF a
<1> QED
  BY <1>4, <1>5, <1>6, <1>7 DEF Keeps, Carries, t

\* Through a new chunk, and then as there.
LEMMA KeptThrough ==
    ASSUME NEW s, NEW r, NEW t, NEW g, NEW size,
           Keeps(s, r, g), Keeps(r, t, g), Carries(s, r, size), Carries(r, t, size)
    PROVE  Keeps(s, t, g) /\ Carries(s, t, size)
  BY DEF Keeps, Carries

LEMMA GrowStep ==
    ASSUME MemInv, NEW length \in Nat, Grow(length)
    PROVE  MemInv' /\ Stack!Grow
<1>1. PICK r \in MadeRoom(h, length) : h' = Put(r, Appended(length))
  BY DEF Grow
<1>2. Good(h, given) /\ Stored(h) /\ Size(h) + length <= MaxSize /\ given' = given /\ Size(h) \in Nat
  BY GrowingSpace DEF MemInv, IndInv, Grow
<1>3. Good(r, given) /\ r.next_free + length \in r.object_base .. Limit(r)
  BY <1>2, MadeRoomGood
<1>4. Stored(r) /\ Size(r) = Size(h) /\ Keeps(h, r, given) /\ Carries(h, r, Size(h))
  BY <1>2, MadeRoomKeeps
<1>5. Appended(length) \in [1..length -> Known]
  BY <1>2, AppendedTyped
<1>6. /\ Stored(h') /\ Size(h') = Size(r) + length
      /\ Keeps(r, h', given) /\ Carries(r, h', Size(r))
  BY <1>1, <1>3, <1>4, <1>5, PutKeeps
<1>7. Keeps(h, h', given) /\ Carries(h, h', Size(h))
  BY <1>4, <1>6, KeptThrough
<1>8. IndInv'
  BY GrowKeeps DEF MemInv
<1>9. MemInv'
  BY <1>2, <1>4, <1>6, <1>8 DEF MemInv, Stored, Sized
<1>10. Size(h) <= Size(h')
  BY <1>2, <1>4, <1>6
<1> QED
  BY <1>2, <1>7, <1>9, <1>10, GrownIs

LEMMA VPrintfStep ==
    ASSUME MemInv, NEW length \in Nat, VPrintf(length)
    PROVE  MemInv' /\ Stack!Grow
<1>1. PICK r \in MadeRoom(h, length + 1) : h' = Put(r, Appended(length)) \/ h' = r
  BY DEF VPrintf
<1>2. Good(h, given) /\ Stored(h) /\ Size(h) + length <= MaxSize /\ given' = given /\ Size(h) \in Nat
  BY GrowingSpace DEF MemInv, IndInv, VPrintf
<1>3. length + 1 \in Nat
  OBVIOUS
<1>4. Good(r, given) /\ r.next_free + (length + 1) \in r.object_base .. Limit(r)
  BY <1>2, <1>3, MadeRoomGood
<1>5. Stored(r) /\ Size(r) = Size(h) /\ Keeps(h, r, given) /\ Carries(h, r, Size(h))
  BY <1>2, <1>3, MadeRoomKeeps
<1>6. IndInv'
  BY VPrintfKeeps DEF MemInv
<1>7. CASE h' = r
  <2>1. MemInv'
    BY <1>2, <1>5, <1>6, <1>7 DEF MemInv, Stored, Sized
  <2>2. Size(h) <= Size(h')
    BY <1>2, <1>5, <1>7
  <2> QED
    BY <1>2, <1>5, <1>7, <2>1, <2>2, GrownIs
<1>8. CASE h' = Put(r, Appended(length))
  <2>1. r.next_free + length \in r.object_base .. Limit(r)
    <3>1. r.next_free \in Nat /\ r.object_base \in Nat /\ Limit(r) \in Nat /\ r.object_base <= r.next_free
      BY <1>4, GrowingSpace DEF Good, Current
    <3> QED
      BY <1>4, <3>1
  <2>2. Appended(length) \in [1..length -> Known]
    BY <1>2, AppendedTyped
  <2>3. /\ Stored(h') /\ Size(h') = Size(r) + length
        /\ Keeps(r, h', given) /\ Carries(r, h', Size(r))
    BY <1>4, <1>5, <1>8, <2>1, <2>2, PutKeeps
  <2>4. Keeps(h, h', given) /\ Carries(h, h', Size(h))
    BY <1>5, <2>3, KeptThrough
  <2>5. MemInv'
    BY <1>2, <1>5, <1>6, <2>3 DEF MemInv, Stored, Sized
  <2>6. Size(h) <= Size(h')
    BY <1>2, <1>5, <2>3
  <2> QED
    BY <1>2, <2>4, <2>5, <2>6, GrownIs
<1> QED
  BY <1>1, <1>7, <1>8

LEMMA BlankStep ==
    ASSUME MemInv, NEW length \in Nat, Blank(length)
    PROVE  MemInv' /\ Stack!Grow
<1>1. PICK r \in MadeRoom(h, length) : h' = [r EXCEPT !.next_free = @ + length]
  BY DEF Blank
<1>2. Good(h, given) /\ Stored(h) /\ Size(h) + length <= MaxSize /\ given' = given /\ Size(h) \in Nat
  BY GrowingSpace DEF MemInv, IndInv, Blank
<1>3. Good(r, given) /\ DOMAIN r = Fields /\ r.next_free \in Nat /\ r.object_base \in Nat
  BY <1>2, MadeRoomGood DEF Good, Chain, Current
<1>4. Stored(r) /\ Size(r) = Size(h) /\ Keeps(h, r, given) /\ Carries(h, r, Size(h))
  BY <1>2, MadeRoomKeeps
<1>5. h'.memory = r.memory /\ h'.object_base = r.object_base /\ h'.next_free = r.next_free + length
  BY <1>1, <1>3 DEF Fields
<1>6. Size(h') = Size(h) + length
  BY <1>3, <1>4, <1>5 DEF Size
<1>7. Keeps(h, h', given) /\ Carries(h, h', Size(h)) /\ Stored(h')
  BY <1>4, <1>5 DEF Keeps, Carries, Stored
<1>8. IndInv'
  BY BlankKeeps DEF MemInv
<1>9. MemInv'
  BY <1>2, <1>6, <1>7, <1>8 DEF MemInv, Stored, Sized
<1>10. Size(h) <= Size(h')
  BY <1>2, <1>6
<1> QED
  BY <1>2, <1>7, <1>9, <1>10, GrownIs

LEMMA ShrinkStep ==
    ASSUME MemInv, NEW length \in Nat, Shrink(length)
    PROVE  MemInv' /\ Stack!Shrink
<1> DEFINE lost == h.next_free - length .. h.next_free - 1
<1>1. /\ Good(h, given) /\ DOMAIN h = Fields /\ Stored(h) /\ length \in 1..Size(h) /\ given' = given
      /\ Size(h) <= MaxSize
  BY DEF MemInv, IndInv, Good, Chain, Shrink, Sized
<1>2. /\ Size(h) \in Nat /\ h.object_base \in Nat /\ h.next_free = h.object_base + Size(h)
      /\ h.next_free <= Limit(h) /\ Limit(h) \in 0..Top
  BY <1>1, GrowingSpace
<1>3. /\ h'.object_base = h.object_base /\ h'.next_free = h.next_free - length
      /\ h'.memory = [a \in Addresses |-> IF a \in lost THEN Junk ELSE h.memory[a]]
  BY <1>1 DEF Shrink, Fields, Forget
<1>4. Size(h') = Size(h) - length /\ Size(h') \in Nat /\ Size(h') <= Size(h)
  BY <1>1, <1>2, <1>3 DEF Size
<1>5. Stored(h')
  BY <1>1, <1>3 DEF Stored, Known
<1>6. IndInv'
  BY ShrinkKeeps DEF MemInv
<1>7. MemInv'
  <2>1. Size(h') <= MaxSize
    BY <1>1, <1>2, <1>4, ObstackAssumption
  <2> QED
    BY <1>1, <1>5, <1>6, <2>1 DEF MemInv, Stored, Sized
<1>8. Keeps(h, h', given)
  <2>1. ASSUME NEW k \in 1..Len(given), NEW i \in 1..given[k].size
        PROVE  h'.memory[given[k].at + i - 1] = h.memory[given[k].at + i - 1]
    <3> DEFINE a == given[k].at + i - 1
    <3>1. a \in Addresses /\ a \notin h.object_base .. Limit(h) - 1
      BY <1>1, ObjectSpace
    <3> HIDE DEF a
    <3>2. a \notin lost
      BY <1>1, <1>2, <3>1
    <3> QED
      BY <1>3, <3>1, <3>2 DEF a
  <2> QED
    BY <2>1 DEF Keeps
<1>9. Carries(h, h', Size(h'))
  <2>1. ASSUME NEW i \in 1..Size(h')
        PROVE  h'.memory[h'.object_base + i - 1] = h.memory[h.object_base + i - 1]
    <3> DEFINE a == h.object_base + i - 1
    <3>1. a \in h.object_base .. Limit(h) - 1 /\ a < h.next_free - length
      BY <1>1, <1>2, <1>4
    <3>2. a \in Addresses
      BY <1>1, <3>1, GrowingAddress
    <3> HIDE DEF a
    <3>3. a \notin lost
      BY <1>1, <1>2, <3>1
    <3> QED
      BY <1>3, <3>2, <3>3 DEF a
  <2> QED
    BY <2>1 DEF Carries
<1> QED
  BY <1>1, <1>4, <1>7, <1>8, <1>9, ShrunkIs

----------------------------------------------------------------------------
(* The stack of objects.                                                   *)

LEMMA NothingGrows == ASSUME Size(h) = 0 PROVE FoundGrowing = <<>>
  BY DEF FoundGrowing, BytesAt

LEMMA FinishStep ==
    ASSUME MemInv, Finish
    PROVE  MemInv' /\ Stack!Finish
<1> DEFINE n == Len(given)
           S == {Found[i] : i \in 1..n} \cup {FoundGrowing}
<1>1. /\ Good(h, given) /\ DOMAIN h = Fields /\ Stored(h) /\ Sized(h, given) /\ n < MaxObjects
      /\ given \in Seq([at : Nat, size : Nat])
  BY DEF MemInv, IndInv, Good, Chain, Finish, Placed
<1>2. Growing(h) \in [at : Nat, size : Nat] /\ Size(h) <= MaxSize
  BY <1>1, GrowingSpace DEF Growing, Sized
<1>3. given' = Append(given, Growing(h))
  BY DEF Finish, Growing
<1>4. /\ n \in Nat /\ Len(given') = n + 1 /\ given'[n + 1] = Growing(h)
      /\ \A i \in 1..n : given'[i] = given[i]
  BY <1>1, <1>2, <1>3, AppendProperties, LenProperties
<1>5. h'.memory = h.memory /\ h'.object_base = AlignedNext(h) /\ h'.next_free = AlignedNext(h)
  BY <1>1 DEF Finish, Fields
<1>6. IndInv'
  BY FinishKeeps DEF MemInv
<1>7. Size(h') = 0
  <2>1. h'.object_base \in Nat
    BY <1>6 DEF IndInv, Good, Current
  <2> QED
    BY <1>5, <2>1 DEF Size
<1>8. MemInv'
  <2>1. \A i \in 1..n + 1 : given'[i].size <= MaxSize
    <3>1. \A i \in 1..n : given'[i].size <= MaxSize
      BY <1>1, <1>4 DEF Sized
    <3>2. given'[n + 1].size <= MaxSize
      BY <1>2, <1>4 DEF Growing
    <3>3. \A i \in 1..n + 1 : i \in 1..n \/ i = n + 1
      BY <1>4
    <3> QED
      BY <3>1, <3>2, <3>3
  <2> QED
    BY <1>1, <1>4, <1>5, <1>6, <1>7, <2>1, ObstackAssumption DEF MemInv, Stored, Sized
<1>9. Found \in Seq(S) /\ FoundGrowing \in S /\ Len(Found) = n
  <2>1. Found \in [1..n -> S]
    BY DEF Found
  <2> QED
    BY <1>4, <2>1
<1>10. /\ Append(Found, FoundGrowing) \in Seq(S) /\ Len(Append(Found, FoundGrowing)) = n + 1
       /\ Append(Found, FoundGrowing)[n + 1] = FoundGrowing
       /\ \A i \in 1..n : Append(Found, FoundGrowing)[i] = Found[i]
  BY <1>9, AppendProperties
<1>11. ASSUME NEW i \in 1..n PROVE Found'[i] = Found[i]
  <2>1. i \in 1..Len(given') /\ given'[i] = given[i]
    BY <1>4
  <2>2. BytesAt(given[i].at, given[i].size)' = BytesAt(given[i].at, given[i].size)
    BY <1>5, <2>1 DEF BytesAt
  <2> QED
    BY <2>1, <2>2 DEF Found
<1>12. Found'[n + 1] = FoundGrowing
  <2>1. n + 1 \in 1..Len(given') /\ given'[n + 1].at = h.object_base /\ given'[n + 1].size = Size(h)
    BY <1>4 DEF Growing
  <2>2. PICK last \in 1..Len(given') : last = n + 1
    BY <2>1
  <2>3. Found'[last] = BytesAt(given[last].at, given[last].size)'
    BY DEF Found
  <2>4. BytesAt(given[last].at, given[last].size)' = FoundGrowing
    BY <1>5, <2>1, <2>2 DEF BytesAt, FoundGrowing
  <2> QED
    BY <2>2, <2>3, <2>4
<1>13. DOMAIN Found' = 1..n + 1
  BY <1>4 DEF Found
<1> HIDE DEF S
<1>14. Found' = Append(Found, FoundGrowing)
  <2>1. \A i \in 1..n + 1 : i \in 1..n \/ i = n + 1
    BY <1>4
  <2>2. \A i \in 1..n + 1 : Found'[i] = Append(Found, FoundGrowing)[i]
    BY <1>10, <1>11, <1>12, <2>1
  <2>3. Found' = [i \in 1..n + 1 |-> Found'[i]]
    BY <1>13 DEF Found
  <2>4. Append(Found, FoundGrowing) = [i \in 1..n + 1 |-> Append(Found, FoundGrowing)[i]]
    BY <1>10, LenProperties
  <2> QED
    BY <2>2, <2>3, <2>4
<1>15. FoundGrowing' = <<>>
  BY <1>7, NothingGrows DEF FoundGrowing, BytesAt
<1> QED
  BY <1>8, <1>14, <1>15 DEF Stack!Finish, Found, FoundGrowing

LEMMA FreeGrowingStep ==
    ASSUME MemInv, FreeGrowing
    PROVE  MemInv' /\ Stack!Shrink
<1> DEFINE k == Len(h.chunks)
<1>1. /\ Good(h, given) /\ Chain(h) /\ Current(h) /\ Placed(h, given) /\ Behind(h, given)
      /\ Stored(h) /\ Sized(h, given)
  BY DEF MemInv, IndInv, Good
<1>2. h' = FreedTo(h, h.object_base) /\ given' = given /\ h.object_base # NULL
  BY DEF FreeGrowing, Freed
<1>3. k \in 1..k /\ h.chunks # <<>> /\ DOMAIN h = Fields
  <2>1. h.chunks # <<>>
    BY <1>1, <1>2 DEF Current
  <2> QED
    BY <1>1, <2>1, ChainLength DEF Chain
<1>4. h.object_base \in Nat /\ In(h.chunks[k], [at |-> h.object_base, size |-> 0])
  <2>1. h.chunks[k] \in Chunks /\ h.chunks[k].limit \in Nat
    BY <1>1, <1>3, ChunkTyped
  <2> QED
    BY <1>1, <1>3, <2>1 DEF Current, In, Growing, Size
<1>5. First(given, given)
  BY <1>1 DEF First, Placed
<1>6. ASSUME NEW l \in 1..k, NEW i \in 1..Len(given), given[i].at # NULL, In(h.chunks[l], given[i])
      PROVE  l < k \/ (l = k /\ given[i].at + given[i].size <= h.object_base)
  BY <1>1, <1>3, <1>6 DEF Behind
<1>7. Below(h, given, k, h.object_base)
  BY <1>6, Zenon DEF Below
<1>8. Stored(h') /\ Keeps(h, h', given)
  BY <1>1, <1>2, <1>3, <1>4, <1>5, <1>7, FreedKeeps
<1>9. Size(h') = 0
  <2>1. h'.next_free = h.object_base /\ h'.object_base = h.object_base
    BY <1>2, <1>3 DEF FreedTo, Fields
  <2> QED
    BY <1>4, <2>1 DEF Size
<1>10. IndInv'
  BY FreeGrowingKeeps DEF MemInv
<1>11. MemInv'
  BY <1>1, <1>2, <1>8, <1>9, <1>10, ObstackAssumption DEF MemInv, Stored, Sized
<1>12. Size(h') <= Size(h) /\ Carries(h, h', Size(h'))
  BY <1>1, <1>9, GrowingSpace DEF Carries
<1> QED
  BY <1>2, <1>8, <1>11, <1>12, ShrunkIs

\* The objects given' are the first m ones, and nothing grows.
LEMMA CutIs ==
    ASSUME MemInv, NEW m \in 0..Len(given), given' = SubSeq(given, 1, m), Keeps(h, h', given'),
           Size(h') = 0
    PROVE  Found' = SubSeq(Found, 1, m) /\ FoundGrowing' = <<>>
<1> DEFINE n == Len(given)
           S == {Found[i] : i \in 1..n}
<1>1. given \in Seq([at : Nat, size : Nat]) /\ n \in Nat
  BY LenProperties DEF MemInv, IndInv, Good, Placed
<1>2. Len(given') = m /\ \A i \in 1..m : given'[i] = given[i]
  BY <1>1, Prefix
<1>3. \A i \in 1..m : i \in 1..n /\ Found[i] \in S
  BY <1>1
<1>4. /\ SubSeq(Found, 1, m) \in Seq(S) /\ Len(SubSeq(Found, 1, m)) = m
      /\ \A i \in 1..m : SubSeq(Found, 1, m)[i] = Found[i]
  <2>1. m \in Nat /\ m - 1 + 1 = m /\ 1 - 1 = 0 /\ \A i \in 1..m : 1 + i - 1 = i
    BY <1>1
  <2> HIDE DEF S
  <2> QED
    BY <1>3, <2>1, SubSeqProperties
<1>5. ASSUME NEW i \in 1..m PROVE Found'[i] = Found[i]
  <2>1. i \in 1..Len(given') /\ i \in 1..n /\ given'[i] = given[i]
    BY <1>2, <1>3
  <2>2. BytesAt(given[i].at, given[i].size)' = BytesAt(given[i].at, given[i].size)
    BY <2>1 DEF Keeps, BytesAt
  <2> QED
    BY <2>1, <2>2 DEF Found
<1>6. Found' = SubSeq(Found, 1, m)
  <2>1. Found' = [i \in 1..m |-> Found'[i]]
    BY <1>2 DEF Found
  <2>2. SubSeq(Found, 1, m) = [i \in 1..m |-> SubSeq(Found, 1, m)[i]]
    BY <1>4, LenProperties
  <2> QED
    BY <1>4, <1>5, <2>1, <2>2
<1> QED
  BY <1>6, NothingGrows DEF FoundGrowing, BytesAt

\* Objects that are null pointers keep what they have: nothing.
LEMMA EmptiedKeeps ==
    ASSUME MemInv, NEW e, \A i \in 1..Len(e) : e[i].size = 0
    PROVE  Stored(Emptied(h)) /\ Keeps(h, Emptied(h), e) /\ Size(Emptied(h)) = 0
<1>1. DOMAIN h = Fields
  BY DEF MemInv, IndInv, Good, Chain
<1>2. /\ Emptied(h).memory = Forget(h.memory, Addresses)
      /\ Emptied(h).object_base = NULL /\ Emptied(h).next_free = NULL
  BY <1>1 DEF Emptied, Fields
<1>3. Stored(Emptied(h))
  BY <1>2 DEF Stored, Forget, Known
<1>4. Keeps(h, Emptied(h), e)
  BY DEF Keeps
<1> QED
  BY <1>2, <1>3, <1>4 DEF Size, NULL

LEMMA FreeStep ==
    ASSUME MemInv, NEW i \in 1..Len(given), Free(i)
    PROVE  MemInv' /\ Stack!Free(i)
<1> DEFINE e   == SubSeq(given, 1, i - 1)
           obj == given[i].at
<1>1. /\ Good(h, given) /\ Chain(h) /\ Current(h) /\ Placed(h, given) /\ Ordered(h, given)
      /\ DOMAIN h = Fields /\ Stored(h) /\ Sized(h, given)
  BY DEF MemInv, IndInv, Good, Chain
<1>2. h' = Freed(h, obj) /\ given' = e
  BY DEF Free
<1>3. given \in Seq([at : Nat, size : Nat]) /\ Len(given) \in Nat /\ i - 1 \in 0..Len(given)
  BY <1>1, LenProperties DEF Placed
<1>4. /\ e \in Seq([at : Nat, size : Nat]) /\ Len(e) = i - 1
      /\ \A j \in 1..i - 1 : e[j] = given[j]
  BY <1>3, Prefix
<1>5. \A j \in 1..i - 1 : j \in 1..Len(given) /\ j < i
  BY <1>3
<1> HIDE DEF e
<1>6. given[i] \in [at : Nat, size : Nat] /\ obj \in Nat
  <2>1. given[i] \in [at : Nat, size : Nat]
    BY <1>3, ElementOfSeq
  <2> QED
    BY <2>1
<1>7. Stored(h') /\ Keeps(h, h', e) /\ Size(h') = 0
  <2>1. CASE obj = NULL
    <3>1. \A j \in 1..Len(e) : e[j].size = 0
      <4>1. ASSUME NEW j \in 1..Len(e) PROVE e[j].size = 0
        <5>1. j \in 1..Len(given) /\ j < i /\ e[j] = given[j]
          BY <1>4, <1>5
        <5>2. given[j].at = NULL
          BY <1>1, <2>1, <5>1 DEF Ordered
        <5> QED
          BY <1>1, <5>1, <5>2 DEF Placed
      <4> QED
        BY <4>1
    <3> QED
      BY <1>2, <2>1, <3>1, EmptiedKeeps DEF Freed
  <2>2. CASE obj # NULL
    <3>1. PICK k \in 1..Len(h.chunks) : In(h.chunks[k], given[i])
      BY <1>1, <2>2 DEF Placed
    <3>2. In(h.chunks[k], [at |-> obj, size |-> 0])
      <4>1. h.chunks[k] \in Chunks /\ h.chunks[k].limit \in Nat
        BY <1>1, ChunkTyped
      <4> QED
        BY <1>6, <3>1, <4>1 DEF In
    <3>3. h' = FreedTo(h, obj)
      BY <1>2, <2>2 DEF Freed
    <3>4. First(e, given)
      BY <1>4, <1>5 DEF First
    <3>5. ASSUME NEW l \in 1..Len(h.chunks), NEW j \in 1..Len(e), e[j].at # NULL, In(h.chunks[l], e[j])
          PROVE  l < k \/ (l = k /\ e[j].at + e[j].size <= obj)
      <4>1. j \in 1..Len(given) /\ j < i /\ e[j] = given[j]
        BY <1>4, <1>5
      <4>2. Before(h, given[j], given[i])
        BY <1>1, <3>5, <4>1 DEF Ordered
      <4> QED
        BY <3>1, <3>5, <4>1, <4>2 DEF Before
    <3>6. h'.next_free = obj /\ h'.object_base = obj
      BY <1>1, <3>3 DEF FreedTo, Fields
    <3> HIDE DEF obj
    <3>7. Below(h, e, k, obj)
      BY <3>5, Zenon DEF Below
    <3>8. Stored(h') /\ Keeps(h, h', e)
      BY <1>1, <1>6, <3>2, <3>3, <3>4, <3>7, FreedKeeps
    <3> QED
      BY <1>6, <3>6, <3>8 DEF Size
  <2> QED
    BY <2>1, <2>2
<1>8. IndInv'
  BY FreeKeeps DEF MemInv
<1>9. MemInv'
  <2>1. \A j \in 1..Len(e) : e[j].size <= MaxSize
    BY <1>1, <1>4, <1>5 DEF Sized
  <2>2. Len(e) <= MaxObjects
    BY <1>1, <1>3, <1>4, ObstackAssumption DEF Sized
  <2> QED
    BY <1>2, <1>7, <1>8, <2>1, <2>2, ObstackAssumption DEF MemInv, Stored, Sized
<1>10. Found' = SubSeq(Found, 1, i - 1) /\ FoundGrowing' = <<>>
  BY <1>2, <1>3, <1>7, CutIs DEF e
<1> QED
  BY <1>9, <1>10 DEF Stack!Free, Found, FoundGrowing

\* Without an object this gives up the one that grows.
LEMMA FreeAllStep ==
    ASSUME MemInv, FreeAll
    PROVE  MemInv' /\ (Stack!Shrink \/ \E i \in 1..Len(given) : Stack!Free(i))
<1>1. h' = Emptied(h) /\ given' = <<>>
  BY DEF FreeAll, Freed
<1>2. given \in Seq([at : Nat, size : Nat]) /\ Len(given) \in Nat
  BY LenProperties DEF MemInv, IndInv, Good, Placed
<1>3. Len(<<>>) = 0
  OBVIOUS
<1>4. Stored(h') /\ Keeps(h, h', <<>>) /\ Size(h') = 0
  BY <1>1, <1>3, EmptiedKeeps
<1>5. IndInv'
  BY FreeAllKeeps DEF MemInv
<1>6. MemInv'
  BY <1>1, <1>3, <1>4, <1>5, ObstackAssumption DEF MemInv, Stored, Sized
<1>7. CASE given = <<>>
  <2>1. given' = given /\ Keeps(h, h', given) /\ Size(h') <= Size(h) /\ Carries(h, h', Size(h'))
    BY <1>1, <1>4, <1>7, GrowingSpace DEF Carries, MemInv, IndInv
  <2> QED
    BY <1>6, <2>1, ShrunkIs
<1>8. CASE given # <<>>
  <2>1. SubSeq(given, 1, 0) = <<>> /\ 0 \in 0..Len(given) /\ 1 \in 1..Len(given) /\ 1 - 1 = 0
    BY <1>2, <1>8, EmptySeq, SubSeqEmpty
  <2>2. Found' = SubSeq(Found, 1, 0) /\ FoundGrowing' = <<>>
    BY <1>1, <1>4, <2>1, CutIs
  <2>3. Stack!Free(1)
    BY <2>1, <2>2 DEF Stack!Free, Found, FoundGrowing
  <2> QED
    BY <1>6, <2>1, <2>3
<1> QED
  BY <1>7, <1>8

----------------------------------------------------------------------------
LEMMA InitMapped == Init => MemInv /\ Stack!Init
<1> SUFFICES ASSUME Init PROVE MemInv /\ Stack!Init
  OBVIOUS
<1>1. IndInv
  BY InitGood
<1>2. given = <<>> /\ Len(given) = 0
  BY DEF Init
<1>3. h.next_free = h.object_base /\ h.memory = [a \in Addresses |-> Junk]
  BY DEF Init
<1>4. Size(h) = 0
  BY <1>1, <1>3 DEF Size, IndInv, Good, Current
<1>5. MemInv
  BY <1>1, <1>2, <1>3, <1>4, ObstackAssumption DEF MemInv, Stored, Sized, Known
<1>6. Found = <<>> /\ FoundGrowing = <<>>
  BY <1>2, <1>4, NothingGrows DEF Found
<1> QED
  BY <1>5, <1>6 DEF Stack!Init, Found, FoundGrowing

LEMMA StepMapped == MemInv /\ [Next]_vars => MemInv' /\ [Stack!Next]_Stack!vars
<1> SUFFICES ASSUME MemInv, [Next]_vars PROVE MemInv' /\ [Stack!Next]_Stack!vars
  OBVIOUS
<1>1. 0..MaxSize \subseteq Nat
  BY ObstackAssumption
<1>2. ASSUME NEW length \in 0..MaxSize, Grow(length) PROVE MemInv' /\ Stack!Grow
  BY <1>1, <1>2, GrowStep
<1>3. ASSUME NEW length \in 0..MaxSize, VPrintf(length) PROVE MemInv' /\ Stack!Grow
  BY <1>1, <1>3, VPrintfStep
<1>4. ASSUME NEW length \in 0..MaxSize, Blank(length) PROVE MemInv' /\ Stack!Grow
  BY <1>1, <1>4, BlankStep
<1>5. ASSUME NEW length \in 0..MaxSize, Shrink(length) PROVE MemInv' /\ Stack!Shrink
  BY <1>1, <1>5, ShrinkStep
<1>6. CASE Finish
  BY <1>6, FinishStep DEF Stack!Next
<1>7. CASE FreeGrowing
  BY <1>7, FreeGrowingStep DEF Stack!Next
<1>8. Len(Found) = Len(given)
  <2>1. Len(given) \in Nat
    BY LenProperties DEF MemInv, IndInv, Good, Placed
  <2> QED
    BY <2>1 DEF Found
<1>9. CASE FreeAll
  BY <1>8, <1>9, FreeAllStep DEF Stack!Next, Found
<1>10. ASSUME NEW i \in 1..Len(given), Free(i) PROVE MemInv' /\ Stack!Next
  BY <1>8, <1>10, FreeStep DEF Stack!Next, Found
<1>11. CASE UNCHANGED vars
  BY <1>11 DEF vars, MemInv, IndInv, Stored, Sized, Stack!vars, BytesAt
<1>12. Stack!Grow \/ Stack!Shrink => Stack!Next
  BY DEF Stack!Next
<1> QED
  BY <1>2, <1>3, <1>4, <1>5, <1>6, <1>7, <1>9, <1>10, <1>11, <1>12 DEF Next

LEMMA MemAlways == Spec => []MemInv
  BY InitMapped, StepMapped, PTL DEF Spec

LEMMA FunctionIsSeq ==
    ASSUME NEW S, NEW n \in Nat, NEW f \in [1..n -> S]
    PROVE  f \in Seq(S)
  OBVIOUS

LEMMA MemTyped == MemInv => TypeOK
<1> SUFFICES ASSUME MemInv PROVE TypeOK
  OBVIOUS
<1>1. Good(h, given) /\ Chain(h) /\ Current(h) /\ Placed(h, given)
  BY DEF MemInv, IndInv, Good
<1>2. /\ Size(h) \in Nat /\ h.object_base \in Nat /\ h.next_free = h.object_base + Size(h)
      /\ h.next_free <= Limit(h) /\ Limit(h) \in 0..Top
  BY <1>1, GrowingSpace
<1>3. h.object_base \in 0..Top /\ h.next_free \in h.object_base..Top
  BY <1>2, ObstackAssumption
<1>4. h.heap \subseteq Chunks
  BY <1>1, ChainLength, ChunkTyped DEF Chain, ToSet
<1>5. ASSUME NEW i \in 1..Len(given) PROVE given[i] \in [at : 0..Top, size : 0..MaxSize]
  <2>1. given[i] \in [at : Nat, size : Nat] /\ given[i].size <= MaxSize
    BY <1>1, ElementOfSeq DEF Placed, MemInv, Sized
  <2>2. CASE given[i].at = NULL
    BY <2>1, <2>2, ObstackAssumption DEF NULL
  <2>3. CASE given[i].at # NULL
    <3>1. PICK k \in 1..Len(h.chunks) : In(h.chunks[k], given[i])
      BY <1>1, <2>3 DEF Placed
    <3>2. h.chunks[k] \in Chunks
      BY <1>1, ChunkTyped
    <3>3. h.chunks[k].limit \in Nat /\ h.chunks[k].limit <= Top
      BY <3>2, ObstackAssumption DEF Chunks, Addresses
    <3>4. given[i].at <= Top
      BY <2>1, <3>1, <3>3, ObstackAssumption DEF In
    <3> QED
      BY <2>1, <3>4, ObstackAssumption
  <2> QED
    BY <2>2, <2>3
<1>6. given \in Seq([at : 0..Top, size : 0..MaxSize])
  <2>1. given \in [1..Len(given) -> [at : 0..Top, size : 0..MaxSize]] /\ Len(given) \in Nat
    BY <1>1, <1>5, LenProperties DEF Placed
  <2> QED
    BY <2>1, FunctionIsSeq
<1> QED
  BY <1>1, <1>3, <1>4, <1>6 DEF TypeOK, Chain, Current, MemInv, Stored, Known

\* What the obstack, the heap and the memory are made of, whatever the caller does.
THEOREM ObstackTyped == Spec => []TypeOK
  BY MemAlways, MemTyped, PTL

\* An obstack is a stack of objects: each keeps the bytes the caller gave it while the one that
\* grows is moved from chunk to chunk, chunks are freed, and objects are given back by any of the
\* paths of obstack_free.
THEOREM StackImplemented == Spec => ObjectsKept
<1>1. Init => Stack!Init
  BY InitMapped
<1>2. MemInv /\ [Next]_vars => [Stack!Next]_Stack!vars
  BY StepMapped
<1> QED
  BY <1>1, <1>2, MemAlways, PTL DEF Spec, ObjectsKept, Stack!Spec
============================================================================
