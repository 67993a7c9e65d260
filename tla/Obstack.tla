------------------------------ MODULE Obstack ------------------------------
(***************************************************************************)
(* An obstack (src/obstack.c and the macros of src/include/obstack.h):     *)
(* objects are laid out one after the other in chunks, the last of them    *)
(* grows, and moves to a new chunk when the room runs out.                 *)
(*                                                                         *)
(* One action is one call of the caller.  Addresses are numbers, and the   *)
(* memory is what is known of the byte at each of them: Junk is any byte,  *)
(* and the caller writes another one at each place of each object, so that *)
(* none can be taken for another.                                          *)
(*                                                                         *)
(* Abstractions: the alignment is the same for all obstacks; sizes do not  *)
(* come near SIZE_MAX; an allocation that fails calls the handler before   *)
(* anything has changed and ends the call there (longjmp), which leaves    *)
(* no step to describe; objects are given back by the addresses that       *)
(* obstack_finish returned.                                                *)
(***************************************************************************)
EXTENDS Integers, SequencesExt, FiniteSetsExt

CONSTANTS
    Top,          \* the last address
    Starts,       \* where the allocator may place chunks
    Header,       \* the bytes of a chunk before its contents
    Mask,         \* alignment_mask: one less than a power of two
    ChunkSize,    \* chunk_size
    Slack,        \* what a new chunk has over what is needed at once
    MaxSize,      \* of an object
    MaxObjects    \* that the caller has

ASSUME ObstackAssumption ==
    /\ Top \in Nat /\ Starts \subseteq 1..Top /\ Mask \in Nat /\ Header \in Nat \ {0}
    /\ ChunkSize \in Nat /\ ChunkSize >= Header + Mask
    /\ Slack \in Nat /\ Slack >= Header
    /\ MaxSize \in Nat /\ MaxObjects \in Nat

VARIABLES
    h,        \* the obstack, the heap and the memory
    given     \* the finished objects that the caller has: address and size

vars == <<h, given>>

NULL == 0
Addresses == 1..Top

Junk  == 0
Bytes == 1 .. (MaxObjects + 1) * MaxSize

\* What the caller appends to the object that grows.
Appended(length) == [i \in 1..length |-> Len(given) * MaxSize + h.next_free - h.object_base + i]

\* A chunk is from its address to its limit.
Chunks == [at : Addresses, limit : Addresses]

RoundUp(a) == ((a + Mask) \div (Mask + 1)) * (Mask + 1)

\* Where the first object of a chunk is.
FirstBase(c) == RoundUp(c.at + Header)

Within(c) == c.at .. c.limit - 1

\* Chunks of this size that malloc may return.
Places(heap, size) ==
    {c \in Chunks : c.limit = c.at + size /\ c.at \in Starts
                       /\ \A d \in heap : Within(c) \cap Within(d) = {}}

----------------------------------------------------------------------------
Forget(memory, addresses) ==
    [a \in Addresses |-> IF a \in addresses THEN Junk ELSE memory[a]]

Limit(s) == IF s.chunks = <<>> THEN NULL ELSE Last(s.chunks).limit

Room(s) == Limit(s) - s.next_free

Size(s) == s.next_free - s.object_base

Init ==
    /\ \E c \in Places({}, ChunkSize) :
          h = [chunks |-> <<c>>, object_base |-> FirstBase(c), next_free |-> FirstBase(c),
               maybe_empty_object |-> FALSE,
               heap |-> {c}, memory |-> [a \in Addresses |-> Junk]]
    /\ given = <<>>

NewSize(s, length) ==
    Max({ChunkSize, Size(s) + length + Mask + Slack + Size(s) \div 8})

\* Mutant: whatever is before the object in its chunk.
AloneOrNot(s) == ~s.maybe_empty_object

\* The object is the only one in its chunk.
Alone(s) == ~s.maybe_empty_object /\ s.object_base = FirstBase(Last(s.chunks))

\* Mutant: the old chunk is taken out of the chain and not freed.
DropOldLeak(s) == [s EXCEPT !.chunks = Front(@)]

DropOld(s) ==
    [s EXCEPT !.chunks = Front(@),
              !.heap = @ \ {Last(s.chunks)},
              !.memory = Forget(@, Within(Last(s.chunks)))]

\* The object that grows is copied to the chunk c.
MoveTo(s, c) ==
    LET base == FirstBase(c)
        old  == s.object_base .. s.next_free - 1
    IN  [s EXCEPT
            !.heap = @ \cup {c},
            !.object_base = base,
            !.next_free = base + Size(s),
            !.memory = [a \in Addresses |->
                IF a \in base .. base + Size(s) - 1 THEN s.memory[a - base + s.object_base]
                ELSE IF a \in old THEN Junk ELSE s.memory[a]]]

NewChunk(s, c) ==
    LET moved == MoveTo(s, c)
        rest  == IF Alone(s) THEN DropOld(moved) ELSE moved
    IN  [rest EXCEPT !.chunks = Append(@, c), !.maybe_empty_object = FALSE]

\* The obstack with room for so many bytes: as it is, or with a new chunk.
MadeRoom(s, length) ==
    IF Room(s) >= length THEN {s}
    ELSE {NewChunk(s, c) : c \in Places(s.heap, NewSize(s, length))}

----------------------------------------------------------------------------
(* The object that grows.                                                  *)

Put(s, bytes) ==
    [s EXCEPT !.next_free = @ + Len(bytes),
              !.memory = [a \in Addresses |->
                  IF a \in s.next_free .. s.next_free + Len(bytes) - 1
                  THEN bytes[a - s.next_free + 1] ELSE @[a]]]

Grow(length) ==
    /\ Size(h) + length <= MaxSize
    /\ \E s \in MadeRoom(h, length) : h' = Put(s, Appended(length))
    /\ UNCHANGED given

Blank(length) ==
    /\ Size(h) + length <= MaxSize
    /\ \E s \in MadeRoom(h, length) : h' = [s EXCEPT !.next_free = @ + length]
    /\ UNCHANGED given

\* obstack_blank_fast with a negative length.
Shrink(length) ==
    /\ length \in 1..Size(h)
    /\ h' = [h EXCEPT !.next_free = @ - length,
                      !.memory = Forget(@, h.next_free - length .. h.next_free - 1)]
    /\ UNCHANGED given

\* obstack_vprintf makes room for a NUL that is not part of the object.  The
\* second vsnprintf can fail: then nothing has been added, in a new chunk or not.
VPrintf(length) ==
    /\ Size(h) + length <= MaxSize
    /\ \E s \in MadeRoom(h, length + 1) : h' = Put(s, Appended(length)) \/ h' = s
    /\ UNCHANGED given

\* Mutant: the next object starts where this one ends.
AlignedNot(s) == s.next_free

\* Where the next object starts.
AlignedNext(s) ==
    IF RoundUp(s.next_free) > Limit(s) THEN Limit(s) ELSE RoundUp(s.next_free)

SeenEmpty(s) == s.maybe_empty_object \/ Size(s) = 0

Finish ==
    /\ Len(given) < MaxObjects
    /\ given' = Append(given, [at |-> h.object_base, size |-> Size(h)])
    /\ h' = [h EXCEPT !.maybe_empty_object = SeenEmpty(h),
                      !.next_free = AlignedNext(h),
                      !.object_base = AlignedNext(h)]

----------------------------------------------------------------------------
(* obstack_free.                                                           *)

\* Mutant: the base is left.
EmptiedBut(s) ==
    [s EXCEPT !.chunks = <<>>, !.heap = @ \ ToSet(s.chunks),
              !.next_free = NULL,
              !.maybe_empty_object = TRUE,
              !.memory = Forget(@, Addresses)]

Emptied(s) ==
    [s EXCEPT !.chunks = <<>>, !.heap = @ \ ToSet(s.chunks),
              !.object_base = NULL, !.next_free = NULL,
              !.maybe_empty_object = TRUE,
              !.memory = Forget(@, Addresses)]

\* The limit belongs to the chunk: an empty object may be there.
Holds(c, obj) == c.at < obj /\ obj <= c.limit

\* The chunks that hold the address: at the end of the chain the loop stops at the
\* last of them, and aborts when there is none.
Holders(s, obj) == {i \in 1..Len(s.chunks) : Holds(s.chunks[i], obj)}

\* The macro: the address is inside of the current chunk.
InCurrent(s, obj) == s.chunks # <<>> /\ Last(s.chunks).at < obj /\ obj < Limit(s)

FreedTo(s, obj) ==
    LET n     == IF InCurrent(s, obj) THEN Len(s.chunks) ELSE Max(Holders(s, obj))
        freed == ToSet(SubSeq(s.chunks, n + 1, Len(s.chunks)))
    IN  [s EXCEPT
            !.chunks = SubSeq(@, 1, n),
            !.heap = @ \ freed,
            !.object_base = obj, !.next_free = obj,
            !.maybe_empty_object = @ \/ ~InCurrent(s, obj),
            !.memory = Forget(@, (obj .. s.chunks[n].limit - 1)
                                    \cup UNION {Within(c) : c \in freed})]

Freed(s, obj) == IF obj = NULL THEN Emptied(s) ELSE FreedTo(s, obj)

\* There is always a chunk to stop at: ObjectsPlaced.
Free(i) ==
    /\ given[i].at = NULL \/ Holders(h, given[i].at) # {}
    /\ h' = Freed(h, given[i].at)
    /\ given' = SubSeq(given, 1, i - 1)

\* The object that grows is given up.
FreeGrowing ==
    /\ h.object_base # NULL
    /\ h' = Freed(h, h.object_base)
    /\ UNCHANGED given

FreeAll ==
    /\ h' = Freed(h, NULL)
    /\ given' = <<>>

----------------------------------------------------------------------------
Next ==
    \/ \E length \in 0..MaxSize : Grow(length) \/ VPrintf(length) \/ Blank(length) \/ Shrink(length)
    \/ Finish \/ FreeGrowing \/ FreeAll
    \/ \E i \in 1..Len(given) : Free(i)

Spec == Init /\ [][Next]_vars

----------------------------------------------------------------------------
(* Properties.                                                             *)

TypeOK ==
    /\ h.chunks \in Seq(Chunks) /\ h.heap \subseteq Chunks
    /\ h.object_base \in 0..Top /\ h.next_free \in h.object_base..Top
    /\ h.maybe_empty_object \in BOOLEAN
    /\ h.memory \in [Addresses -> Bytes \cup {Junk}]
    /\ given \in Seq([at : 0..Top, size : 0..MaxSize])

\* Every object the caller has, be it empty or at the limit of its chunk, can be
\* given back: it is inside of a chunk of the chain, and what came later is after it
\* in the same chunk, or in a later one.  So is the object that grows.  An object
\* that is not empty is aligned.
Objects == IF h.chunks = <<>> THEN given
           ELSE Append(given, [at |-> h.object_base, size |-> Size(h)])

ChunkOf(object) == Max(Holders(h, object.at))

ObjectsPlaced ==
    /\ \A i \in 1..Len(Objects) : Objects[i].at # NULL =>
          /\ Holders(h, Objects[i].at) # {}
          /\ Objects[i].at + Objects[i].size <= h.chunks[ChunkOf(Objects[i])].limit
    /\ \A i, j \in 1..Len(Objects) : i < j /\ Objects[i].at # NULL =>
          \/ ChunkOf(Objects[i]) < ChunkOf(Objects[j])
          \/ /\ ChunkOf(Objects[i]) = ChunkOf(Objects[j])
             /\ Objects[i].at + Objects[i].size <= Objects[j].at
    /\ \A i \in 1..Len(given) : given[i].size > 0 => given[i].at % (Mask + 1) = 0

\* The chunks of the chain are the ones that were allocated and not freed, each
\* once: none is lost and none is freed twice.
ChunksOwned == ToSet(h.chunks) = h.heap /\ IsInjective(h.chunks)

BytesAt(at, size) == [i \in 1..size |-> h.memory[at + i - 1]]

Stack ==
    INSTANCE ObjectStack WITH
        Bytes <- Bytes \cup {Junk},
        objects <- [i \in 1..Len(given) |-> BytesAt(given[i].at, given[i].size)],
        growing <- BytesAt(h.object_base, Size(h))

\* The objects are as the caller made them, wherever they have been moved and
\* whatever has been freed: an obstack is a stack of objects.
ObjectsKept == Stack!Spec
=============================================================================
