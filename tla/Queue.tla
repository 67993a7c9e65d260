------------------------------- MODULE Queue -------------------------------
(***************************************************************************)
(* The linked lists of src/include/queue.h, as their macros leave memory:  *)
(* singly linked lists (SLIST), lists (LIST), simple queues (SIMPLEQ and   *)
(* STAILQ), simple queues with masked pointers (XSIMPLEQ) and tail queues  *)
(* (TAILQ).  Memory maps the address of a field to its contents, which is  *)
(* an element, a null pointer, the address of a field, or one of these     *)
(* under a mask.  All heads and elements of a behaviour are of one kind.   *)
(*                                                                         *)
(* Abstractions: the fields of an element in no list are Stale, and may    *)
(* not be followed; the link of an XSIMPLEQ is at the start of its element *)
(* (struct __xhead takes that for granted).                                *)
(***************************************************************************)
EXTENDS Integers, FiniteSets, SequencesExt, TLC

CONSTANTS
    Elms, Heads,     \* model values
    Null, Stale,     \* model values: no element; what an unused field holds
    RemoveMasked     \* do callers remove from an XSIMPLEQ with a cookie?

Kinds == {"SLIST", "LIST", "SIMPLEQ", "XSIMPLEQ", "TAILQ", "STAILQ"}

VARIABLES
    kind,      \* the macros that are used
    cookie,    \* XSIMPLEQ: is the cookie other than 0, that is, was it made at random?
    m,         \* memory
    loop,      \* a loop of the caller over a list
    op         \* its last operation

vars == <<kind, cookie, m, loop, op>>

\* The addresses of the fields.
FirstAt(h) == <<"first", h>>
LastAt(h)  == <<"last", h>>
NextAt(e)  == <<"next", e>>
PrevAt(e)  == <<"prev", e>>

Fields == (UNION {{FirstAt(h), LastAt(h)} : h \in Heads})
              \cup (UNION {{NextAt(e), PrevAt(e)} : e \in Elms})

\* An element is neither a null pointer nor the address of a field, nor is any of them a masked
\* pointer.
Bare == Elms \cup Fields \cup {Null, Stale}

ASSUME QueueAssumption ==
    /\ IsFiniteSet(Elms)
    /\ Null \notin Elms /\ Stale \notin Elms /\ Null # Stale
    /\ Fields \cap (Elms \cup {Null, Stale}) = {}
    /\ \A h \in Heads, v \in Bare : <<"masked", h, v>> \notin Bare

\* XSIMPLEQ_XOR.
Xor(h, v) ==
    IF ~cookie THEN v
    ELSE IF v \in Bare THEN <<"masked", h, v>>
    ELSE IF v[2] = h THEN v[3] ELSE Stale

\* What a macro leaves of memory: EXCEPT makes its stores in their order.  The store to the
\* element n that follows, if one does, and to the end of the list otherwise.
Backlink(mem, n, at) == IF n = Null THEN mem ELSE [mem EXCEPT ![PrevAt(n)] = at]
BacklinkOrLast(mem, h, n, at) == [mem EXCEPT ![IF n = Null THEN LastAt(h) ELSE PrevAt(n)] = at]

\* _Q_INVALIDATE, also where the macros leave it out: nobody may look at e any more.
Forget(mem, e) == [mem EXCEPT ![NextAt(e)] = Stale, ![PrevAt(e)] = Stale]

----------------------------------------------------------------------------
(* A list as it is walked.                                                 *)

\* *_FIRST and *_NEXT.
FirstOf(h) == IF kind = "XSIMPLEQ" THEN Xor(h, m[FirstAt(h)]) ELSE m[FirstAt(h)]
NextOf(h, e) == IF kind = "XSIMPLEQ" THEN Xor(h, m[NextAt(e)]) ELSE m[NextAt(e)]

\* *_FOREACH, given up when it runs in a circle or off the list.
Walk(h) ==
    LET from[p \in Elms \X (0..Cardinality(Elms))] ==
            LET n == NextOf(h, p[1])
            IN  <<p[1]>> \o (IF p[2] > 0 /\ n \in Elms THEN from[<<n, p[2] - 1>>] ELSE <<>>)
    IN  IF FirstOf(h) \in Elms THEN from[<<FirstOf(h), Cardinality(Elms)>>] ELSE <<>>

Within(h) == Range(Walk(h))
Free == Elms \ UNION {Within(h) : h \in Heads}

\* The element that the one to remove comes after.
Before(h, e) == CHOOSE l \in Within(h) : NextOf(h, l) = e

----------------------------------------------------------------------------
(* SLIST.                                                                  *)

SInit(h) == [a \in {FirstAt(h)} |-> Null]

SInsertHead(h, e) == m' = [m EXCEPT ![NextAt(e)] = m[FirstAt(h)], ![FirstAt(h)] = e]

SInsertAfter(l, e) == m' = [m EXCEPT ![NextAt(e)] = m[NextAt(l)], ![NextAt(l)] = e]

SRemoveHead(h) ==
    LET e == m[FirstAt(h)] IN m' = Forget([m EXCEPT ![FirstAt(h)] = m[NextAt(e)]], e)

SRemoveAfter(l) ==
    LET e == m[NextAt(l)] IN m' = Forget([m EXCEPT ![NextAt(l)] = m[NextAt(e)]], e)

SRemove(h, e) == IF m[FirstAt(h)] = e THEN SRemoveHead(h) ELSE SRemoveAfter(Before(h, e))

----------------------------------------------------------------------------
(* LIST.                                                                   *)

LInsertAfter(l, e) ==
    LET n == m[NextAt(l)]
    IN  m' = [Backlink([m EXCEPT ![NextAt(e)] = n], n, NextAt(e))
                  EXCEPT ![NextAt(l)] = e, ![PrevAt(e)] = NextAt(l)]

LInsertBefore(l, e) ==
    LET at == m[PrevAt(l)]
    IN  m' = [m EXCEPT ![PrevAt(e)] = at, ![NextAt(e)] = l, ![at] = e, ![PrevAt(l)] = NextAt(e)]

LInsertHead(h, e) ==
    LET n == m[FirstAt(h)]
    IN  m' = [Backlink([m EXCEPT ![NextAt(e)] = n], n, NextAt(e))
                  EXCEPT ![FirstAt(h)] = e, ![PrevAt(e)] = FirstAt(h)]

LRemove(e) ==
    LET n == m[NextAt(e)]
        at == m[PrevAt(e)]
    IN  m' = Forget([Backlink(m, n, at) EXCEPT ![at] = n], e)

LReplace(e, f) ==
    LET n == m[NextAt(e)]
        at == m[PrevAt(e)]
    IN  m' = Forget([Backlink([m EXCEPT ![NextAt(f)] = n], n, NextAt(f))
                         EXCEPT ![PrevAt(f)] = at, ![at] = f], e)

----------------------------------------------------------------------------
(* SIMPLEQ.                                                                *)

QInit(h) == [a \in {FirstAt(h), LastAt(h)} |-> IF a = FirstAt(h) THEN Null ELSE FirstAt(h)]

QInsertHead(h, e) ==
    LET n == m[FirstAt(h)]
    IN  m' = [m EXCEPT ![NextAt(e)] = n, ![LastAt(h)] = IF n = Null THEN NextAt(e) ELSE m[LastAt(h)],
                       ![FirstAt(h)] = e]

QInsertTail(h, e) ==
    m' = [m EXCEPT ![NextAt(e)] = Null, ![m[LastAt(h)]] = e, ![LastAt(h)] = NextAt(e)]

QInsertAfter(h, l, e) ==
    LET n == m[NextAt(l)]
    IN  m' = [m EXCEPT ![NextAt(e)] = n, ![LastAt(h)] = IF n = Null THEN NextAt(e) ELSE m[LastAt(h)],
                       ![NextAt(l)] = e]

QRemoveHead(h) ==
    LET e == m[FirstAt(h)]
        n == m[NextAt(e)]
    IN  m' = Forget([m EXCEPT ![FirstAt(h)] = n,
                              ![LastAt(h)] = IF n = Null THEN FirstAt(h) ELSE m[LastAt(h)]], e)

\* Mutant: the end of the queue is not moved.
QRemoveAfterNot(h, l) ==
    LET e == m[NextAt(l)] IN m' = Forget([m EXCEPT ![NextAt(l)] = m[NextAt(e)]], e)

QRemoveAfter(h, l) ==
    LET e == m[NextAt(l)]
        n == m[NextAt(e)]
    IN  m' = Forget([m EXCEPT ![NextAt(l)] = n,
                              ![LastAt(h)] = IF n = Null THEN NextAt(l) ELSE m[LastAt(h)]], e)

QConcat(g, h) ==
    m' = IF m[FirstAt(h)] = Null THEN m
         ELSE [m EXCEPT ![m[LastAt(g)]] = m[FirstAt(h)], ![LastAt(g)] = m[LastAt(h)],
                        ![FirstAt(h)] = Null, ![LastAt(h)] = FirstAt(h)]

----------------------------------------------------------------------------
(* XSIMPLEQ.                                                               *)

XInit(h) == [a \in {FirstAt(h), LastAt(h)} |-> Xor(h, IF a = FirstAt(h) THEN Null ELSE FirstAt(h))]

XInsertHead(h, e) ==
    LET n == m[FirstAt(h)]
    IN  m' = [m EXCEPT ![NextAt(e)] = n,
                       ![LastAt(h)] = IF n = Xor(h, Null) THEN Xor(h, NextAt(e)) ELSE m[LastAt(h)],
                       ![FirstAt(h)] = Xor(h, e)]

XInsertTail(h, e) ==
    m' = [m EXCEPT ![NextAt(e)] = Xor(h, Null), ![Xor(h, m[LastAt(h)])] = Xor(h, e),
                   ![LastAt(h)] = Xor(h, NextAt(e))]

XInsertAfter(h, l, e) ==
    LET n == m[NextAt(l)]
    IN  m' = [m EXCEPT ![NextAt(e)] = n,
                       ![LastAt(h)] = IF n = Xor(h, Null) THEN Xor(h, NextAt(e)) ELSE m[LastAt(h)],
                       ![NextAt(l)] = Xor(h, e)]

XRemoveHead(h) ==
    LET e == Xor(h, m[FirstAt(h)])
        n == Xor(h, m[NextAt(e)])
    IN  m' = Forget([m EXCEPT ![FirstAt(h)] = n,
                              ![LastAt(h)] = IF n = Xor(h, Null) THEN Xor(h, FirstAt(h)) ELSE m[LastAt(h)]], e)

XRemoveAfter(h, l) ==
    LET e == Xor(h, m[NextAt(l)])
        n == Xor(h, m[NextAt(e)])
    IN  m' = Forget([m EXCEPT ![NextAt(l)] = n,
                              ![LastAt(h)] = IF n = Xor(h, Null) THEN Xor(h, NextAt(l)) ELSE m[LastAt(h)]], e)

----------------------------------------------------------------------------
(* TAILQ.                                                                  *)

\* An address taken for a list head: its second field.
Second(a) == IF a[1] = "next" THEN PrevAt(a[2]) ELSE LastAt(a[2])

TLast(h) == m[m[Second(m[LastAt(h)])]]
TPrev(e) == m[m[Second(m[PrevAt(e)])]]

TInsertHead(h, e) ==
    LET n == m[FirstAt(h)]
    IN  m' = [BacklinkOrLast([m EXCEPT ![NextAt(e)] = n], h, n, NextAt(e))
                  EXCEPT ![FirstAt(h)] = e, ![PrevAt(e)] = FirstAt(h)]

TInsertTail(h, e) ==
    LET at == m[LastAt(h)]
    IN  m' = [m EXCEPT ![NextAt(e)] = Null, ![PrevAt(e)] = at, ![at] = e, ![LastAt(h)] = NextAt(e)]

TInsertAfter(h, l, e) ==
    LET n == m[NextAt(l)]
    IN  m' = [BacklinkOrLast([m EXCEPT ![NextAt(e)] = n], h, n, NextAt(e))
                  EXCEPT ![NextAt(l)] = e, ![PrevAt(e)] = NextAt(l)]

TInsertBefore(l, e) ==
    LET at == m[PrevAt(l)]
    IN  m' = [m EXCEPT ![PrevAt(e)] = at, ![NextAt(e)] = l, ![at] = e, ![PrevAt(l)] = NextAt(e)]

TRemove(h, e) ==
    LET n == m[NextAt(e)]
        at == m[PrevAt(e)]
    IN  m' = Forget([BacklinkOrLast(m, h, n, at) EXCEPT ![at] = n], e)

TReplace(h, e, f) ==
    LET n == m[NextAt(e)]
        at == m[PrevAt(e)]
    IN  m' = Forget([BacklinkOrLast([m EXCEPT ![NextAt(f)] = n], h, n, NextAt(f))
                         EXCEPT ![PrevAt(f)] = at, ![at] = f], e)

\* Mutant: the first element moved keeps pointing back to its old head.
TConcatLoose(g, h) ==
    m' = IF m[FirstAt(h)] = Null THEN m
         ELSE [m EXCEPT ![m[LastAt(g)]] = m[FirstAt(h)], ![LastAt(g)] = m[LastAt(h)],
                        ![FirstAt(h)] = Null, ![LastAt(h)] = FirstAt(h)]

TConcat(g, h) ==
    m' = IF m[FirstAt(h)] = Null THEN m
         ELSE [m EXCEPT ![m[LastAt(g)]] = m[FirstAt(h)], ![PrevAt(m[FirstAt(h)])] = m[LastAt(g)],
                        ![LastAt(g)] = m[LastAt(h)],
                        ![FirstAt(h)] = Null, ![LastAt(h)] = FirstAt(h)]

----------------------------------------------------------------------------
(* STAILQ: the macros of SIMPLEQ under other names, and two more.          *)

TailInsertHead(h, e) == QInsertHead(h, e)
TailInsertTail(h, e) == QInsertTail(h, e)
TailInsertAfter(h, l, e) == QInsertAfter(h, l, e)
TailRemoveHead(h) == QRemoveHead(h)
TailRemoveAfter(h, l) == QRemoveAfter(h, l)
TailConcat(g, h) == QConcat(g, h)

TailRemove(h, e) ==
    IF m[FirstAt(h)] = e THEN TailRemoveHead(h) ELSE TailRemoveAfter(h, Before(h, e))

\* The element that *_last is a field of.
TailLast(h) == IF m[FirstAt(h)] = Null THEN Null ELSE m[LastAt(h)][2]

----------------------------------------------------------------------------
(* What a caller does: an operation of the kind at hand, on an element     *)
(* that is in no list or in that of h, as the operation wants it.          *)

NoLoop == [head |-> Null, back |-> FALSE, at |-> Null, next |-> Null, seen |-> <<>>, whole |-> <<>>]

HeadFields(h) ==
    CASE kind \in {"SLIST", "LIST"} -> SInit(h) [] kind = "XSIMPLEQ" -> XInit(h) [] OTHER -> QInit(h)

Init ==
    /\ kind \in Kinds
    /\ cookie \in {kind = "XSIMPLEQ", FALSE}
    /\ m = [a \in Fields |->
              LET h == a[2]
              IN  IF h \in Heads /\ a \in DOMAIN HeadFields(h) THEN HeadFields(h)[a] ELSE Stale]
    /\ loop = NoLoop
    /\ op = <<"init">>

\* Not in a loop.
Outside == loop = NoLoop /\ UNCHANGED <<kind, cookie, loop>>

InsertHead(h, e) ==
    /\ Outside /\ e \in Free
    /\ CASE kind = "SLIST" -> SInsertHead(h, e)    [] kind = "LIST" -> LInsertHead(h, e)
         [] kind = "SIMPLEQ" -> QInsertHead(h, e)  [] kind = "XSIMPLEQ" -> XInsertHead(h, e)
         [] kind = "TAILQ" -> TInsertHead(h, e)    [] kind = "STAILQ" -> TailInsertHead(h, e)
    /\ op' = <<"head", h, e>>

InsertTail(h, e) ==
    /\ Outside /\ e \in Free /\ kind \notin {"SLIST", "LIST"}
    /\ CASE kind = "SIMPLEQ" -> QInsertTail(h, e)  [] kind = "XSIMPLEQ" -> XInsertTail(h, e)
         [] kind = "TAILQ" -> TInsertTail(h, e)    [] kind = "STAILQ" -> TailInsertTail(h, e)
    /\ op' = <<"tail", h, e>>

InsertAfter(h, l, e) ==
    /\ Outside /\ e \in Free /\ l \in Within(h)
    /\ CASE kind = "SLIST" -> SInsertAfter(l, e)      [] kind = "LIST" -> LInsertAfter(l, e)
         [] kind = "SIMPLEQ" -> QInsertAfter(h, l, e) [] kind = "XSIMPLEQ" -> XInsertAfter(h, l, e)
         [] kind = "TAILQ" -> TInsertAfter(h, l, e)   [] kind = "STAILQ" -> TailInsertAfter(h, l, e)
    /\ op' = <<"after", l, e>>

InsertBefore(h, l, e) ==
    /\ Outside /\ e \in Free /\ l \in Within(h)
    /\ \/ kind = "LIST" /\ LInsertBefore(l, e)
       \/ kind = "TAILQ" /\ TInsertBefore(l, e)
    /\ op' = <<"before", l, e>>

\* *_REMOVE, or *_REMOVE_HEAD and *_REMOVE_AFTER where there is no such macro.
Extract(h, e) ==
    /\ e \in Within(h)
    /\ cookie => RemoveMasked
    /\ LET first == FirstOf(h) = e
       IN  CASE kind = "SLIST"    -> SRemove(h, e)
             [] kind = "LIST"     -> LRemove(e)
             [] kind = "SIMPLEQ"  -> IF first THEN QRemoveHead(h) ELSE QRemoveAfter(h, Before(h, e))
             [] kind = "XSIMPLEQ" -> IF first THEN XRemoveHead(h) ELSE XRemoveAfter(h, Before(h, e))
             [] kind = "TAILQ"    -> TRemove(h, e)
             [] kind = "STAILQ"   -> TailRemove(h, e)
    /\ op' = <<"remove", h, e>>

TakeOut(h, e) == Outside /\ Extract(h, e)

Exchange(h, e, f) ==
    /\ Outside /\ e \in Within(h) /\ f \in Free
    /\ \/ kind = "LIST" /\ LReplace(e, f)
       \/ kind = "TAILQ" /\ TReplace(h, e, f)
    /\ op' = <<"replace", e, f>>

Join(g, h) ==
    /\ Outside /\ g # h
    /\ \/ kind = "SIMPLEQ" /\ QConcat(g, h)
       \/ kind = "TAILQ" /\ TConcat(g, h)
       \/ kind = "STAILQ" /\ TailConcat(g, h)
    /\ op' = <<"concat", g, h>>

----------------------------------------------------------------------------
(* *_FOREACH_SAFE and TAILQ_FOREACH_REVERSE_SAFE with a body that may take *)
(* the element at hand out.                                                *)

\* The loop stands at v and remembers the element after it.
\* Mutant: it looks for that element when it gets there (*_FOREACH).
StandUnsafe(l, v) == [l EXCEPT !.at = v, !.seen = IF v = Null THEN @ ELSE Append(@, v)]

Stand(l, v) ==
    [l EXCEPT !.at = v,
              !.next = IF v = Null THEN Null ELSE IF l.back THEN TPrev(v) ELSE NextOf(l.head, v),
              !.seen = IF v = Null THEN @ ELSE Append(@, v)]

LoopBegin(h, back) ==
    /\ loop = NoLoop
    /\ back => kind = "TAILQ"
    /\ loop' = Stand([NoLoop EXCEPT !.head = h, !.back = back,
                                    !.whole = IF back THEN Reverse(Walk(h)) ELSE Walk(h)],
                     IF back THEN TLast(h) ELSE FirstOf(h))
    /\ UNCHANGED <<kind, cookie, m, op>>

LoopDrop == loop.at # Null /\ Extract(loop.head, loop.at) /\ UNCHANGED <<kind, cookie, loop>>

LoopStep == loop.at # Null /\ loop' = Stand(loop, loop.next) /\ UNCHANGED <<kind, cookie, m, op>>

LoopEnd == loop # NoLoop /\ loop.at = Null /\ loop' = NoLoop /\ UNCHANGED <<kind, cookie, m, op>>

Next ==
    \/ \E h \in Heads, e \in Elms : InsertHead(h, e) \/ InsertTail(h, e) \/ TakeOut(h, e)
    \/ \E h \in Heads, l, e \in Elms : InsertAfter(h, l, e) \/ InsertBefore(h, l, e) \/ Exchange(h, l, e)
    \/ \E g, h \in Heads : Join(g, h)
    \/ \E h \in Heads, back \in BOOLEAN : LoopBegin(h, back)
    \/ LoopDrop \/ LoopStep \/ LoopEnd

Spec == Init /\ [][Next]_vars

----------------------------------------------------------------------------
(* Properties.                                                             *)

\* Memory holds elements, addresses and null pointers; a loop is over one list.
TypeOK ==
    /\ kind \in Kinds /\ cookie \in BOOLEAN
    /\ DOMAIN m = Fields
    /\ \A a \in Fields : cookie \/ m[a] \in Bare
    /\ loop.head \in Heads \cup {Null} /\ loop.back \in BOOLEAN
    /\ {loop.at, loop.next} \subseteq Elms \cup {Null}

\* Every pointer backwards and to an end is right, whatever came before: *_last is the
\* address of the field that ends the list, le_prev and tqe_prev that of the field that
\* points to the element, so that TAILQ_LAST and TAILQ_PREV, which take such an address
\* for a head, and STAILQ_LAST, which counts back from it, find the elements in reverse.
WellLinked ==
    TypeOK /\ \A h \in Heads :
        LET w == Walk(h)
            field(i) == IF i = 0 THEN FirstAt(h) ELSE NextAt(w[i])
        IN  /\ kind \in {"SIMPLEQ", "STAILQ", "TAILQ"} => m[LastAt(h)] = field(Len(w))
            /\ kind = "XSIMPLEQ" => Xor(h, m[LastAt(h)]) = field(Len(w))
            /\ kind \in {"LIST", "TAILQ"} => \A i \in 1..Len(w) : m[PrevAt(w[i])] = field(i - 1)
            /\ kind = "TAILQ" =>
                  /\ TLast(h) = IF w = <<>> THEN Null ELSE Last(w)
                  /\ \A i \in 1..Len(w) : TPrev(w[i]) = IF i = 1 THEN Null ELSE w[i - 1]
            /\ kind = "STAILQ" => TailLast(h) = IF w = <<>> THEN Null ELSE Last(w)

\* A loop that may remove the element at hand passes every element of the list once, in
\* order (*_FOREACH_SAFE: the next element is read before the body).
LoopSeesAll == loop.at = Null => loop.seen = loop.whole

\* Every macro does to the list, as it is walked, what its name says.
AsLists == INSTANCE Lists WITH lists <- [h \in Heads |-> Walk(h)], op <- op
ListsSpec == AsLists!Spec
=============================================================================
