--------------------------- MODULE PthreadBridge ---------------------------
(***************************************************************************)
(* The pthread and semaphore functions of the compatibility bridge         *)
(* (src/compat/pthread.c) but for pthread_once.  A call first has all of   *)
(* the native functions resolved, by whichever thread comes first, then    *)
(* converts a static mutex of glibc if it is given one, then goes on to    *)
(* the native function.                                                    *)
(*                                                                         *)
(* A thread is in several calls at once when dlsym, or a signal handler,   *)
(* calls the bridge again: calls[t] are the calls of t, the innermost at   *)
(* depth[t].  One action is one atomic operation of the innermost call.    *)
(*                                                                         *)
(* The state is that of one process.  After a fork it is that of the       *)
(* child: a fork changes nothing in the parent, whose other behaviours are *)
(* those without that fork.                                                *)
(*                                                                         *)
(* Abstractions: one mutex, that native calls lock and unlock but do not   *)
(* destroy; the native functions are numbered; a process id is not used    *)
(* twice; fork is called outside of the bridge; a signal handler calls     *)
(* nothing that takes a mutex.                                             *)
(*                                                                         *)
(* What PthreadOnce has too is named Bridge... here: MCPthread extends     *)
(* both.                                                                   *)
(***************************************************************************)
EXTENDS Processes

CONSTANTS
    Count,      \* how many functions are to be resolved
    Kinds,      \* the kinds of mutex that programs are compiled with
    MaxDepth    \* calls that a thread may be in at once

ASSUME BridgeAssumption ==
    /\ Count \in Nat /\ MaxDepth \in Nat
    /\ Kinds \subseteq Nat /\ 0 \in Kinds

VARIABLES
    self, used,        \* the process id, and those given out so far
    resolver_status,   \* the status word: a state and a process id
    pointers,          \* the functions whose pointers are set
    resolver_active,   \* per thread: the thread-local flag
    type, kind,        \* words 0 and 4 of the mutex
    calls, depth,      \* per thread: its calls, and how many
    absent,            \* the functions that the C library does not have
    static             \* word 4 as the program was compiled with

process      == <<self, used>>
bridgeMemory == <<resolver_status, pointers, resolver_active, type, kind>>
fixed        == <<absent, static>>
bridgeVars   == <<process, bridgeMemory, calls, depth, fixed>>

Functions == 1..Count
Levels    == 1..MaxDepth
Convertible == {1, 2}    \* the recursive and the error-checking kind

Status(state, pid) == [state |-> state, pid |-> pid]
Uninitialized == Status("uninitialized", 0)
Running == Status("running", self)
Statuses ==
    [state : {"uninitialized", "running", "ready", "failed"}, pid : Pids \cup {0}]

BridgeLabels ==
    {"none", "load", "takeover", "claim", "mark", "dlsym", "publish",
     "type", "kind", "cas", "clear", "native"}

\* A call: its next step, the status it has loaded, how many functions it has
\* looked for, whether it was given the mutex, and the kind it has loaded.
Calls == [pc : BridgeLabels, seen : Statuses, sought : Functions \cup {0},
          mutex : BOOLEAN, kind : Kinds]
NoCall == [pc |-> "none", seen |-> Uninitialized, sought |-> 0, mutex |-> FALSE, kind |-> 0]

Innermost(t) == calls[t][depth[t]]
At(t, label) == depth[t] > 0 /\ Innermost(t).pc = label

----------------------------------------------------------------------------
BridgeInit ==
    /\ self = Root /\ used = {Root}
    /\ resolver_status = Uninitialized
    /\ pointers = {}
    /\ resolver_active = [t \in Threads |-> FALSE]
    /\ absent \in SUBSET Functions
    /\ static \in Kinds
    /\ type = 0 /\ kind = static
    /\ calls = [t \in Threads |-> [l \in Levels |-> NoCall]]
    /\ depth = [t \in Threads |-> 0]

Becomes(t, call) ==
    /\ calls' = [calls EXCEPT ![t][depth[t]] = call]
    /\ UNCHANGED depth

GoTo(t, label) == Becomes(t, [Innermost(t) EXCEPT !.pc = label])

Begin(t, mutex) ==
    /\ depth[t] < MaxDepth
    /\ depth' = [depth EXCEPT ![t] = @ + 1]
    /\ calls' = [calls EXCEPT ![t][depth[t] + 1] =
                    [NoCall EXCEPT !.pc = "load", !.mutex = mutex]]
    /\ UNCHANGED <<process, bridgeMemory, fixed>>

BridgeReturn(t) ==
    /\ calls' = [calls EXCEPT ![t][depth[t]] = NoCall]
    /\ depth' = [depth EXCEPT ![t] = @ - 1]

----------------------------------------------------------------------------
(* Calls: from the program, from dlsym and from a signal handler.          *)

BridgeCall(t, mutex) == depth[t] = 0 /\ Begin(t, mutex)

Reenter(t, mutex) == At(t, "dlsym") /\ Begin(t, mutex)

Signal(t) == depth[t] > 0 /\ Begin(t, FALSE)

----------------------------------------------------------------------------
(* resolve_native.                                                         *)

\* The functions are there: resolve_native returns, the call goes on.
Proceed(t) ==
    Becomes(t, [NoCall EXCEPT !.pc = IF Innermost(t).mutex THEN "type" ELSE "native",
                              !.mutex = Innermost(t).mutex])

LoadReady(t) ==
    /\ At(t, "load") /\ resolver_status.state = "ready"
    /\ Proceed(t)
    /\ UNCHANGED <<process, bridgeMemory, fixed>>

LoadFailed(t) ==
    /\ At(t, "load") /\ resolver_status.state = "failed"
    /\ BridgeReturn(t)
    /\ UNCHANGED <<process, bridgeMemory, fixed>>

\* Mutant: a call that finds the functions being resolved fails.
LoadRunning(t) ==
    /\ At(t, "load") /\ resolver_status.state = "running"
    /\ BridgeReturn(t)
    /\ UNCHANGED <<process, bridgeMemory, fixed>>

\* The thread is resolving already, further out: ENOSYS.
LoadReentered(t) ==
    /\ At(t, "load") /\ resolver_status.state = "running" /\ resolver_active[t]
    /\ BridgeReturn(t)
    /\ UNCHANGED <<process, bridgeMemory, fixed>>

\* Left by a thread of another process.  (While it is one of this process, the
\* loop yields and loads again: no step.)
LoadForeign(t) ==
    /\ At(t, "load") /\ resolver_status.state = "running" /\ ~resolver_active[t]
    /\ resolver_status.pid # self
    /\ Becomes(t, [Innermost(t) EXCEPT !.pc = "takeover", !.seen = resolver_status])
    /\ UNCHANGED <<process, bridgeMemory, fixed>>

LoadUninitialized(t) ==
    /\ At(t, "load") /\ resolver_status.state = "uninitialized"
    /\ GoTo(t, "claim")
    /\ UNCHANGED <<process, bridgeMemory, fixed>>

\* The loop of resolve_native starts over.
Retry(t) == Becomes(t, [NoCall EXCEPT !.pc = "load", !.mutex = Innermost(t).mutex])

\* Mutant: the status is reset whatever it has become.
TakeoverStore(t) ==
    /\ At(t, "takeover")
    /\ resolver_status' = Uninitialized
    /\ Retry(t)
    /\ UNCHANGED <<process, pointers, resolver_active, type, kind, fixed>>

\* Mutant: the status is left as it is.
TakeoverForgotten(t) ==
    /\ At(t, "takeover")
    /\ Retry(t)
    /\ UNCHANGED <<process, bridgeMemory, fixed>>

Takeover(t) ==
    /\ At(t, "takeover")
    /\ resolver_status' = IF resolver_status = Innermost(t).seen THEN Uninitialized
                          ELSE resolver_status
    /\ Retry(t)
    /\ UNCHANGED <<process, pointers, resolver_active, type, kind, fixed>>

\* Mutant: a store instead of the compare-and-swap.
ClaimStore(t) ==
    /\ At(t, "claim")
    /\ resolver_status' = Running
    /\ GoTo(t, "mark")
    /\ UNCHANGED <<process, pointers, resolver_active, type, kind, fixed>>

ClaimWins(t) ==
    /\ At(t, "claim") /\ resolver_status = Uninitialized
    /\ resolver_status' = Running
    /\ GoTo(t, "mark")
    /\ UNCHANGED <<process, pointers, resolver_active, type, kind, fixed>>

ClaimFails(t) ==
    /\ At(t, "claim") /\ resolver_status # Uninitialized
    /\ Retry(t)
    /\ UNCHANGED <<process, bridgeMemory, fixed>>

Claim(t) == ClaimWins(t) \/ ClaimFails(t)

Mark(t) ==
    /\ At(t, "mark")
    /\ resolver_active' = [resolver_active EXCEPT ![t] = TRUE]
    /\ GoTo(t, "dlsym")
    /\ UNCHANGED <<process, resolver_status, pointers, type, kind, fixed>>

\* Mutant: one function too many.
DlsymBeyond(t) ==
    LET next == Innermost(t).sought + 1
    IN  /\ At(t, "dlsym") /\ next <= Count + 1
        /\ pointers' = IF next \in absent THEN pointers ELSE pointers \cup {next}
        /\ Becomes(t, [Innermost(t) EXCEPT !.sought = next])
        /\ UNCHANGED <<process, resolver_status, resolver_active, type, kind, fixed>>

\* dlsym of the next function; a pointer that is not found is set to NULL.
Dlsym(t) ==
    LET next == Innermost(t).sought + 1
    IN  /\ At(t, "dlsym") /\ next \in Functions
        /\ pointers' = IF next \in absent THEN pointers ELSE pointers \cup {next}
        /\ Becomes(t, [Innermost(t) EXCEPT !.sought = next])
        /\ UNCHANGED <<process, resolver_status, resolver_active, type, kind, fixed>>

Unmark(t) ==
    /\ At(t, "dlsym") /\ Innermost(t).sought = Count
    /\ resolver_active' = [resolver_active EXCEPT ![t] = FALSE]
    /\ GoTo(t, "publish")
    /\ UNCHANGED <<process, resolver_status, pointers, type, kind, fixed>>

\* Mutant: missing is not looked at.
PublishReady(t) ==
    /\ At(t, "publish")
    /\ resolver_status' = Status("ready", self)
    /\ Proceed(t)
    /\ UNCHANGED <<process, pointers, resolver_active, type, kind, fixed>>

\* Mutant: a failure is not published.
PublishNoFailure(t) ==
    /\ At(t, "publish")
    /\ resolver_status' = IF absent = {} THEN Status("ready", self) ELSE resolver_status
    /\ IF absent = {} THEN Proceed(t) ELSE BridgeReturn(t)
    /\ UNCHANGED <<process, pointers, resolver_active, type, kind, fixed>>

Publish(t) ==
    /\ At(t, "publish")
    /\ resolver_status' = Status(IF absent = {} THEN "ready" ELSE "failed", self)
    /\ IF absent = {} THEN Proceed(t) ELSE BridgeReturn(t)
    /\ UNCHANGED <<process, pointers, resolver_active, type, kind, fixed>>

----------------------------------------------------------------------------
(* glibc_prepare_static_mutex.                                             *)

LoadType(t) ==
    /\ At(t, "type")
    /\ GoTo(t, IF type # 0 THEN "native" ELSE "kind")
    /\ UNCHANGED <<process, bridgeMemory, fixed>>

\* Word 4: nothing to do, ENOTSUP, or a kind to be converted.
LoadKind(t) ==
    /\ At(t, "kind")
    /\ \/ kind = 0 /\ GoTo(t, "native")
       \/ kind \notin {0} \cup Convertible /\ BridgeReturn(t)
       \/ /\ kind \in Convertible
          /\ Becomes(t, [Innermost(t) EXCEPT !.pc = "cas", !.kind = kind])
    /\ UNCHANGED <<process, bridgeMemory, fixed>>

\* Mutant: the kind is cleared before the type is there.
CasKindFirst(t) ==
    /\ At(t, "cas")
    /\ kind' = 0
    /\ IF kind # 0 THEN GoTo(t, "clear") ELSE GoTo(t, "type")
    /\ UNCHANGED <<process, resolver_status, pointers, resolver_active, type, fixed>>

CasType(t) ==
    /\ At(t, "cas")
    /\ IF type = 0
       THEN type' = Innermost(t).kind /\ GoTo(t, "clear")
       ELSE UNCHANGED type /\ GoTo(t, "type")
    /\ UNCHANGED <<process, resolver_status, pointers, resolver_active, kind, fixed>>

ClearKind(t) ==
    /\ At(t, "clear")
    /\ kind' = 0
    /\ GoTo(t, "native")
    /\ UNCHANGED <<process, resolver_status, pointers, resolver_active, type, fixed>>

\* The native function, by its pointer.
Native(t) ==
    /\ At(t, "native")
    /\ BridgeReturn(t)
    /\ UNCHANGED <<process, bridgeMemory, fixed>>

----------------------------------------------------------------------------
(* fork() by the thread t, which alone exists in the child.                *)

BridgeFork(t, pid) ==
    /\ depth[t] = 0
    /\ pid \in Pids \ used
    /\ self' = pid /\ used' = used \cup {pid}
    /\ depth' = [u \in Threads |-> 0]
    /\ calls' = [u \in Threads |-> [l \in Levels |-> NoCall]]
    /\ resolver_active' = [u \in Threads |-> FALSE]
    /\ UNCHANGED <<resolver_status, pointers, type, kind, fixed>>

----------------------------------------------------------------------------
BridgeStep(t) ==
    \/ LoadReady(t) \/ LoadFailed(t) \/ LoadReentered(t) \/ LoadForeign(t)
    \/ LoadUninitialized(t) \/ Takeover(t) \/ Claim(t)
    \/ Mark(t) \/ Dlsym(t) \/ Unmark(t) \/ Publish(t)
    \/ LoadType(t) \/ LoadKind(t) \/ CasType(t) \/ ClearKind(t)
    \/ Native(t)

Calling(t) ==
    \/ \E mutex \in BOOLEAN : BridgeCall(t, mutex) \/ Reenter(t, mutex)
    \/ Signal(t)

BridgeNext ==
    \E t \in Threads :
        \/ BridgeStep(t) \/ Calling(t)
        \/ \E pid \in Pids : BridgeFork(t, pid)

BridgeSpec == BridgeInit /\ [][BridgeNext]_bridgeVars

\* A call that can take a step again and again takes it: the scheduler is fair,
\* dlsym and the native functions return, and signals leave time for the rest.
Fairness == \A t \in Threads, l \in Levels : SF_bridgeVars(depth[t] = l /\ BridgeStep(t))

----------------------------------------------------------------------------
(* Properties.                                                             *)

BridgeTypeOK ==
    /\ self \in used /\ used \subseteq Pids
    /\ resolver_status \in Statuses
    /\ pointers \subseteq Functions /\ absent \subseteq Functions
    /\ resolver_active \in [Threads -> BOOLEAN]
    /\ type \in Kinds /\ kind \in Kinds /\ static \in Kinds
    /\ calls \in [Threads -> [Levels -> Calls]]
    /\ depth \in [Threads -> 0..MaxDepth]

\* The call l of the thread t has claimed the resolution and not published it.
Resolving(t, l) == calls[t][l].pc \in {"mark", "dlsym", "publish"}

\* One call at a time resolves the functions, over all threads and whatever
\* dlsym, signal handlers and forks do.
OneResolver ==
    \A t, u \in Threads, l, m \in Levels :
        Resolving(t, l) /\ Resolving(u, m) => t = u /\ l = m

\* While the status says that this process is resolving, and calls wait for it,
\* there is a call that does it: nobody waits for a thread that the fork has left
\* behind, or for one that has given up.
WaitedForResolves ==
    resolver_status = Running => \E t \in Threads, l \in Levels : Resolving(t, l)

\* A native function is called only when every pointer of this process is set.
ForwardResolved ==
    \A t \in Threads, l \in Levels : calls[t][l].pc = "native" => pointers = Functions

\* A native function sees a mutex with the type the program was compiled for,
\* whoever converted it.
MutexTyped ==
    \A t \in Threads, l \in Levels :
        calls[t][l].pc = "native" /\ calls[t][l].mutex
            => type = static /\ static \in {0} \cup Convertible

\* The outcome of the resolution is never taken back.
StatusFinal ==
    [][resolver_status.state \in {"ready", "failed"}
          => resolver_status' = resolver_status]_bridgeVars

\* A call of the program, not made from dlsym or a handler, fails only for a
\* function that is absent or a mutex that is not supported: being late, or
\* coming after a fork, is no reason.
OutermostSucceeds ==
    [][\A t \in Threads :
          calls[t] # calls'[t] /\ depth[t] = 1 /\ depth'[t] = 0 /\ self' = self
              => \/ Innermost(t).pc = "native"
                 \/ absent # {}
                 \/ Innermost(t).mutex /\ static \notin {0} \cup Convertible]_bridgeVars

\* A signal handler that interrupts the resolver between its claim and its flag,
\* or between its flag and its result, waits for the thread it runs on.
Trapped(t) ==
    /\ At(t, "load") /\ resolver_status = Running /\ ~resolver_active[t]
    /\ \E l \in Levels : Resolving(t, l)

\* Every call ends, unless a thread is trapped like this.
CallEnds ==
    \A t \in Threads : depth[t] > 0 ~> (depth[t] = 0 \/ \E u \in Threads : Trapped(u))

----------------------------------------------------------------------------
(* Why it works: the inductive invariant, in named parts.                  *)

\* The process id in the status is one that was given out: a child finds another
\* than its own.
StatusPidUsed == resolver_status.pid \in used \cup {0}

NoCallAbove ==
    \A t \in Threads, l \in Levels : l > depth[t] => calls[t][l] = NoCall

ResolverRuns ==
    \A t \in Threads, l \in Levels : Resolving(t, l) => resolver_status = Running

ActiveResolves ==
    \A t \in Threads : resolver_active[t] => \E l \in Levels : calls[t][l].pc = "dlsym"

\* What has been looked for is there, unless it is absent.
SoughtFound ==
    \A t \in Threads, l \in Levels :
        /\ calls[t][l].pc \in {"load", "takeover", "claim", "mark"} => calls[t][l].sought = 0
        /\ Resolving(t, l) =>
              \A f \in Functions : f <= calls[t][l].sought => f \in pointers \cup absent
        /\ calls[t][l].pc = "publish" => calls[t][l].sought = Count

ReadyComplete ==
    /\ resolver_status.state = "ready" => absent = {} /\ pointers = Functions
    /\ resolver_status.state = "failed" => absent # {}

BeyondReady ==
    \A t \in Threads, l \in Levels :
        calls[t][l].pc \in {"type", "kind", "cas", "clear", "native"}
            => resolver_status.state = "ready"

StatusForeign ==
    \A t \in Threads, l \in Levels :
        calls[t][l].pc = "takeover"
            => calls[t][l].seen.state = "running" /\ calls[t][l].seen.pid # self

\* The kind word is cleared only when the type is there.
MutexWords ==
    /\ type \in {0, static} /\ kind \in {0, static}
    /\ type # 0 => static \in Convertible
    /\ kind = 0 => type = static

MutexCalls ==
    \A t \in Threads, l \in Levels :
        /\ calls[t][l].pc \in {"type", "kind", "cas", "clear"} => calls[t][l].mutex
        /\ calls[t][l].pc = "cas" => calls[t][l].kind = static /\ static \in Convertible
        /\ calls[t][l].pc = "clear" => type = static
        /\ calls[t][l].pc = "native" /\ calls[t][l].mutex => type = static

BridgeInv ==
    /\ BridgeTypeOK /\ StatusPidUsed /\ NoCallAbove
    /\ OneResolver /\ ResolverRuns /\ WaitedForResolves /\ ActiveResolves
    /\ SoughtFound /\ ReadyComplete /\ BeyondReady /\ StatusForeign
    /\ MutexWords /\ MutexCalls
=============================================================================
