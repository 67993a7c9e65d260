---------------------------- MODULE PthreadOnce ----------------------------
(***************************************************************************)
(* pthread_once of the compatibility bridge (src/compat/pthread.c, lines   *)
(* 451-545).  It runs on glibc's pthread_once_t, so it is written on raw   *)
(* atomics and futexes: the control word holds a state in its two low bits *)
(* and, while an initialiser runs, the generation of the process that      *)
(* claimed it.  Each process owns a generation: the first call after a     *)
(* fork adds one to the inherited counter, so that a control word left in  *)
(* progress by a thread which does not exist in the child can be told from *)
(* one that somebody is still working on.                                  *)
(*                                                                         *)
(* One action is one atomic operation, or one system call, of a thread of  *)
(* a process.  Fork copies the memory of a process and one of its threads; *)
(* processes share nothing afterwards (the futexes are private).           *)
(*                                                                         *)
(* Abstractions: one control word; a generation is counted in units of     *)
(* ONCE_GEN_INCR and does not wrap; a process id is not used twice;        *)
(* cancellation strikes only in init(), the one place of pthread_once with *)
(* cancellation points; fork is called from init() or outside pthread_once.*)
(***************************************************************************)
EXTENDS Processes, FiniteSets

VARIABLES
    alive,            \* the processes that exist
    clean,            \* those that were not forked from inside init()
    once_pid,         \* per process: 0, a pid, or -pid while it is being claimed
    once_generation,  \* per process: the generation counter
    control,          \* per process: the pthread_once_t word
    pc,               \* per process and thread: the next step of the thread
    seen,             \* local of process_once_generation: the loaded once_pid
    gen,              \* local of pthread_once: generation
    cur,              \* local of pthread_once: current
    inits             \* history, per process: how often init() has completed

vars == <<alive, clean, once_pid, once_generation, control, pc, seen, gen, cur, inits>>

Labels == {"idle", "first_load", "gen_load", "gen_read", "gen_cas", "gen_add",
           "gen_publish", "ctl_load", "ctl_cas", "init", "publish", "wake",
           "futex_wait", "asleep", "cancel_wake", "dead"}

\* The values of the control word: INPROGRESS carries a generation, DONE and
\* PTHREAD_ONCE_INIT do not.
Word(state, g) == [state |-> state, gen |-> g]
OnceInit == Word("idle", 0)
Done     == Word("done", 0)
InProgress(g) == Word("inprogress", g)

Words == [state : {"idle", "inprogress", "done"}, gen : Nat]

\* The threads of p that have claimed the control word and will store to it.
Claimants(p) == {t \in Threads : pc[p][t] \in {"init", "publish"}}
\* The threads of p that have stored a final word and still owe the wake-up.
Wakers(p) == {t \in Threads : pc[p][t] \in {"wake", "cancel_wake"}}

----------------------------------------------------------------------------
Init ==
    /\ alive = {Root}
    /\ clean = {Root}
    /\ once_pid = [p \in Pids |-> 0]
    /\ once_generation = [p \in Pids |-> 0]
    /\ control = [p \in Pids |-> OnceInit]
    /\ pc = [p \in Pids |-> [t \in Threads |-> "idle"]]
    /\ seen = [p \in Pids |-> [t \in Threads |-> 0]]
    /\ gen = [p \in Pids |-> [t \in Threads |-> 0]]
    /\ cur = [p \in Pids |-> [t \in Threads |-> OnceInit]]
    /\ inits = [p \in Pids |-> 0]

Go(p, t, from, to) ==
    /\ pc[p][t] = from
    /\ pc' = [pc EXCEPT ![p][t] = to]

\* The frame conditions, by the part of the state a step leaves alone.
processes == <<alive, clean>>
memory    == <<once_pid, once_generation, control>>
locals    == <<seen, gen, cur>>

----------------------------------------------------------------------------
(* pthread_once: the lock-free test that every call makes first.           *)

Call(p, t) ==
    /\ Go(p, t, "idle", "first_load")
    /\ UNCHANGED <<processes, memory, locals, inits>>

\* The call returns: its locals go out of scope.
Return(p, t, from) ==
    /\ Go(p, t, from, "idle")
    /\ seen' = [seen EXCEPT ![p][t] = 0]
    /\ gen' = [gen EXCEPT ![p][t] = 0]
    /\ cur' = [cur EXCEPT ![p][t] = OnceInit]

FirstLoadDone(p, t) ==
    /\ control[p].state = "done"
    /\ Return(p, t, "first_load")
    /\ UNCHANGED <<processes, memory, inits>>

FirstLoadNotDone(p, t) ==
    /\ control[p].state # "done"
    /\ Go(p, t, "first_load", "gen_load")
    /\ UNCHANGED <<processes, memory, locals, inits>>

FirstLoad(p, t) == FirstLoadDone(p, t) \/ FirstLoadNotDone(p, t)

----------------------------------------------------------------------------
(* process_once_generation.                                                *)

GenLoadOwn(p, t) ==
    /\ once_pid[p] = p
    /\ Go(p, t, "gen_load", "gen_read")
    /\ UNCHANGED <<processes, memory, locals, inits>>

\* While another thread publishes (once_pid = -pid) the loop yields and loads
\* again: the step has no effect and is not enabled.
GenLoadForeign(p, t) ==
    /\ once_pid[p] \notin {p, -p}
    /\ Go(p, t, "gen_load", "gen_cas")
    /\ seen' = [seen EXCEPT ![p][t] = once_pid[p]]
    /\ UNCHANGED <<processes, memory, gen, cur, inits>>

GenLoad(p, t) == GenLoadOwn(p, t) \/ GenLoadForeign(p, t)

GenRead(p, t) ==
    /\ Go(p, t, "gen_read", "ctl_load")
    /\ gen' = [gen EXCEPT ![p][t] = once_generation[p]]
    /\ UNCHANGED <<processes, memory, seen, cur, inits>>

\* Mutant: a plain store: whoever saw a foreign generation raises it.
GenStore(p, t) ==
    /\ Go(p, t, "gen_cas", "gen_add")
    /\ once_pid' = [once_pid EXCEPT ![p] = -p]
    /\ UNCHANGED <<processes, once_generation, control, locals, inits>>

GenCasWins(p, t) ==
    /\ once_pid[p] = seen[p][t]
    /\ Go(p, t, "gen_cas", "gen_add")
    /\ once_pid' = [once_pid EXCEPT ![p] = -p]
    /\ UNCHANGED <<processes, once_generation, control, locals, inits>>

GenCasFails(p, t) ==
    /\ once_pid[p] # seen[p][t]
    /\ Go(p, t, "gen_cas", "gen_load")
    /\ UNCHANGED <<processes, memory, locals, inits>>

GenCas(p, t) == GenCasWins(p, t) \/ GenCasFails(p, t)

GenAdd(p, t) ==
    /\ Go(p, t, "gen_add", "gen_publish")
    /\ once_generation' = [once_generation EXCEPT ![p] = @ + 1]
    /\ gen' = [gen EXCEPT ![p][t] = once_generation[p] + 1]
    /\ UNCHANGED <<processes, once_pid, control, seen, cur, inits>>

GenPublish(p, t) ==
    /\ Go(p, t, "gen_publish", "ctl_load")
    /\ once_pid' = [once_pid EXCEPT ![p] = p]
    /\ UNCHANGED <<processes, once_generation, control, locals, inits>>

----------------------------------------------------------------------------
(* pthread_once: the loop.                                                 *)

\* Mutant: any word in progress is waited for, whoever left it so.
BusyAnyGeneration(word, g) == word.state = "inprogress"

\* Another thread of this very process is at work on the control word.
Busy(word, g) == word.state = "inprogress" /\ word.gen = g

CtlLoadDone(p, t) ==
    /\ control[p].state = "done"
    /\ Return(p, t, "ctl_load")
    /\ UNCHANGED <<processes, memory, inits>>

CtlLoadBusy(p, t) ==
    /\ Busy(control[p], gen[p][t])
    /\ Go(p, t, "ctl_load", "futex_wait")
    /\ cur' = [cur EXCEPT ![p][t] = control[p]]
    /\ UNCHANGED <<processes, memory, seen, gen, inits>>

\* Mutant: DONE is not looked for again once the generation is known.
CtlLoadFreeOrDone(p, t) ==
    /\ ~Busy(control[p], gen[p][t])
    /\ Go(p, t, "ctl_load", "ctl_cas")
    /\ cur' = [cur EXCEPT ![p][t] = control[p]]
    /\ UNCHANGED <<processes, memory, seen, gen, inits>>

CtlLoadFree(p, t) ==
    /\ control[p].state # "done" /\ ~Busy(control[p], gen[p][t])
    /\ Go(p, t, "ctl_load", "ctl_cas")
    /\ cur' = [cur EXCEPT ![p][t] = control[p]]
    /\ UNCHANGED <<processes, memory, seen, gen, inits>>

CtlLoad(p, t) == CtlLoadDone(p, t) \/ CtlLoadBusy(p, t) \/ CtlLoadFree(p, t)

\* Mutant: a plain store instead of the compare-and-swap.
CtlStore(p, t) ==
    /\ Go(p, t, "ctl_cas", "init")
    /\ control' = [control EXCEPT ![p] = InProgress(gen[p][t])]
    /\ UNCHANGED <<processes, once_pid, once_generation, locals, inits>>

\* Mutant: the word is marked DONE when it is claimed.
CtlCasDone(p, t) ==
    /\ control[p] = cur[p][t]
    /\ Go(p, t, "ctl_cas", "init")
    /\ control' = [control EXCEPT ![p] = Done]
    /\ UNCHANGED <<processes, once_pid, once_generation, locals, inits>>

CtlCasWins(p, t) ==
    /\ control[p] = cur[p][t]
    /\ Go(p, t, "ctl_cas", "init")
    /\ control' = [control EXCEPT ![p] = InProgress(gen[p][t])]
    /\ UNCHANGED <<processes, once_pid, once_generation, locals, inits>>

CtlCasFails(p, t) ==
    /\ control[p] # cur[p][t]
    /\ Go(p, t, "ctl_cas", "gen_load")
    /\ UNCHANGED <<processes, memory, locals, inits>>

CtlCas(p, t) == CtlCasWins(p, t) \/ CtlCasFails(p, t)

\* init() returns and its cleanup handler is popped.
InitReturns(p, t) ==
    /\ Go(p, t, "init", "publish")
    /\ inits' = [inits EXCEPT ![p] = @ + 1]
    /\ UNCHANGED <<processes, memory, locals>>

PublishDone(p, t) ==
    /\ Go(p, t, "publish", "wake")
    /\ control' = [control EXCEPT ![p] = Done]
    /\ UNCHANGED <<processes, once_pid, once_generation, locals, inits>>

----------------------------------------------------------------------------
(* once_futex_wait and once_futex_wake.                                    *)

\* Every sleeper of p goes around the loop again; t itself goes to `to'.
WakeAll(p, t, from, to) ==
    /\ pc[p][t] = from
    /\ pc' = [pc EXCEPT ![p] = [u \in Threads |->
                 IF u = t THEN to
                 ELSE IF pc[p][u] = "asleep" THEN "gen_load" ELSE pc[p][u]]]

Wake(p, t) ==
    /\ WakeAll(p, t, "wake", "idle")
    /\ seen' = [seen EXCEPT ![p][t] = 0]
    /\ gen' = [gen EXCEPT ![p][t] = 0]
    /\ cur' = [cur EXCEPT ![p][t] = OnceInit]
    /\ UNCHANGED <<processes, memory, inits>>

\* The kernel compares the word and queues the thread in one step.
FutexSleeps(p, t) ==
    /\ control[p] = cur[p][t]
    /\ Go(p, t, "futex_wait", "asleep")
    /\ UNCHANGED <<processes, memory, locals, inits>>

FutexChanged(p, t) ==
    /\ control[p] # cur[p][t]
    /\ Go(p, t, "futex_wait", "gen_load")
    /\ UNCHANGED <<processes, memory, locals, inits>>

FutexWait(p, t) == FutexSleeps(p, t) \/ FutexChanged(p, t)

\* A signal interrupts the wait; the result of the system call is not looked at.
Interrupted(p, t) ==
    /\ Go(p, t, "asleep", "gen_load")
    /\ UNCHANGED <<processes, memory, locals, inits>>

----------------------------------------------------------------------------
(* once_cancel: the thread is cancelled in init(), or exits there.         *)

Cancel(p, t) ==
    /\ Go(p, t, "init", "cancel_wake")
    /\ control' = [control EXCEPT ![p] = OnceInit]
    /\ UNCHANGED <<processes, once_pid, once_generation, locals, inits>>

\* Mutant: the cleanup handler resets the word and wakes nobody.
CancelSilently(p, t) ==
    /\ Go(p, t, "cancel_wake", "dead")
    /\ UNCHANGED <<processes, memory, locals, inits>>

CancelWake(p, t) ==
    /\ WakeAll(p, t, "cancel_wake", "dead")
    /\ UNCHANGED <<processes, memory, locals, inits>>

----------------------------------------------------------------------------
(* fork() by thread t of p: the child q gets a copy of the memory and only *)
(* the calling thread, which returns from fork where it called it.         *)

Fork(p, t, q) ==
    /\ q \notin alive
    /\ pc[p][t] \in {"idle", "init"}
    /\ alive' = alive \cup {q}
    /\ clean' = IF pc[p][t] = "idle" THEN clean \cup {q} ELSE clean
    /\ once_pid' = [once_pid EXCEPT ![q] = once_pid[p]]
    /\ once_generation' = [once_generation EXCEPT ![q] = once_generation[p]]
    /\ control' = [control EXCEPT ![q] = control[p]]
    /\ pc' = [pc EXCEPT ![q][t] = pc[p][t]]
    /\ seen' = [seen EXCEPT ![q][t] = seen[p][t]]
    /\ gen' = [gen EXCEPT ![q][t] = gen[p][t]]
    /\ cur' = [cur EXCEPT ![q][t] = cur[p][t]]
    /\ inits' = [inits EXCEPT ![q] = IF control[p].state = "done" THEN 1 ELSE 0]

----------------------------------------------------------------------------
\* The steps the scheduler and a terminating init() see through.
Step(p, t) ==
    \/ FirstLoad(p, t)
    \/ GenLoad(p, t) \/ GenRead(p, t) \/ GenCas(p, t) \/ GenAdd(p, t)
    \/ GenPublish(p, t)
    \/ CtlLoad(p, t) \/ CtlCas(p, t)
    \/ InitReturns(p, t) \/ PublishDone(p, t)
    \/ Wake(p, t) \/ FutexWait(p, t)
    \/ CancelWake(p, t)

ProcessNext(p) ==
    \E t \in Threads :
        \/ Step(p, t)
        \/ Call(p, t)
        \/ Interrupted(p, t)
        \/ Cancel(p, t)
        \/ \E q \in Pids : Fork(p, t, q)

Next == \E p \in alive : ProcessNext(p)

Spec == Init /\ [][Next]_vars

----------------------------------------------------------------------------
(* Properties.                                                             *)

TypeOK ==
    /\ alive \subseteq Pids
    /\ clean \subseteq alive
    /\ once_pid \in [Pids -> Int]
    /\ once_generation \in [Pids -> Nat]
    /\ control \in [Pids -> Words]
    /\ pc \in [Pids -> [Threads -> Labels]]
    /\ seen \in [Pids -> [Threads -> Int]]
    /\ gen \in [Pids -> [Threads -> Nat]]
    /\ cur \in [Pids -> [Threads -> Words]]
    /\ inits \in [Pids -> Nat]

\* In a process that was not forked out of a running init(), at most one thread
\* is in the initialiser, or between it and the store of ONCE_DONE: neither a
\* cancelled initialiser, nor a control word inherited in progress, nor two
\* threads racing to publish the generation lets a second thread in.  And over
\* the life of such a process the initialiser completes at most once (a
\* completion inherited from the parent counts).
InitOnce ==
    \A p \in clean :
        /\ inits[p] <= 1
        /\ \A t, u \in Claimants(p) : t = u

\* A thread asleep on the futex is never forgotten: the word it sleeps on is
\* unchanged and the thread that claimed it is still at work in this process,
\* or some thread is about to wake everybody.  In particular nobody sleeps on a
\* word left in progress by a process that cannot wake it.
SleeperHasWaker ==
    \A p \in alive, t \in Threads :
        pc[p][t] = "asleep" =>
            \/ Wakers(p) # {}
            \/ /\ control[p] = cur[p][t]
               /\ \E u \in Claimants(p) : InProgress(gen[p][u]) = control[p]

\* pthread_once returns only when the initialiser has completed, in this process
\* or before the fork in an ancestor.
ReturnAfterInit ==
    [][\A p \in Pids, t \in Threads :
          (p \in alive /\ pc[p][t] # "idle" /\ pc'[p][t] = "idle")
              => inits[p] >= 1]_vars

\* Once DONE, the control word of such a process never changes again.
DoneIsFinal ==
    [][\A p \in clean : control[p].state = "done" => control'[p] = control[p]]_vars

----------------------------------------------------------------------------
(* What the caller sees of it: pthread_once implements OnceContract.  The  *)
(* claim of the control word is the start of init(), the store of          *)
(* ONCE_DONE its completion, the reset by once_cancel its abandoning.      *)

Stage(label) ==
    CASE label = "idle"                    -> "out"
      [] label \in {"init", "publish"}     -> "init"
      [] label = "wake"                    -> "served"
      [] label \in {"cancel_wake", "dead"} -> "gone"
      [] OTHER                             -> "in"

Once == INSTANCE OnceContract WITH
    done  <- [p \in Pids |-> control[p].state = "done"],
    stage <- [p \in Pids |-> [t \in Threads |-> Stage(pc[p][t])]]

\* Whatever the threads of all processes do, load by load and store by store,
\* init() is begun, completed and abandoned, and calls return, only as the
\* contract allows.
OnceSpec == Once!Spec

----------------------------------------------------------------------------
(* Why it works: the invariant of one process p, in named parts, and their *)
(* conjunction over all processes, which every step preserves.             *)

\* once_pid never holds the number of a process that does not exist, so a child
\* finds neither its own pid nor its negation in the word it inherits.
PidKnown(p) == \E r \in alive \cup {0} : once_pid[p] \in {r, -r}

\* One thread at most holds the right to add to the generation.
OnePublisher(p) ==
    \A t \in Threads : pc[p][t] \in {"gen_add", "gen_publish"} =>
        /\ once_pid[p] = -p
        /\ \A u \in Threads : pc[p][u] \in {"gen_add", "gen_publish"} => u = t

SeenForeign(p) ==
    \A t \in Threads : pc[p][t] = "gen_cas" => seen[p][t] \notin {p, -p}

\* A thread that knows the generation knows the final one of this process.
GenKnown(p) ==
    \A t \in Threads :
        /\ pc[p][t] \in {"gen_read", "ctl_load", "ctl_cas", "futex_wait", "asleep"}
               => once_pid[p] = p
        /\ pc[p][t] \in {"gen_publish", "ctl_load", "ctl_cas", "futex_wait", "asleep"}
               => gen[p][t] = once_generation[p]

\* A word inherited in progress is older than the generation of the process.
WordIsOld(p) ==
    control[p].state = "inprogress" =>
        /\ control[p].gen <= once_generation[p]
        /\ \A t \in Threads :
              pc[p][t] = "gen_publish" => control[p].gen < once_generation[p]

\* A word in progress in the generation of the process has a claimant.
WordIsClaimed(p) ==
    (once_pid[p] = p /\ control[p] = InProgress(once_generation[p])) =>
        \E u \in Claimants(p) : gen[p][u] = once_generation[p]

\* What a thread may do with the word it has loaded.
CurMatches(p) ==
    \A t \in Threads :
        /\ pc[p][t] = "ctl_cas" =>
               /\ cur[p][t].state # "done"
               /\ cur[p][t] # InProgress(once_generation[p])
        /\ pc[p][t] \in {"futex_wait", "asleep"} =>
               cur[p][t] = InProgress(once_generation[p])

SleeperWord(p) ==
    \A t \in Threads : pc[p][t] = "asleep" =>
        control[p] = cur[p][t] \/ Wakers(p) # {}

\* DONE and the threads about to store or announce it are preceded by init().
DoneAfterInit(p) ==
    /\ control[p].state = "done" => inits[p] >= 1
    /\ \A t \in Threads : pc[p][t] \in {"publish", "wake"} => inits[p] >= 1

\* In a clean process the word says who is in init(), and counts completions.
CleanClaim(p) ==
    p \in clean => \A t \in Claimants(p) :
        /\ once_pid[p] = p
        /\ control[p] = InProgress(once_generation[p])
        /\ gen[p][t] = once_generation[p]
        /\ \A u \in Claimants(p) : u = t

CleanCount(p) ==
    p \in clean =>
        /\ inits[p] <= 1
        /\ inits[p] = 1 =>
              control[p].state = "done" \/ \E t \in Threads : pc[p][t] = "publish"

ProcessInv(p) ==
    /\ PidKnown(p) /\ OnePublisher(p) /\ SeenForeign(p) /\ GenKnown(p)
    /\ WordIsOld(p) /\ WordIsClaimed(p) /\ CurMatches(p) /\ SleeperWord(p)
    /\ DoneAfterInit(p) /\ CleanClaim(p) /\ CleanCount(p)

\* The process ids that are still free have no thread in pthread_once.
UnusedIdle == \A q \in Pids \ alive, t \in Threads : pc[q][t] = "idle"

IndInv == TypeOK /\ UnusedIdle /\ \A p \in alive : ProcessInv(p)
=============================================================================
