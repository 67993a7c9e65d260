---------------------------- MODULE OnceContract ----------------------------
(***************************************************************************)
(* What pthread_once (src/compat/pthread.c) promises to the callers of a   *)
(* program that forks: in a process that was not forked out of a running   *)
(* initialiser, init() runs in one thread at a time, again only after it   *)
(* was cancelled, and never once it has completed here or, before the      *)
(* fork, in the parent; and a call returns only when it has completed.     *)
(* How the threads agree on that is not seen here.                         *)
(***************************************************************************)
CONSTANTS Pids, Root, Threads

VARIABLES
    alive,    \* the processes that exist
    clean,    \* those that were not forked from inside init()
    done,     \* per process: the initialiser has completed
    stage     \* per process and thread: out of pthread_once, in it, in init(),
              \* served (its own init() has completed), or gone (cancelled)

vars == <<alive, clean, done, stage>>

Init ==
    /\ alive = {Root} /\ clean = {Root}
    /\ done = [p \in Pids |-> FALSE]
    /\ stage = [p \in Pids |-> [t \in Threads |-> "out"]]

Initialising(p) == {t \in Threads : stage[p][t] = "init"}

Moves(p, t, from, to) ==
    /\ stage[p][t] = from
    /\ stage' = [stage EXCEPT ![p][t] = to]
    /\ UNCHANGED <<alive, clean>>

Enter(p, t) == Moves(p, t, "out", "in") /\ UNCHANGED done

Begin(p, t) ==
    /\ ~done[p]
    /\ p \in clean => Initialising(p) = {}
    /\ Moves(p, t, "in", "init")
    /\ UNCHANGED done

Complete(p, t) ==
    /\ p \in clean => ~done[p]
    /\ Moves(p, t, "init", "served")
    /\ done' = [done EXCEPT ![p] = TRUE]

\* The initialiser is cancelled: another call may begin it again.
Abandon(p, t) ==
    /\ p \in clean => ~done[p]
    /\ Moves(p, t, "init", "gone")
    /\ done' = [done EXCEPT ![p] = FALSE]

Return(p, t) ==
    /\ \/ Moves(p, t, "served", "out")
       \/ done[p] /\ Moves(p, t, "in", "out")
    /\ UNCHANGED done

\* The child has the calling thread only, where it called fork.
Fork(p, t, q) ==
    /\ q \notin alive /\ stage[p][t] \in {"out", "init"}
    /\ alive' = alive \cup {q}
    /\ clean' = IF stage[p][t] = "out" THEN clean \cup {q} ELSE clean
    /\ done' = [done EXCEPT ![q] = done[p]]
    /\ stage' = [stage EXCEPT ![q][t] = stage[p][t]]

Next ==
    \E p \in alive, t \in Threads :
        \/ Enter(p, t) \/ Begin(p, t) \/ Complete(p, t) \/ Abandon(p, t) \/ Return(p, t)
        \/ \E q \in Pids : Fork(p, t, q)

Spec == Init /\ [][Next]_vars
=============================================================================
