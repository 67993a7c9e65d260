----------------------------- MODULE MCPthread -----------------------------
(* The two halves of src/compat/pthread.c, for model-checking: a behaviour *)
(* is one of PthreadBridge or one of PthreadOnce.  And the reduction of    *)
(* PthreadOnce to the youngest process.                                    *)
EXTENDS PthreadBridge, PthreadOnce

VARIABLE half    \* "bridge" or "once"

all == <<half, bridgeVars, vars>>

EitherInit ==
    /\ BridgeInit /\ Init
    /\ \/ half = "bridge"
       \/ half = "once" /\ absent = {} /\ static = 0

Youngest(p) == p \in alive /\ \A q \in alive : q <= p

\* Only the youngest process runs: processes share no memory after a fork, so
\* what one goes on to do does not depend on the others, and every state of a
\* process is reached while it is the youngest.  Pids are handed out in order.
YoungestNext ==
    \E p \in alive :
        /\ Youngest(p)
        /\ ProcessNext(p)
        /\ \A q \in alive', r \in Pids : r < q => r \in alive'

EitherNext ==
    \/ half = "bridge" /\ BridgeNext /\ UNCHANGED <<half, vars>>
    \/ half = "once" /\ YoungestNext /\ UNCHANGED <<half, bridgeVars>>

\* The scheduler runs every thread of PthreadOnce that can run, and init()
\* terminates; nothing is assumed of calls, forks, cancellations and interrupted
\* waits.
OnceFairness == \A p \in Pids, t \in Threads : WF_vars(Youngest(p) /\ Step(p, t))

EitherSpec == EitherInit /\ [][EitherNext]_all /\ Fairness /\ OnceFairness

\* Every call of pthread_once ends: the thread returns, or dies in its cancelled
\* initialiser, unless a fork moves the run on to the child.
CallReturnsInYoungest ==
    \A p \in Pids, t \in Threads :
        (Youngest(p) /\ pc[p][t] # "idle")
            ~> (~Youngest(p) \/ pc[p][t] \in {"idle", "dead"})
=============================================================================
