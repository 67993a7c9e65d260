----------------------------- MODULE Processes -----------------------------
(* The processes and threads that use the compatibility bridge             *)
(* (src/compat/pthread.c): what its two halves, PthreadOnce and            *)
(* PthreadBridge, are both about.                                          *)
EXTENDS Integers

CONSTANTS
    Pids,     \* process ids the kernel can hand out
    Root,     \* the process that loads the bridge
    Threads   \* threads a process may have, in every process

ASSUME PidsAssumption == Pids \subseteq Nat \ {0} /\ Root \in Pids
=============================================================================
