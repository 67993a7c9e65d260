----------------------------- MODULE ArgpCalls -----------------------------
(***************************************************************************)
(* What argp.h promises to the parser functions of a program: in which     *)
(* order they hear the special keys, each one for itself and parents       *)
(* relative to their children.                                             *)
(***************************************************************************)
CONSTANTS
    Parsers,     \* the parser functions
    Parents      \* pairs <<parent, child>> of them

VARIABLES
    heard,       \* the last key each one was called with
    handled,     \* it has processed a non-option argument
    left,        \* words remain that nobody has read
    failed       \* one of them has returned an error of its own

vars == <<heard, handled, left, failed>>

Parsing == {"INIT", "OPT", "ARG", "ARGS"}
Present == {a \in Parsers : heard[a] # "absent"}
All(keys) == \A a \in Present : heard[a] \in keys
ChildrenHeard(a, key) == \A b \in Present : <<a, b>> \in Parents => heard[b] = key

Init ==
    /\ heard \in [Parsers -> {"absent", "none"}]
    /\ handled = [a \in Parsers |-> FALSE]
    /\ left \in BOOLEAN
    /\ failed = FALSE

\* a is called, and its answer may be an error.
Hear(a, key) == heard' = [heard EXCEPT ![a] = key] /\ failed' \in {failed, TRUE}

Begin(a) ==
    /\ ~failed /\ heard[a] = "none"
    /\ \A p \in Present : <<p, a>> \in Parents => heard[p] = "INIT"
    /\ Hear(a, "INIT") /\ UNCHANGED <<handled, left>>

\* argp moves on along the words.
Read ==
    /\ ~failed /\ All(Parsing \cup {"none"})
    /\ left' \in BOOLEAN /\ UNCHANGED <<heard, handled, failed>>

Option(a) ==
    /\ ~failed /\ All(Parsing)
    /\ left' \in BOOLEAN /\ Hear(a, "OPT") /\ UNCHANGED handled

Argument(a) ==
    /\ ~failed /\ All(Parsing)
    /\ Hear(a, "ARG") \/ Hear(a, "ARGS")
    /\ left' \in BOOLEAN
    /\ handled' \in {handled, [handled EXCEPT ![a] = TRUE]}

NoArgs(a) ==
    /\ ~failed /\ All(Parsing \cup {"NO_ARGS"}) /\ heard[a] # "NO_ARGS"
    /\ ~left /\ ~handled[a]
    /\ Hear(a, "NO_ARGS") /\ UNCHANGED <<handled, left>>

End(a) ==
    /\ ~failed /\ ~left /\ All(Parsing \cup {"NO_ARGS", "END"}) /\ heard[a] # "END"
    /\ \A b \in Present : ~handled[b] => heard[b] \in {"NO_ARGS", "END"}
    /\ ChildrenHeard(a, "END")
    /\ Hear(a, "END") /\ UNCHANGED <<handled, left>>

Success(a) ==
    /\ ~failed /\ heard[a] # "SUCCESS"
    /\ IF left THEN All(Parsing \cup {"SUCCESS"}) ELSE All({"END", "SUCCESS"})
    /\ ChildrenHeard(a, "SUCCESS")
    /\ Hear(a, "SUCCESS") /\ UNCHANGED <<handled, left>>

Error(a) ==
    /\ All(Parsing \cup {"NO_ARGS", "END", "ERROR"}) /\ heard[a] # "ERROR"
    /\ Hear(a, "ERROR") /\ UNCHANGED <<handled, left>>

\* An error answer to SUCCESS is the one that leaves parsers without a verdict.
Finish(a) ==
    /\ \/ All({"ERROR", "FINI"})
       \/ All({"SUCCESS", "FINI"})
       \/ failed /\ \E b \in Present : heard[b] \in {"SUCCESS", "FINI"}
    /\ heard[a] # "FINI" /\ ChildrenHeard(a, "FINI")
    /\ Hear(a, "FINI") /\ UNCHANGED <<handled, left>>

Next ==
    \/ Read
    \/ \E a \in Present :
           \/ Begin(a) \/ Option(a) \/ Argument(a) \/ NoArgs(a)
           \/ End(a) \/ Success(a) \/ Error(a) \/ Finish(a)

Spec == Init /\ [][Next]_vars
=============================================================================
