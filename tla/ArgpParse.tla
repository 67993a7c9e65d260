----------------------------- MODULE ArgpParse -----------------------------
(***************************************************************************)
(* argp_parse, src/src/argp/argp-parse.c: one call of it, from the INIT    *)
(* calls of the parser functions to their FINI calls.  An action is one    *)
(* call of parser_parse_next, or as much of a function as lies between two *)
(* calls of a parser function.                                             *)
(*                                                                         *)
(* A parser function of the program answers as it likes: ok, EBADKEY       *)
(* (ARGP_ERR_UNKNOWN) or an error of its own, and may set state->next, but *)
(* leaves it alone when it returns an error and never moves it out of      *)
(* argv.  MaxMoves bounds how often it moves it back, or an option's       *)
(* handler moves it on.                                                    *)
(***************************************************************************)
EXTENDS ArgpOptions

CONSTANTS
    Top,         \* top_argp: it joins the argp of a program and the default ones
    Cases,       \* the calls that are made: <<command line, flags, argp>>
    MaxMoves

(* Without ARGP_NO_HELP the argp is the one below Top.  ARGP_PARSE_ARGV0   *)
(* is for callers that set ARGP_NO_ERRS too (argp.h:343), and then the     *)
(* option --program-name leaves argv alone.                                *)
ASSUME CasesAssumption ==
    \A case \in Cases :
        /\ case[1] \in Seq([dashes : 0 .. 2, text : Seq(STRING), value : BOOLEAN])
        /\ case[2].no_help \/ case[3] \in Range(Argps[Top].children)
        /\ case[2].argv0 => case[2].no_errs

(* The argp that argp_parse converts. The tree below it is one.            *)
Root(case) == IF case[2].no_help THEN case[3] ELSE Top

ASSUME TreeAssumption == \A case \in Cases : InPreorder(ConvertOptions[Root(case)])

VARIABLES
    words,       \* the strings of argv, as they were given
    flags,       \* flags, POSIXLY_CORRECT and whether end_index is given
    parser,      \* struct parser with its state block
    call,        \* pc, loop variables and results of the functions
    heard,       \* history: the last key each parser function was called with
    history      \* history: what was delivered, and how next was moved

vars == <<words, flags, parser, call, heard, history>>

Groups == parser.groups
GroupNumbers == 1 .. Len(Groups)
WithParser == {a \in DOMAIN Argps : Argps[a].parser # "none"}

argc == Len(words)
Word(p, k) == words[p.argv[k] + 1]
Start == IF argc > 0 /\ ~flags.argv0 THEN 1 ELSE 0

Ordering ==
    IF flags.in_order THEN "in_order"
    ELSE IF flags.no_args \/ flags.posix THEN "require_order"
    ELSE "permute"

Lower(i, j) == IF i < j THEN i ELSE j

Init ==
    /\ \E case \in Cases :
           LET groups == ConvertOptions[Root(case)]
           IN  /\ words = case[1] /\ flags = case[2]
               /\ parser = [groups |-> groups, args_processed |-> [g \in DOMAIN groups |-> 0],
                            argv |-> [k \in 0 .. argc - 1 |-> k], next |-> 0, quoted |-> 0,
                            args_only |-> FALSE, first_nonopt |-> 0, last_nonopt |-> 0,
                            nextchar |-> <<>>]
    /\ call = [pc |-> "init", group |-> 1, index |-> 0, err |-> "ok", arg_ebadkey |-> FALSE]
    /\ heard = [a \in WithParser |-> IF a \in Range(Groups) THEN "none" ELSE "absent"]
    /\ history = [log |-> <<>>, moves |-> 0, steered |-> FALSE, taken |-> {}, refused |-> FALSE]

----------------------------------------------------------------------------
(* The parser functions.                                                   *)

Errors == {"ok", "EBADKEY", "other"}

\* argp_state_help ends the program.
HelpExits == ~flags.no_errs /\ ~flags.no_exit

(* argp_default_parser and argp_version_parser end the program; the second *)
(* one does not look at ARGP_NO_ERRS.                                      *)
Exits(a, key) ==
    \/ Argps[a].parser = "default" /\ key \in {"?", "usage"} /\ HelpExits
    \/ Argps[a].parser = "version" /\ key = "V" /\ ~flags.no_exit

(* What group_parse of the group of a can return for a special key.        *)
Answers(a) ==
    IF Argps[a].parser = "user" THEN Errors ELSE {"EBADKEY"}

(* The same for an option, with the place where state->next is left.       *)
OptionAnswers(a, key, next) ==
    IF Argps[a].parser = "user"
    THEN {<<err, next>> : err \in Errors} \cup
         (IF history.moves < MaxMoves THEN {"ok"} \X (Start .. argc) ELSE {})
    ELSE IF Argps[a].parser = "none" THEN {<<"EBADKEY", next>>}
    ELSE {<<"ok", next>>}

(* The same for ARGP_KEY_ARG.                                              *)
ArgumentAnswers(a, next) ==
    {<<err, next>> : err \in Answers(a)} \cup
    (IF Argps[a].parser = "user"
     THEN {"ok"} \X ((IF history.moves < MaxMoves THEN Start ELSE next) .. argc) ELSE {})

Hear(a, key) ==
    heard' = IF Argps[a].parser = "none" THEN heard ELSE [heard EXCEPT ![a] = key]

(* The history when next goes from one place to another, past words that   *)
(* are thereby consumed, or back to words that will be read again.         *)
Advance(h, argv, from, to) ==
    [h EXCEPT !.taken = IF from <= to THEN @ \cup {argv[k] : k \in from .. to - 1}
                                      ELSE @ \ {argv[k] : k \in to .. argc - 1}]

\* The program sets next as argp itself would not: the log is given up.
Move(h)  == [h EXCEPT !.moves = @ + 1]
Steer(h) == [h EXCEPT !.steered = TRUE, !.log = <<>>]
Log(h, entries) == IF h.steered THEN h ELSE [h EXCEPT !.log = @ \o entries]

----------------------------------------------------------------------------
(* parser_init                                                             *)

\* ARGP_KEY_INIT for one group; an error ends argp_parse on the spot.
InitGroup ==
    /\ call.pc = "init" /\ call.group \in GroupNumbers
    /\ Hear(Groups[call.group], "INIT")
    /\ \E err \in Answers(Groups[call.group]) :
           call' = IF err = "other" THEN [call EXCEPT !.pc = "done", !.err = err]
                                    ELSE [call EXCEPT !.group = @ + 1]
    /\ UNCHANGED <<words, flags, parser, history>>

Initialised ==
    /\ call.pc = "init" /\ call.group \notin GroupNumbers
    /\ parser' = [parser EXCEPT !.next = Start]
    /\ call' = [call EXCEPT !.pc = "parse"]
    /\ UNCHANGED <<words, flags, heard, history>>

----------------------------------------------------------------------------
(* exchange: [first_nonopt, last_nonopt) and [last_nonopt, next) change    *)
(* places, by swaps of equally long segments.                              *)

Swap(v, i, j, len) ==
    [k \in DOMAIN v |-> IF k \in i .. i + len - 1 THEN v[k - i + j]
                        ELSE IF k \in j .. j + len - 1 THEN v[k - j + i]
                        ELSE v[k]]

\* Mutant: the short bottom segment is swapped with the lower end of the top one.
SwapSegmentsDown(v0, bottom0, middle0, top0) ==
    LET swapped[bottom \in Nat, middle \in Nat, top \in Nat, v \in [DOMAIN v0 -> Range(v0)]] ==
            LET low  == middle - bottom
                high == top - middle
            IN  IF low <= 0 \/ high <= 0 THEN v
                ELSE IF high > low THEN swapped[bottom, middle, top - low, Swap(v, bottom, middle, low)]
                ELSE swapped[bottom + high, middle, top, Swap(v, bottom, middle, high)]
    IN  swapped[bottom0, middle0, top0, v0]

SwapSegments(v0, bottom0, middle0, top0) ==
    LET swapped[bottom \in Nat, middle \in Nat, top \in Nat, v \in [DOMAIN v0 -> Range(v0)]] ==
            LET low  == middle - bottom
                high == top - middle
            IN  IF low <= 0 \/ high <= 0 THEN v
                ELSE IF high > low THEN swapped[bottom, middle, top - low, Swap(v, bottom, top - low, low)]
                ELSE swapped[bottom + high, middle, top, Swap(v, bottom, middle, high)]
    IN  swapped[bottom0, middle0, top0, v0]

Exchange(p) ==
    [p EXCEPT !.argv = SwapSegments(@, p.first_nonopt, p.last_nonopt, p.next),
              !.first_nonopt = @ + p.next - p.last_nonopt,
              !.last_nonopt = p.next]

----------------------------------------------------------------------------
(* parser_parse_next                                                       *)

\* Mutant: the lower end of the skipped segment stays where it was.
ResyncUpperEnd(p) ==
    LET q == IF p.quoted # 0 /\ p.next < p.quoted THEN [p EXCEPT !.quoted = 0, !.args_only = FALSE] ELSE p
    IN  [q EXCEPT !.last_nonopt = Lower(@, q.next)]

(* Its first lines: what it does when the program has moved next back.     *)
Resync(p) ==
    LET q == IF p.quoted # 0 /\ p.next < p.quoted THEN [p EXCEPT !.quoted = 0, !.args_only = FALSE] ELSE p
    IN  [q EXCEPT !.last_nonopt = Lower(@, q.next), !.first_nonopt = Lower(@, q.next)]

ParseNext == call.pc = "parse" /\ UNCHANGED <<words, flags>>

\* The loop of argp_parse goes on, or stops with an error.
GoOn == [call EXCEPT !.pc = "parse"]
Stop(ebadkey) == [call EXCEPT !.pc = "finalize", !.err = "EBADKEY", !.arg_ebadkey = ebadkey]

\* The option word at k, or an option in it, is in error.
Reject(p) ==
    /\ parser' = p
    /\ call' = Stop(FALSE)
    /\ history' = [history EXCEPT !.refused = TRUE]
    /\ UNCHANGED heard

(* group_parse for the option e: p is the parser with next behind the      *)
(* option and its value; the word of the option is number id, its value    *)
(* comes from word value (-1: there is none).  c: the locals.              *)
Deliver(p, e, id, value, c) ==
    LET a   == Groups[e[1]]
        key == Entry(Groups, e).key
    IN  /\ Hear(a, "OPT")
        /\ IF Exits(a, key)
           THEN /\ parser' = p
                /\ call' = [call EXCEPT !.pc = "exited"]
                /\ UNCHANGED history
           ELSE \E ans \in OptionAnswers(a, key, p.next) :
                    /\ parser' = [p EXCEPT !.next = ans[2]]
                    /\ call' = IF ans[1] = "ok" THEN c
                               ELSE [c EXCEPT !.pc = "finalize", !.err = ans[1]]
                    /\ LET h == Log([history EXCEPT !.refused = ans[1] = "EBADKEY"], <<<<id, key, value>>>>)
                           g == Advance(h, p.argv, parser.next, ans[2])
                       IN  history' = IF ans[2] = p.next THEN g ELSE Move(Steer(g))

NeedsValue(o) == o.arg = "required"

(* The next letter of a cluster of short options.  An option that takes an *)
(* argument has the rest of the cluster, or else the next word.            *)
ShortOption ==
    LET p    == Resync(parser)
        rest == Tail(p.nextchar)
        e    == FindShortOption(Groups, Head(p.nextchar))
        o    == Entry(Groups, e)
        id   == p.argv[p.next - 1]
    IN  /\ ParseNext /\ p.nextchar # <<>>
        /\ \/ /\ e = Nowhere
              /\ Reject([p EXCEPT !.nextchar = rest])
           \/ /\ e # Nowhere /\ o.arg = "none"
              /\ Deliver([p EXCEPT !.nextchar = rest], e, id, -1, GoOn)
           \/ /\ e # Nowhere /\ o.arg # "none"
              /\ rest # <<>> \/ ~NeedsValue(o)
              /\ Deliver([p EXCEPT !.nextchar = <<>>], e, id, IF rest = <<>> THEN -1 ELSE id, GoOn)
           \/ /\ e # Nowhere /\ NeedsValue(o) /\ rest = <<>> /\ p.next = argc
              /\ Reject([p EXCEPT !.nextchar = <<>>])
           \/ /\ e # Nowhere /\ NeedsValue(o) /\ rest = <<>> /\ p.next # argc
              /\ Deliver([p EXCEPT !.nextchar = <<>>, !.next = @ + 1], e, id, p.argv[p.next], GoOn)

\* parser_parse_arg begins with the first group.
ParseArg(p) ==
    /\ parser' = p
    /\ call' = [call EXCEPT !.pc = "arg", !.group = 1, !.index = p.next, !.arg_ebadkey = TRUE]
    /\ UNCHANGED <<heard, history>>

(* Only arguments are left.                                                *)
OnlyArguments ==
    LET p == Resync(parser)
    IN  /\ ParseNext /\ p.nextchar = <<>> /\ p.args_only
        /\ \/ /\ p.next >= argc
              /\ parser' = p /\ call' = Stop(TRUE) /\ UNCHANGED <<heard, history>>
           \/ /\ p.next < argc
              /\ ParseArg(p)

(* All words have been read: now for the arguments that were skipped.      *)
AlmostDone ==
    LET p == Resync(parser)
    IN  /\ ParseNext /\ p.nextchar = <<>> /\ ~p.args_only /\ p.next >= argc
        /\ \/ /\ p.first_nonopt # p.last_nonopt
              /\ LET x == Exchange(p)
                 IN  parser' = [x EXCEPT !.next = x.first_nonopt, !.first_nonopt = 0,
                                         !.last_nonopt = 0, !.args_only = TRUE]
              /\ call' = [call EXCEPT !.arg_ebadkey = TRUE]
           \/ /\ p.first_nonopt = p.last_nonopt
              /\ parser' = p
              /\ call' = Stop(TRUE)
        /\ UNCHANGED <<heard, history>>

\* The word at next is one of this class.
Looking(p, class) ==
    /\ ParseNext /\ p.nextchar = <<>> /\ ~p.args_only /\ p.next < argc
    /\ Classify(Groups, Word(p, p.next), flags.long_only) = class

(* PERMUTE: the argument joins those skipped before, which are moved up to *)
(* it when options lie between.                                            *)
SkipArgument ==
    LET p == Resync(parser)
        x == IF p.first_nonopt = p.last_nonopt
             THEN [p EXCEPT !.first_nonopt = p.next, !.last_nonopt = p.next]
             ELSE IF p.last_nonopt # p.next THEN Exchange(p)
             ELSE p
    IN  /\ Looking(p, "arg") /\ Ordering = "permute"
        /\ parser' = [x EXCEPT !.next = @ + 1, !.last_nonopt = x.next + 1]
        /\ UNCHANGED <<call, heard, history>>

\* Mutant: it is looked at once more.
StopAtArgumentAgain ==
    LET p == Resync(parser)
    IN  /\ Looking(p, "arg") /\ Ordering = "require_order"
        /\ parser' = p
        /\ UNCHANGED <<call, heard, history>>

(* REQUIRE_ORDER: the first argument ends the options.                     *)
StopAtArgument ==
    LET p == Resync(parser)
    IN  /\ Looking(p, "arg") /\ Ordering = "require_order"
        /\ parser' = [p EXCEPT !.args_only = TRUE]
        /\ UNCHANGED <<call, heard, history>>

(* RETURN_IN_ORDER                                                         *)
ArgumentInOrder ==
    LET p == Resync(parser)
    IN  Looking(p, "arg") /\ Ordering = "in_order" /\ ParseArg(p)

(* "--": the arguments skipped before it come behind it.                   *)
Quote ==
    LET p == Resync(parser)
        q == [p EXCEPT !.next = @ + 1]
        x == Exchange(q)
    IN  /\ Looking(p, "quote")
        /\ parser' = IF q.first_nonopt # q.last_nonopt
                     THEN [x EXCEPT !.next = x.first_nonopt, !.quoted = x.first_nonopt,
                                    !.first_nonopt = 0, !.last_nonopt = 0, !.args_only = TRUE]
                     ELSE [q EXCEPT !.quoted = q.next, !.args_only = TRUE]
        /\ history' = Advance(history, p.argv, p.next, q.next)
        /\ UNCHANGED <<call, heard>>

LongOption ==
    LET p == Resync(parser)
        q == [p EXCEPT !.next = @ + 1]
        w == Word(p, p.next)
        e == FindLongOption(Groups, w.text)
        o == Entry(Groups, e)
        id == p.argv[p.next]
        c == [GoOn EXCEPT !.arg_ebadkey = FALSE]
    IN  /\ Looking(p, "long")
        /\ \/ /\ e = Nowhere \/ (w.value /\ o.arg = "none")
              /\ Reject(q)
           \/ /\ e # Nowhere /\ ~w.value /\ NeedsValue(o) /\ q.next = argc
              /\ Reject(q)
           \/ /\ e # Nowhere /\ ~w.value /\ NeedsValue(o) /\ q.next # argc
              /\ Deliver([q EXCEPT !.next = @ + 1], e, id, p.argv[q.next], c)
           \/ /\ e # Nowhere /\ (IF w.value THEN o.arg # "none" ELSE ~NeedsValue(o))
              /\ Deliver(q, e, id, IF w.value THEN id ELSE -1, c)

StartShort ==
    LET p == Resync(parser)
    IN  /\ Looking(p, "short")
        /\ parser' = [p EXCEPT !.next = @ + 1, !.nextchar = Cluster(Word(p, p.next))]
        /\ history' = Advance(history, p.argv, p.next, p.next + 1)
        /\ UNCHANGED <<call, heard>>

----------------------------------------------------------------------------
(* parser_parse_arg: each group in turn is offered the argument at         *)
(* call.index with ARGP_KEY_ARG, and what is left with ARGP_KEY_ARGS.      *)

\* Mutant: the arguments are booked on the first group.
AcceptForFirst(g, next) ==
    /\ parser' = IF next > call.index
                 THEN [parser EXCEPT !.next = next, !.args_processed[1] = @ + next - call.index]
                 ELSE [parser EXCEPT !.next = next, !.args_only = FALSE]
    /\ call' = GoOn
    /\ LET h == Advance(history, parser.argv, call.index, next)
           l == Log(h, [k \in 1 .. next - call.index |-> <<parser.argv[call.index + k - 1], "ARG", -1>>])
       IN  history' = IF next <= call.index THEN Move(Steer(l))
                      ELSE IF ~parser.args_only /\ next # call.index + 1 THEN Steer(l)
                      ELSE l

(* Group g has taken the argument, and left next where it is now.          *)
Accept(g, next) ==
    /\ parser' = IF next > call.index
                 THEN [parser EXCEPT !.next = next, !.args_processed[g] = @ + next - call.index]
                 ELSE [parser EXCEPT !.next = next, !.args_only = FALSE]
    /\ call' = GoOn
    /\ LET h == Advance(history, parser.argv, call.index, next)
           l == Log(h, [k \in 1 .. next - call.index |-> <<parser.argv[call.index + k - 1], "ARG", -1>>])
       IN  history' = IF next <= call.index THEN Move(Steer(l))
                      ELSE IF ~parser.args_only /\ next # call.index + 1 THEN Steer(l)
                      ELSE l

Fail(next) ==
    /\ parser' = [parser EXCEPT !.next = next]
    /\ call' = [call EXCEPT !.pc = "finalize", !.err = "other"]
    /\ UNCHANGED history

OfferArg ==
    /\ call.pc = "arg" /\ call.group \in GroupNumbers
    /\ Hear(Groups[call.group], "ARG")
    /\ \E ans \in ArgumentAnswers(Groups[call.group], parser.next + 1) :
           \/ /\ ans[1] = "EBADKEY"
              /\ call' = [call EXCEPT !.pc = "args"] /\ UNCHANGED <<parser, history>>
           \/ /\ ans[1] = "ok"
              /\ Accept(call.group, ans[2])
           \/ /\ ans[1] = "other"
              /\ Fail(ans[2])
    /\ UNCHANGED <<words, flags>>

\* ok: all the rest counts as taken, wherever the function has left next.
OfferArgs ==
    /\ call.pc = "args"
    /\ Hear(Groups[call.group], "ARGS")
    /\ \E err \in Answers(Groups[call.group]) :
           \/ /\ err = "EBADKEY"
              /\ call' = [call EXCEPT !.pc = "arg", !.group = @ + 1] /\ UNCHANGED <<parser, history>>
           \/ /\ err = "ok"
              /\ Accept(call.group, argc)
           \/ /\ err = "other"
              /\ Fail(parser.next)
    /\ UNCHANGED <<words, flags>>

NobodyTook ==
    /\ call.pc = "arg" /\ call.group \notin GroupNumbers
    /\ call' = Stop(call.arg_ebadkey)
    /\ UNCHANGED <<words, flags, parser, heard, history>>

----------------------------------------------------------------------------
(* parser_finalize                                                         *)

Loop(pc, group) == [call EXCEPT !.pc = pc, !.group = group, !.err = "ok"]
ErrorLoop(err)  == [call EXCEPT !.pc = "error", !.group = 1, !.err = err]

(* How it goes on: everything is parsed, the rest is left to the caller,   *)
(* or an error.  Too many arguments are an error if nobody can be told.    *)
Finalize ==
    LET err == IF call.err = "EBADKEY" /\ call.arg_ebadkey THEN "ok" ELSE call.err
        bad == IF err = "ok" THEN "EBADKEY" ELSE err
    IN  /\ call.pc = "finalize"
        /\ call' = IF err = "ok" /\ parser.next = argc THEN Loop("no_args", 1)
                   ELSE IF err = "ok" /\ flags.end_index THEN Loop("success", Len(Groups))
                   ELSE IF bad = "EBADKEY" /\ HelpExits THEN [call EXCEPT !.pc = "exited"]
                   ELSE ErrorLoop(bad)
        /\ UNCHANGED <<words, flags, parser, heard, history>>

(* One turn of a loop over the groups that stops at an error of their own; *)
(* error: how it goes on then.                                             *)
Turn(key, step, error) ==
    /\ Hear(Groups[call.group], key)
    /\ \E err \in Answers(Groups[call.group]) :
           call' = IF err = "other" THEN error ELSE [call EXCEPT !.group = @ + step]
    /\ UNCHANGED <<words, flags, parser, history>>

NoArgs ==
    /\ call.pc = "no_args" /\ call.group \in GroupNumbers
    /\ \/ /\ parser.args_processed[call.group] = 0
          /\ Turn("NO_ARGS", 1, ErrorLoop("other"))
       \/ /\ parser.args_processed[call.group] # 0
          /\ call' = [call EXCEPT !.group = @ + 1]
          /\ UNCHANGED <<words, flags, parser, heard, history>>

End ==
    /\ call.pc = "end" /\ call.group \in GroupNumbers
    /\ Turn("END", -1, ErrorLoop("other"))

Success ==
    /\ call.pc = "success" /\ call.group \in GroupNumbers
    /\ Turn("SUCCESS", -1, [call EXCEPT !.pc = "fini", !.group = Len(Groups), !.err = "other"])

\* Answers to ERROR and FINI are ignored.
Error ==
    /\ call.pc = "error" /\ call.group \in GroupNumbers
    /\ Hear(Groups[call.group], "ERROR")
    /\ call' = [call EXCEPT !.group = @ + 1]
    /\ UNCHANGED <<words, flags, parser, history>>

Finish ==
    /\ call.pc = "fini" /\ call.group \in GroupNumbers
    /\ Hear(Groups[call.group], "FINI")
    /\ call' = [call EXCEPT !.group = @ - 1]
    /\ UNCHANGED <<words, flags, parser, history>>

\* A loop has gone through all groups.
LoopEnds ==
    /\ call.group \notin GroupNumbers
    /\ \/ call.pc = "no_args" /\ call' = Loop("end", Len(Groups))
       \/ call.pc = "end"     /\ call' = Loop("success", Len(Groups))
       \/ call.pc \in {"success", "error"} /\ call' = [call EXCEPT !.pc = "fini", !.group = Len(Groups)]
       \/ call.pc = "fini" /\ call' = [call EXCEPT !.pc = "done", !.err = IF @ = "EBADKEY" THEN "EINVAL" ELSE @]
    /\ UNCHANGED <<words, flags, parser, heard, history>>

Next ==
    \/ InitGroup \/ Initialised
    \/ ShortOption \/ OnlyArguments \/ AlmostDone
    \/ SkipArgument \/ StopAtArgument \/ ArgumentInOrder \/ Quote \/ LongOption \/ StartShort
    \/ OfferArg \/ OfferArgs \/ NobodyTook
    \/ Finalize \/ NoArgs \/ End \/ Success \/ Error \/ Finish \/ LoopEnds

Spec == Init /\ [][Next]_vars
FairSpec == Spec /\ WF_vars(Next)

----------------------------------------------------------------------------
(* Properties.                                                             *)

Keys == {"absent", "none", "INIT", "OPT", "ARG", "ARGS", "NO_ARGS", "END", "SUCCESS", "ERROR", "FINI"}
PCs == {"init", "parse", "arg", "args", "finalize", "no_args", "end", "success", "error", "fini", "done", "exited"}

(* Every variable has its type; argv is a permutation of what it was, and  *)
(* the program name stays where it is.                                     *)
TypeOK ==
    /\ parser.argv \in [0 .. argc - 1 -> 0 .. argc - 1] /\ Range(parser.argv) = 0 .. argc - 1
    /\ Start = 1 => parser.argv[0] = 0
    /\ parser.args_only \in BOOLEAN
    /\ parser.args_processed \in [GroupNumbers -> Nat]
    /\ call.pc \in PCs /\ call.group \in 0 .. Len(Groups) + 1
    /\ call.err \in Errors \cup {"EINVAL"}
    /\ heard \in [WithParser -> Keys]

(* The indices are in order: nothing is skipped once only arguments are    *)
(* left, and no cluster is being read then (argp-parse.c:895 asserts it).  *)
IndicesOf(p) ==
    /\ 0 <= p.first_nonopt /\ p.first_nonopt <= p.last_nonopt
    /\ p.last_nonopt <= p.next /\ p.next <= argc
    /\ 0 <= p.quoted /\ p.quoted <= argc
    /\ p.args_only => p.first_nonopt = p.last_nonopt /\ p.nextchar = <<>>

(* The indices are in order whenever parser_parse_next has put them right, *)
(* wherever the program has moved next, so that exchange stays inside      *)
(* argv.                                                                   *)
Indices == IndicesOf(Resync(parser))

IdsIn(p, from, to) == {p.argv[k] : k \in from .. to - 1}

(* No word is lost or read twice when argv is permuted and next is moved:  *)
(* the words before next that nobody has taken are those of the skipped    *)
(* segment, and the ones a caller is told of at the end are the untaken.   *)
NothingLost ==
    LET p == Resync(parser)
    IN  /\ call.pc \in {"parse", "arg", "args"} =>
               IdsIn(p, p.first_nonopt, p.last_nonopt) = IdsIn(p, Start, p.next) \ history.taken
        /\ call.pc = "success" /\ ~history.refused =>
               IdsIn(p, p.next, argc) = IdsIn(p, Start, argc) \ history.taken

(* The command line read once from left to right: what getopt's rules make *)
(* of the words from number i on, options with their values and arguments. *)
ReadCluster(i) ==
    LET letters == Cluster(words[i + 1])
        n       == Len(letters)
        read[j \in 1 .. n + 1] ==
            LET e == FindShortOption(Groups, letters[j])
                o == Entry(Groups, e)
            IN  IF j > n THEN [log |-> <<>>, next |-> i + 1, bad |-> FALSE]
                ELSE IF e = Nowhere THEN [log |-> <<>>, next |-> i + 1, bad |-> TRUE]
                ELSE IF o.arg = "none" THEN [read[j + 1] EXCEPT !.log = <<<<i, o.key, -1>>>> \o @]
                ELSE IF j < n THEN [log |-> <<<<i, o.key, i>>>>, next |-> i + 1, bad |-> FALSE]
                ELSE IF o.arg = "optional" THEN [log |-> <<<<i, o.key, -1>>>>, next |-> i + 1, bad |-> FALSE]
                ELSE IF i + 1 = argc THEN [log |-> <<>>, next |-> i + 1, bad |-> TRUE]
                ELSE [log |-> <<<<i, o.key, i + 1>>>>, next |-> i + 2, bad |-> FALSE]
    IN  read[1]

ReadLong(i) ==
    LET w == words[i + 1]
        e == FindLongOption(Groups, w.text)
        o == Entry(Groups, e)
        Bad == [log |-> <<>>, next |-> i + 1, bad |-> TRUE]
    IN  IF e = Nowhere THEN Bad
        ELSE IF w.value THEN IF o.arg = "none" THEN Bad
                             ELSE [log |-> <<<<i, o.key, i>>>>, next |-> i + 1, bad |-> FALSE]
        ELSE IF o.arg # "required" THEN [log |-> <<<<i, o.key, -1>>>>, next |-> i + 1, bad |-> FALSE]
        ELSE IF i + 1 = argc THEN Bad
        ELSE [log |-> <<<<i, o.key, i + 1>>>>, next |-> i + 2, bad |-> FALSE]

Arguments(from) == [k \in 1 .. argc - from |-> <<from + k - 1, "ARG", -1>>]

Expected ==
    LET read[i \in 0 .. argc + 1] ==
            LET class == Classify(Groups, words[i + 1], flags.long_only)
                o == IF class = "long" THEN ReadLong(i) ELSE ReadCluster(i)
            IN  IF i >= argc THEN [log |-> <<>>, args |-> <<>>, bad |-> FALSE]
                ELSE IF class = "quote" THEN [log |-> <<>>, args |-> Arguments(i + 1), bad |-> FALSE]
                ELSE IF class # "arg"
                THEN IF o.bad THEN [log |-> o.log, args |-> <<>>, bad |-> TRUE]
                     ELSE [read[o.next] EXCEPT !.log = o.log \o @]
                ELSE IF Ordering = "permute" THEN [read[i + 1] EXCEPT !.args = <<<<i, "ARG", -1>>>> \o @]
                ELSE IF Ordering = "in_order" THEN [read[i + 1] EXCEPT !.log = <<<<i, "ARG", -1>>>> \o @]
                ELSE [log |-> <<>>, args |-> Arguments(i), bad |-> FALSE]
        all == read[Start]
    IN  all.log \o (IF all.bad THEN <<>> ELSE all.args)

(* A program that does not steer is given exactly the options, values and  *)
(* arguments of the command line, in the order the flags ask for: a prefix *)
(* of them at any time, and all of them when argp_parse succeeds and no    *)
(* word is left.  An option that its parser refused is never a success     *)
(* (ARGP_IN_ORDER is another matter).  Steered or not, it loses no word,   *)
(* and the state is well typed.                                            *)
Delivered ==
    /\ TypeOK /\ NothingLost
    /\ ~history.steered =>
           /\ IsPrefix(history.log, Expected)
           /\ call.pc = "success" /\ Ordering # "in_order" =>
               /\ ~history.refused
               /\ history.log \o [k \in 1 .. argc - parser.next |-> <<parser.argv[parser.next + k - 1], "ARG", -1>>]
                      = Expected

(* The parser functions hear what argp.h says they hear.                   *)
Calls ==
    INSTANCE ArgpCalls WITH
        Parsers <- WithParser,
        Parents <- {e \in WithParser \X WithParser : Parent(e[1], e[2])},
        handled <- [a \in WithParser |-> \E g \in GroupNumbers :
                        Groups[g] = a /\ parser.args_processed[g] > 0],
        left    <- parser.next # argc,
        failed  <- call.err = "other"
CallsSpec == Calls!Spec

(* argp_parse returns, if the program does not move next back for ever:    *)
(* steps of parser_parse_next that consume nothing do not repeat.          *)
Terminates == <>(call.pc \in {"done", "exited"})

(* "*ARGP_EBADKEY indicates whether a value of EBADKEY is due to an        *)
(* unrecognized argument" (argp-parse.c:868): when it is an option that    *)
(* was refused, argp_parse does not succeed.                               *)
RefusalReported == history.refused => call.pc # "success"
=============================================================================
