---------------------------- MODULE MCArgpParse ----------------------------
(* Two parsers of a program, one the child of the other, and argp's own. *)
EXTENDS ArgpParse, TLC

Opt(name, key, arg, alias) == [name |-> name, key |-> key, arg |-> arg, alias |-> alias]

MCLetters == {"a", "b", "c", "?", "V"}

MCArgps ==
    ("top"     :> [options |-> <<>>, parser |-> "none", children |-> <<"wrapper", "default", "version">>]) @@
    ("main"    :> [options |-> <<Opt(<<"l", "o">>, "a", "none", FALSE),
                                 Opt(<<"l", "u">>, "key", "required", FALSE),
                                 Opt(<<"l", "u", "x">>, "key2", "none", TRUE)>>,
                   parser |-> "user", children |-> <<"child">>]) @@
    ("wrapper" :> [options |-> <<>>, parser |-> "none", children |-> <<"main">>]) @@
    ("child"   :> [options |-> <<Opt(<<"l", "o", "g">>, "b", "required", FALSE),
                                 Opt(<<>>, "c", "optional", FALSE)>>,
                   parser |-> "user", children |-> <<>>]) @@
    ("single"  :> [options |-> <<Opt(<<>>, "a", "none", FALSE), Opt(<<>>, "b", "required", FALSE)>>,
                   parser |-> "user", children |-> <<>>]) @@
    ("default" :> [options |-> <<Opt(<<"h">>, "?", "none", FALSE), Opt(<<"u">>, "usage", "none", FALSE),
                                 Opt(<<"p">>, "progname", "required", FALSE)>>,
                   parser |-> "default", children |-> <<>>]) @@
    ("version" :> [options |-> <<Opt(<<"v">>, "V", "none", FALSE)>>, parser |-> "version", children |-> <<>>])

Plain    == [dashes |-> 0, text |-> <<"x">>, value |-> FALSE]
Dashes   == [dashes |-> 2, text |-> <<>>, value |-> FALSE]
Short(t) == [dashes |-> 1, text |-> t, value |-> FALSE]
Long(t)  == [dashes |-> 2, text |-> t, value |-> FALSE]
LongV(t) == [dashes |-> 2, text |-> t, value |-> TRUE]

Flags(on) ==
    [f \in {"in_order", "no_args", "posix", "argv0", "no_errs", "no_help", "no_exit", "long_only", "end_index"}
        |-> f \in on]

CONSTANT Length

(* Every way to call argp_parse meets every short command line of the       *)
(* words that matter to it.                                                 *)
Basic == {Plain, Dashes, Short(<<"a">>), Short(<<"b">>), Short(<<"a", "b">>)}
Names == {Plain, Short(<<"c">>), Short(<<"c", "a">>), Short(<<"z">>), Short(<<>>), Short(<<"?">>),
          Long(<<"l">>), Long(<<"l", "o">>), LongV(<<"l", "o">>), Long(<<"l", "o", "g">>), Long(<<"l", "u">>),
          LongV(<<"l", "u">>), Long(<<"h">>), Long(<<"p">>), Long(<<"v">>)}
Onlies == {Plain, Short(<<"a">>), Short(<<"l">>), Short(<<"l", "o">>), Short(<<"l", "u">>), Short(<<"b", "a">>)}

Lines(alphabet, n) == {<<Plain>> \o s : s \in UNION {[1 .. k -> alphabet] : k \in 0 .. n}} \cup {<<>>}

BasicFlags == {Flags({"no_help", "no_exit", "end_index"}), Flags({"no_help", "in_order"}),
               Flags({"no_help", "no_args", "end_index"}), Flags({"no_help", "argv0", "no_errs", "end_index"})}

MCCases == (Lines(Basic, Length) \X {Flags({"no_help"})} \X {"single"})
    \cup (Lines(Basic, Length - 1) \X BasicFlags \X {"single"})
    \cup (Lines(Names, Length - 2) \X {Flags({}), Flags({"posix", "no_exit"})} \X {"wrapper"})
    \cup (Lines(Onlies, Length - 2) \X {Flags({"long_only", "no_help"})} \X {"wrapper"})

(* The call that lets a refused option pass.                                *)
RefusedCases == Lines({Plain, Short(<<"a">>)}, 2) \X {Flags({"no_help", "in_order"})} \X {"single"}
=============================================================================
