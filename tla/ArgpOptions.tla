---------------------------- MODULE ArgpOptions ----------------------------
(***************************************************************************)
(* The option tables of src/src/argp/argp-parse.c: how the tree of struct  *)
(* argp becomes the groups of a parser, how a word of the command line is  *)
(* classified, and which option of which group it names.                   *)
(*                                                                         *)
(* A word is [dashes, text, value]: the dashes it begins with (two at the  *)
(* most), its letters, and whether "=" and a value follow them.  The name  *)
(* of an option is a sequence of letters, <<>> when it has none; its key   *)
(* is a letter when it has a short form.                                   *)
(***************************************************************************)
EXTENDS Integers, Sequences, FiniteSets, SequencesExt

CONSTANTS
    Argps,      \* the struct argps, by name: [options, parser, children]
    Letters     \* the letters: what isprint accepts

(* options is a sequence of [name, key, arg, alias], arg being "none",     *)
(* "optional" or "required"; parser is "none", "user", "default" or        *)
(* "version"; children is a sequence of names.  Empty options stand for a  *)
(* null pointer in an argp without a parser, for an empty table otherwise. *)

ASSUME ArgpsAssumption ==
    \A a \in DOMAIN Argps :
        /\ Argps[a].options \in Seq([name : Seq(STRING), key : STRING, alias : BOOLEAN,
                                     arg : {"none", "optional", "required"}])
        /\ Argps[a].parser \in {"none", "user", "default", "version"}
        /\ Argps[a].children \in Seq(DOMAIN Argps)

Options(a) == Argps[a].options

NeedsGroup(a) == Options(a) # <<>> \/ Argps[a].parser # "none"

(* The groups of the tree below a, as a traversal in pre-order finds them. *)
ConvertOptions[a \in DOMAIN Argps] ==
    LET children == Argps[a].children
    IN  (IF NeedsGroup(a) THEN <<a>> ELSE <<>>)
            \o FlattenSeq([i \in DOMAIN children |-> ConvertOptions[children[i]]])

(* group->parent: an argp that has no group is nobody's parent.            *)
Parent(a, b) == NeedsGroup(a) /\ b \in Range(Argps[a].children)

(* What the traversal makes of a tree with each argp in it once: a parent  *)
(* comes before its children.                                              *)
InPreorder(groups) ==
    /\ groups \in Seq(DOMAIN Argps)
    /\ \A i, j \in DOMAIN groups :
           /\ groups[i] = groups[j] => i = j
           /\ Parent(groups[i], groups[j]) => i < j

----------------------------------------------------------------------------
(* Options are looked up in all groups: an entry is <<group, option>>.     *)

Entries(groups) == UNION {{g} \X DOMAIN Options(groups[g]) : g \in DOMAIN groups}
Entry(groups, e) == Options(groups[e[1]])[e[2]]
First(entries) == CHOOSE e \in entries : \A f \in entries : e[1] < f[1] \/ (e[1] = f[1] /\ e[2] <= f[2])

Nowhere == <<0, 0>>

(* find_short_option                                                       *)
FindShortOption(groups, c) ==
    LET found == {e \in Entries(groups) : Entry(groups, e).key = c}
    IN  IF found = {} THEN Nowhere ELSE First(found)

(* match_option                                                            *)
MatchExact(text, name)   == name # <<>> /\ text = name
MatchPartial(text, name) == name # <<>> /\ IsStrictPrefix(text, name)

(* option_base: the option that the one at i is an alias of.               *)
OptionBase(options, i) ==
    LET proper == {j \in 1 .. i : ~options[j].alias}
    IN  IF proper = {} THEN i ELSE CHOOSE j \in proper : \A k \in proper : k <= j

(* find_long_option: the first exact match, or else the option that all    *)
(* abbreviations stand for.                                                *)
FindLongOption(groups, text) ==
    LET exact   == {e \in Entries(groups) : MatchExact(text, Entry(groups, e).name)}
        partial == {e \in Entries(groups) : MatchPartial(text, Entry(groups, e).name)}
        bases   == {<<e[1], OptionBase(Options(groups[e[1]]), e[2])>> : e \in partial}
    IN  IF exact # {} THEN First(exact)
        ELSE IF Cardinality(bases) = 1 THEN First(partial)
        ELSE Nowhere

----------------------------------------------------------------------------
(* classify_arg                                                            *)

IsShort(o) == o.key \in Letters
ShortOpts(groups) == {o.key : o \in {Entry(groups, e) : e \in Entries(groups)}} \cap Letters

\* The letters of a word behind its dash, as a cluster of short options reads them.
Cluster(w) == w.text \o (IF w.value THEN <<"=">> ELSE <<>>)

Classify(groups, w, long_only) ==
    IF w.dashes = 0 \/ (w.dashes = 1 /\ Cluster(w) = <<>>) THEN "arg"
    ELSE IF w.dashes = 2 THEN IF Cluster(w) = <<>> THEN "quote" ELSE "long"
    ELSE IF long_only /\ (Len(Cluster(w)) > 1 \/ Cluster(w)[1] \notin ShortOpts(groups)) THEN "long"
    ELSE "short"
=============================================================================
