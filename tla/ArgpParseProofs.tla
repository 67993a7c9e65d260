-------------------------- MODULE ArgpParseProofs --------------------------
(***************************************************************************)
(* Proofs about ArgpParse, for any option tables, command lines and flags, *)
(* any tree of argps, and whatever the parser functions answer and         *)
(* wherever they leave state->next: the indices into argv stay in order    *)
(* and inside of it, and the parser functions hear the special keys as     *)
(* ArgpCalls says.                                                         *)
(***************************************************************************)
EXTENDS ArgpParse, TLAPS, WellFoundedInduction, FiniteSetTheorems

Fields == {"groups", "args_processed", "argv", "next", "quoted", "args_only",
           "first_nonopt", "last_nonopt", "nextchar"}

Skips == Ordering = "permute"

(* The struct parser p of a command line of n words, before                *)
(* parser_parse_next has looked at where next is: the skipped segment may  *)
(* reach beyond it.  skips: arguments are skipped at all.                  *)
Sound(p, n, skips) ==
    /\ DOMAIN p = Fields
    /\ p.next \in 0 .. n /\ p.quoted \in 0 .. n /\ p.args_only \in BOOLEAN
    /\ p.first_nonopt \in Nat /\ p.last_nonopt \in Nat
    /\ p.first_nonopt <= p.last_nonopt
    /\ p.first_nonopt # p.last_nonopt => skips /\ ~p.args_only
    /\ p.args_only => p.nextchar = <<>>

(* The argument that the parser functions are offered is there.            *)
Offering ==
    /\ DOMAIN call = {"pc", "group", "index", "err", "arg_ebadkey"}
    /\ call.pc \in {"arg", "args"} => parser.next < argc

(* The inductive invariant.                                                *)
IndInv ==
    /\ argc \in Nat
    /\ Offering
    /\ Sound(parser, argc, Skips)

----------------------------------------------------------------------------
(* What the operators on the struct do to it.                              *)

\* Resync keeps the struct sound, and puts the segment before next.
LEMMA ResyncSound ==
    ASSUME NEW n \in Nat, NEW skips \in BOOLEAN, NEW p, Sound(p, n, skips)
    PROVE  /\ Sound(Resync(p), n, skips)
           /\ Resync(p).last_nonopt <= Resync(p).next
           /\ Resync(p).nextchar = p.nextchar
<1> DEFINE q == IF p.quoted # 0 /\ p.next < p.quoted THEN [p EXCEPT !.quoted = 0, !.args_only = FALSE] ELSE p
<1>1. Sound(q, n, skips) /\ q.nextchar = p.nextchar
  <2>1. CASE p.quoted # 0 /\ p.next < p.quoted
    BY <2>1 DEF Sound, Fields
  <2>2. CASE ~(p.quoted # 0 /\ p.next < p.quoted)
    BY <2>2 DEF Sound
  <2> QED
    BY <2>1, <2>2
<1>2. Resync(p) = [q EXCEPT !.last_nonopt = Lower(@, q.next), !.first_nonopt = Lower(@, q.next)]
  BY DEF Resync
<1> HIDE DEF q
<1> QED
  BY <1>1, <1>2 DEF Sound, Fields, Lower

\* exchange leaves the segment right before next, within argv.
LEMMA ExchangeSound ==
    ASSUME NEW n \in Nat, NEW skips \in BOOLEAN, NEW p, Sound(p, n, skips), p.last_nonopt <= p.next
    PROVE  /\ DOMAIN Exchange(p) = Fields
           /\ Exchange(p).first_nonopt \in 0 .. p.next
           /\ Exchange(p).last_nonopt = p.next
           /\ Exchange(p).next = p.next
           /\ Exchange(p).quoted = p.quoted
           /\ Exchange(p).args_only = p.args_only
           /\ Exchange(p).nextchar = p.nextchar
<1> DEFINE v == SwapSegments(p.argv, p.first_nonopt, p.last_nonopt, p.next)
<1>1. Exchange(p) = [p EXCEPT !.argv = v, !.first_nonopt = @ + p.next - p.last_nonopt,
                              !.last_nonopt = p.next]
  BY DEF Exchange
<1> HIDE DEF v
<1> QED
  BY <1>1 DEF Sound, Fields

\* An answer to an option leaves next inside of argv.
LEMMA OptionAnswerInside ==
    ASSUME argc \in Nat, NEW a, NEW key, NEW next \in 0 .. argc, NEW ans \in OptionAnswers(a, key, next)
    PROVE  ans[2] \in 0 .. argc
  BY DEF OptionAnswers, Errors, Start

\* So does an answer to an argument.
LEMMA ArgumentAnswerInside ==
    ASSUME argc \in Nat, NEW a, NEW next \in 0 .. argc, NEW ans \in ArgumentAnswers(a, next)
    PROVE  ans[2] \in 0 .. argc
  BY DEF ArgumentAnswers, Answers, Errors, Start

\* Delivering an option keeps the struct sound.
LEMMA DeliverSound ==
    ASSUME argc \in Nat, NEW p, Sound(p, argc, Skips), NEW e, NEW id, NEW value, NEW c,
           Deliver(p, e, id, value, c)
    PROVE  Sound(parser', argc, Skips)
<1> DEFINE a   == Groups[e[1]]
           key == Entry(Groups, e).key
<1>1. \/ parser' = p
      \/ \E ans \in OptionAnswers(a, key, p.next) : parser' = [p EXCEPT !.next = ans[2]]
  BY DEF Deliver
<1>2. CASE parser' = p
  BY <1>2
<1>3. ASSUME NEW ans \in OptionAnswers(a, key, p.next), parser' = [p EXCEPT !.next = ans[2]]
      PROVE  Sound(parser', argc, Skips)
  <2>1. ans[2] \in 0 .. argc
    BY OptionAnswerInside DEF Sound
  <2> QED
    BY <1>3, <2>1 DEF Sound, Fields
<1> QED
  BY <1>1, <1>2, <1>3

----------------------------------------------------------------------------
(* The invariant.                                                          *)

\* A call of argp_parse begins with a sound struct.
LEMMA InitSound == Init => IndInv
<1> SUFFICES ASSUME Init PROVE IndInv
  OBVIOUS
<1>1. PICK case, groups, processed, argv :
          /\ case \in Cases /\ words = case[1]
          /\ parser = [groups |-> groups, args_processed |-> processed,
                       argv |-> argv, next |-> 0, quoted |-> 0,
                       args_only |-> FALSE, first_nonopt |-> 0, last_nonopt |-> 0,
                       nextchar |-> <<>>]
  BY DEF Init
<1>2. argc \in Nat
  BY <1>1, CasesAssumption DEF argc
<1>3. DOMAIN parser = Fields
  BY <1>1 DEF Fields
<1>4. Offering
  BY DEF Init, Offering
<1> QED
  BY <1>1, <1>2, <1>3, <1>4 DEF IndInv, Sound

\* Every step keeps it sound.
LEMMA StepSound ==
    ASSUME IndInv, [Next]_vars
    PROVE  argc' \in Nat /\ Sound(parser', argc', Skips')
<1> DEFINE p == Resync(parser)
<1>1. argc \in Nat /\ Skips \in BOOLEAN /\ Sound(parser, argc, Skips)
  BY DEF IndInv, Skips
<1>2. Sound(p, argc, Skips) /\ p.last_nonopt <= p.next /\ p.nextchar = parser.nextchar
  BY <1>1, ResyncSound
<1>3. words' = words
  BY DEF Next, vars, InitGroup, Initialised, ShortOption, OnlyArguments, AlmostDone, SkipArgument,
         StopAtArgument, ArgumentInOrder, Quote, LongOption, StartShort, OfferArg, OfferArgs,
         NobodyTook, Finalize, NoArgs, End, Success, Error, Finish, LoopEnds, Turn, Looking, ParseNext
<1>4. flags' = flags
  BY DEF Next, vars, InitGroup, Initialised, ShortOption, OnlyArguments, AlmostDone, SkipArgument,
         StopAtArgument, ArgumentInOrder, Quote, LongOption, StartShort, OfferArg, OfferArgs,
         NobodyTook, Finalize, NoArgs, End, Success, Error, Finish, LoopEnds, Turn, Looking, ParseNext
<1> SUFFICES Sound(parser', argc, Skips)
  BY <1>1, <1>3, <1>4 DEF argc, Skips, Ordering
<1> HIDE DEF p
<1>5. CASE UNCHANGED parser
  BY <1>1, <1>5
<1>6. CASE Initialised
  BY <1>1, <1>6 DEF Initialised, Start, Sound, Fields
<1>7. CASE ShortOption
  <2> DEFINE rest == Tail(p.nextchar)
             e    == FindShortOption(Groups, Head(p.nextchar))
             id   == p.argv[p.next - 1]
             q    == [p EXCEPT !.nextchar = rest]
             r    == [p EXCEPT !.nextchar = <<>>]
             s    == [p EXCEPT !.nextchar = <<>>, !.next = @ + 1]
  <2>1. /\ ~p.args_only
        /\ \/ parser' = q \/ parser' = r
           \/ \E d \in {q, r} : \E value : Deliver(d, e, id, value, GoOn)
           \/ p.next # argc /\ \E value : Deliver(s, e, id, value, GoOn)
    BY <1>2, <1>7 DEF ShortOption, Reject, p, Sound
  <2>2. Sound(q, argc, Skips) /\ Sound(r, argc, Skips)
    BY <1>2, <2>1 DEF Sound, Fields
  <2>3. p.next # argc => Sound(s, argc, Skips)
    BY <1>1, <1>2, <2>1 DEF Sound, Fields
  <2> HIDE DEF q, r, s, e, id
  <2> QED
    BY <1>1, <2>1, <2>2, <2>3, DeliverSound
<1>8. CASE OnlyArguments
  BY <1>2, <1>8 DEF OnlyArguments, ParseArg, p
<1>9. CASE AlmostDone
  <2>1. CASE parser' = p
    BY <1>2, <2>1
  <2>2. CASE parser' = [Exchange(p) EXCEPT !.next = Exchange(p).first_nonopt, !.first_nonopt = 0,
                                           !.last_nonopt = 0, !.args_only = TRUE]
    <3>1. p.nextchar = <<>>
      BY <1>9 DEF AlmostDone, p
    <3> QED
      BY <1>1, <1>2, <2>2, <3>1, ExchangeSound DEF Sound, Fields
  <2> QED
    BY <1>9, <2>1, <2>2 DEF AlmostDone, p
<1>10. CASE SkipArgument
  <2> DEFINE x == IF p.first_nonopt = p.last_nonopt
                  THEN [p EXCEPT !.first_nonopt = p.next, !.last_nonopt = p.next]
                  ELSE IF p.last_nonopt # p.next THEN Exchange(p)
                  ELSE p
  <2>1. /\ ~p.args_only /\ p.nextchar = <<>> /\ p.next < argc /\ Skips
        /\ parser' = [x EXCEPT !.next = @ + 1, !.last_nonopt = x.next + 1]
    BY <1>10 DEF SkipArgument, Looking, p, Skips
  <2>2. /\ DOMAIN x = Fields /\ x.first_nonopt \in 0 .. p.next /\ x.next = p.next
        /\ x.quoted = p.quoted /\ x.args_only = p.args_only /\ x.nextchar = p.nextchar
    BY <1>1, <1>2, ExchangeSound DEF Sound, Fields
  <2> HIDE DEF x
  <2> QED
    BY <1>1, <1>2, <2>1, <2>2 DEF Sound, Fields
<1>11. CASE StopAtArgument
  BY <1>2, <1>11 DEF StopAtArgument, Looking, p, Sound, Fields, Skips
<1>12. CASE ArgumentInOrder
  BY <1>2, <1>12 DEF ArgumentInOrder, ParseArg, p
<1>13. CASE Quote
  <2> DEFINE q == [p EXCEPT !.next = @ + 1]
  <2>1. /\ p.nextchar = <<>> /\ p.next < argc
        /\ IF q.first_nonopt # q.last_nonopt
           THEN parser' = [Exchange(q) EXCEPT !.next = Exchange(q).first_nonopt,
                                !.quoted = Exchange(q).first_nonopt,
                                !.first_nonopt = 0, !.last_nonopt = 0, !.args_only = TRUE]
           ELSE parser' = [q EXCEPT !.quoted = q.next, !.args_only = TRUE]
    BY <1>13 DEF Quote, Looking, p
  <2>2. Sound(q, argc, Skips) /\ q.last_nonopt <= q.next /\ q.nextchar = <<>>
    BY <1>1, <1>2, <2>1 DEF Sound, Fields
  <2> HIDE DEF q
  <2>3. CASE q.first_nonopt # q.last_nonopt
    <3> DEFINE x == Exchange(q)
    <3>1. /\ DOMAIN x = Fields /\ x.first_nonopt \in 0 .. q.next
          /\ x.quoted = q.quoted /\ x.nextchar = q.nextchar
      BY <1>1, <2>2, ExchangeSound
    <3>2. parser' = [x EXCEPT !.next = x.first_nonopt, !.quoted = x.first_nonopt,
                              !.first_nonopt = 0, !.last_nonopt = 0, !.args_only = TRUE]
      BY <2>1, <2>3
    <3> HIDE DEF x
    <3> QED
      BY <1>1, <2>2, <3>1, <3>2 DEF Sound, Fields
  <2>4. CASE q.first_nonopt = q.last_nonopt
    BY <1>1, <2>1, <2>2, <2>4 DEF Sound, Fields
  <2> QED
    BY <2>3, <2>4
<1>14. CASE LongOption
  <2> DEFINE q  == [p EXCEPT !.next = @ + 1]
             r  == [q EXCEPT !.next = @ + 1]
             e  == FindLongOption(Groups, Word(p, p.next).text)
             id == p.argv[p.next]
             c  == [GoOn EXCEPT !.arg_ebadkey = FALSE]
  <2>1. /\ p.nextchar = <<>> /\ p.next < argc
        /\ \/ parser' = q
           \/ \E value : Deliver(q, e, id, value, c)
           \/ q.next # argc /\ \E value : Deliver(r, e, id, value, c)
    BY <1>14 DEF LongOption, Looking, Reject, p
  <2>2. Sound(q, argc, Skips)
    BY <1>1, <1>2, <2>1 DEF Sound, Fields
  <2> HIDE DEF q, e, id, c
  <2>3. q.next # argc => Sound(r, argc, Skips)
    BY <1>1, <2>2 DEF Sound, Fields
  <2> HIDE DEF r
  <2> QED
    BY <1>1, <2>1, <2>2, <2>3, DeliverSound
<1>15. CASE StartShort
  BY <1>1, <1>2, <1>15 DEF StartShort, Looking, p, Sound, Fields
<1>16. ASSUME NEW g, NEW next \in 0 .. argc, Accept(g, next) PROVE Sound(parser', argc, Skips)
  BY <1>1, <1>16 DEF Accept, Sound, Fields
<1>17. ASSUME NEW next \in 0 .. argc, Fail(next) PROVE Sound(parser', argc, Skips)
  BY <1>1, <1>17 DEF Fail, Sound, Fields
<1>18. CASE OfferArg
  <2>1. PICK ans \in ArgumentAnswers(Groups[call.group], parser.next + 1) :
            \/ UNCHANGED parser
            \/ ans[1] = "ok" /\ Accept(call.group, ans[2])
            \/ ans[1] = "other" /\ Fail(ans[2])
    BY <1>18 DEF OfferArg
  <2>2. parser.next + 1 \in 0 .. argc
    BY <1>1, <1>18 DEF OfferArg, IndInv, Offering, Sound
  <2>3. ans[2] \in 0 .. argc
    BY <1>1, <2>2, ArgumentAnswerInside
  <2> QED
    BY <1>5, <1>16, <1>17, <2>1, <2>3
<1>19. CASE OfferArgs
  <2>1. argc \in 0 .. argc /\ parser.next \in 0 .. argc
    BY <1>1 DEF Sound
  <2> QED
    BY <1>5, <1>16, <1>17, <1>19, <2>1 DEF OfferArgs
<1>20. CASE InitGroup \/ NobodyTook \/ Finalize \/ NoArgs \/ End \/ Success \/ Error \/ Finish \/ LoopEnds
  BY <1>5, <1>20 DEF InitGroup, NobodyTook, Finalize, NoArgs, End, Success, Error, Finish, LoopEnds, Turn
<1> QED
  BY <1>5, <1>6, <1>7, <1>8, <1>9, <1>10, <1>11, <1>12, <1>13, <1>14, <1>15, <1>18, <1>19, <1>20
     DEF Next, vars

\* No step offers an argument that is not there.
LEMMA StepOffers ==
    ASSUME IndInv, [Next]_vars
    PROVE  Offering'
<1> DEFINE p == Resync(parser)
<1>1. Offering /\ words' = words
  BY DEF IndInv, Next, vars, InitGroup, Initialised, ShortOption, OnlyArguments, AlmostDone, SkipArgument,
         StopAtArgument, ArgumentInOrder, Quote, LongOption, StartShort, OfferArg, OfferArgs,
         NobodyTook, Finalize, NoArgs, End, Success, Error, Finish, LoopEnds, Turn, Looking, ParseNext
<1>2. argc' = argc
  BY <1>1 DEF argc
<1>3. CASE UNCHANGED vars
  BY <1>1, <1>2, <1>3 DEF vars, Offering
<1>4. CASE OnlyArguments \/ ArgumentInOrder
  <2>1. \/ ParseArg(p) /\ p.next < argc
        \/ call' = Stop(TRUE)
    BY <1>4 DEF OnlyArguments, ArgumentInOrder, Looking
  <2> QED
    BY <1>1, <1>2, <2>1 DEF ParseArg, Stop, Offering
<1>5. CASE OfferArg
  BY <1>1, <1>2, <1>5 DEF OfferArg, Accept, Fail, GoOn, Offering
<1>6. CASE OfferArgs
  BY <1>1, <1>2, <1>6 DEF OfferArgs, Accept, Fail, GoOn, Offering
<1>7. ASSUME NEW q, NEW e, NEW id, NEW value, NEW c, Deliver(q, e, id, value, c),
             c.pc = "parse", DOMAIN c = DOMAIN call
      PROVE  Offering'
  BY <1>1, <1>7 DEF Deliver, Offering
<1>8. CASE ShortOption \/ LongOption
  <2>1. /\ GoOn.pc = "parse" /\ DOMAIN GoOn = DOMAIN call
        /\ [GoOn EXCEPT !.arg_ebadkey = FALSE].pc = "parse"
        /\ DOMAIN [GoOn EXCEPT !.arg_ebadkey = FALSE] = DOMAIN call
    BY <1>1 DEF GoOn, Offering
  <2>2. \/ \E q : Reject(q)
        \/ \E q, e, id, value : Deliver(q, e, id, value, GoOn)
        \/ \E q, e, id, value : Deliver(q, e, id, value, [GoOn EXCEPT !.arg_ebadkey = FALSE])
    BY <1>8 DEF ShortOption, LongOption
  <2>3. (\E q : Reject(q)) => Offering'
    BY <1>1 DEF Reject, Stop, Offering
  <2> QED
    BY <1>7, <2>1, <2>2, <2>3
<1>9. CASE InitGroup \/ Initialised \/ AlmostDone \/ SkipArgument \/ StopAtArgument \/ Quote \/ StartShort
  BY <1>1, <1>9 DEF InitGroup, Initialised, AlmostDone, SkipArgument, StopAtArgument, Quote, StartShort,
         Looking, ParseNext, Stop, Offering
<1>10. CASE NobodyTook \/ Finalize
  <2>1. \/ call' = Stop(call.arg_ebadkey)
        \/ call' = Loop("no_args", 1) \/ call' = Loop("success", Len(Groups))
        \/ call' = [call EXCEPT !.pc = "exited"]
        \/ \E err : call' = ErrorLoop(err)
    BY <1>10 DEF NobodyTook, Finalize
  <2> QED
    BY <1>1, <2>1 DEF Stop, Loop, ErrorLoop, Offering
<1>11. CASE NoArgs \/ End \/ Success \/ Error \/ Finish \/ LoopEnds
  BY <1>1, <1>11 DEF NoArgs, End, Success, Error, Finish, LoopEnds, Turn, Loop, ErrorLoop, Offering
<1> QED
  BY <1>3, <1>4, <1>5, <1>6, <1>8, <1>9, <1>10, <1>11 DEF Next

\* A sound struct has its indices in order once Resync has looked at them.
LEMMA SoundInOrder == IndInv => Indices
<1> SUFFICES ASSUME IndInv PROVE Indices
  OBVIOUS
<1>1. Sound(Resync(parser), argc, Skips) /\ Resync(parser).last_nonopt <= Resync(parser).next
  BY ResyncSound DEF IndInv, Skips
<1> QED
  BY <1>1 DEF IndInv, Indices, IndicesOf, Sound

\* The invariant holds throughout.
LEMMA AlwaysSound == Spec => []IndInv
<1>1. IndInv /\ [Next]_vars => IndInv'
  BY StepSound, StepOffers DEF IndInv
<1> QED
  BY InitSound, <1>1, PTL DEF Spec

(* The indices of the skipped segment, next and quoted are in order and    *)
(* inside of argv whenever parser_parse_next has put them right, so that   *)
(* exchange (argp-parse.c:763) never touches a word beyond next, and no    *)
(* cluster of options is half read when only arguments are left (:895).    *)
THEOREM IndicesInOrder == Spec => []Indices
  BY AlwaysSound, SoundInOrder, PTL

----------------------------------------------------------------------------
(* ArgpParse implements ArgpCalls.  The inductive invariant says at each   *)
(* place of argp_parse what the parser functions of the groups behind and  *)
(* before the loop variable have heard last.                               *)

(* The last keys while words are read, and before anyone hears of success. *)
Parsing == {"INIT", "OPT", "ARG", "ARGS"}
Unfinished == Parsing \cup {"NO_ARGS", "END"}

(* The parser functions of the groups from one number to another have      *)
(* heard one of the keys last.                                             *)
Heard(from, to, keys) ==
    \A j \in from .. to : Groups[j] \in WithParser => heard[Groups[j]] \in keys

(* The groups up to number n without arguments have been told of it.       *)
ToldNoArgs(n) ==
    \A j \in 1 .. n : Groups[j] \in WithParser /\ parser.args_processed[j] = 0
                          => heard[Groups[j]] = "NO_ARGS"

(* The groups up to number n have heard how argp_parse ended, or one of    *)
(* them has answered to SUCCESS with an error.                             *)
Verdict(n) ==
    \/ Heard(1, n, {"ERROR"})
    \/ Heard(1, n, {"SUCCESS"})
    \/ /\ call.err = "other"
       /\ \E j \in GroupNumbers : Groups[j] \in WithParser /\ heard[Groups[j]] \in {"SUCCESS", "FINI"}

(* What the parser functions have heard when argp_parse is at a place.     *)
Phase ==
    LET g == call.group
        n == Len(Groups)
    IN
    /\ call.pc = "init" =>
           /\ g \in 1 .. n + 1 /\ call.err = "ok"
           /\ Heard(1, g - 1, {"INIT"}) /\ Heard(g, n, {"none"})
    /\ call.pc \in {"parse", "arg", "args", "finalize"} =>
           Heard(1, n, Parsing) /\ (call.err = "other" => call.pc = "finalize")
    /\ call.pc = "arg" => g \in 1 .. n + 1 /\ call.index \in Nat
    /\ call.pc = "args" => g \in 1 .. n /\ call.index \in Nat
    /\ call.pc = "no_args" =>
           /\ g \in 1 .. n + 1 /\ call.err = "ok" /\ parser.next = argc
           /\ Heard(1, n, Parsing \cup {"NO_ARGS"}) /\ Heard(g, n, Parsing) /\ ToldNoArgs(g - 1)
    /\ call.pc = "end" =>
           /\ g \in 0 .. n /\ call.err = "ok" /\ parser.next = argc
           /\ Heard(1, g, Parsing \cup {"NO_ARGS"}) /\ Heard(g + 1, n, {"END"}) /\ ToldNoArgs(g)
    /\ call.pc = "success" =>
           /\ g \in 0 .. n /\ call.err = "ok"
           /\ Heard(1, g, IF parser.next # argc THEN Parsing ELSE {"END"})
           /\ Heard(g + 1, n, {"SUCCESS"})
    /\ call.pc = "error" =>
           /\ g \in 1 .. n + 1
           /\ Heard(1, g - 1, {"ERROR"}) /\ Heard(g, n, Unfinished)
    /\ call.pc = "fini" =>
           /\ g \in 0 .. n
           /\ Heard(g + 1, n, {"FINI"}) /\ Heard(1, g, Unfinished \cup {"SUCCESS", "ERROR"}) /\ Verdict(g)

(* The inductive invariant.                                                *)
CallInv ==
    /\ InPreorder(Groups)
    /\ heard \in [WithParser -> Keys]
    /\ \A a \in WithParser : heard[a] = "absent" <=> a \notin Range(Groups)
    /\ parser.args_processed \in [GroupNumbers -> Nat]
    /\ call.pc \in PCs
    /\ Phase
----------------------------------------------------------------------------

(* The state that ArgpCalls speaks of.                                     *)
Handled == [a \in WithParser |-> \E g \in GroupNumbers :
                Groups[g] = a /\ parser.args_processed[g] > 0]

(* What a step has to show.                                                *)
Promised == CallInv' /\ [Calls!Next]_(Calls!vars)

(* The groups are as many argps, each of them once.                        *)
LEMMA GroupsAre ==
    ASSUME CallInv
    PROVE  /\ Len(Groups) \in Nat /\ GroupNumbers = 1 .. Len(Groups) /\ DOMAIN Groups = GroupNumbers
           /\ \A j \in GroupNumbers : Groups[j] \in DOMAIN Argps
           /\ \A i, j \in GroupNumbers : Groups[i] = Groups[j] => i = j
  BY DEF CallInv, InPreorder, GroupNumbers

(* Who has a parser and is there is the argp of a group.                   *)
LEMMA PresentAre ==
    ASSUME CallInv
    PROVE  /\ Calls!Present = {a \in WithParser : \E j \in GroupNumbers : Groups[j] = a}
           /\ \A j \in GroupNumbers : Groups[j] \in WithParser => Groups[j] \in Calls!Present
<1>1. \A a : a \in Range(Groups) <=> \E j \in GroupNumbers : Groups[j] = a
  BY GroupsAre DEF Range
<1>2. Calls!Present = {a \in WithParser : heard[a] # "absent"}
  BY DEF Calls!Present
<1> QED
  BY <1>1, <1>2 DEF CallInv

(* What the groups have heard, everybody has who is there.                 *)
LEMMA AllHeard ==
    ASSUME CallInv, NEW keys, Heard(1, Len(Groups), keys) PROVE Calls!All(keys)
  BY PresentAre DEF Calls!All, Heard, GroupNumbers

(* The children of a group come behind it.                                 *)
LEMMA ChildrenHeard ==
    ASSUME CallInv, NEW g \in GroupNumbers, NEW key, Heard(g + 1, Len(Groups), {key})
    PROVE  Calls!ChildrenHeard(Groups[g], key)
<1> SUFFICES ASSUME NEW b \in Calls!Present,
                    <<Groups[g], b>> \in {e \in WithParser \X WithParser : Parent(e[1], e[2])}
             PROVE  heard[b] = key
  BY DEF Calls!ChildrenHeard
<1>1. PICK j \in GroupNumbers : Groups[j] = b
  BY PresentAre
<1>2. Parent(Groups[g], Groups[j]) /\ b \in WithParser
  BY <1>1
<1>3. g < j
  BY <1>2, GroupsAre DEF CallInv, InPreorder
<1>4. j \in g + 1 .. Len(Groups)
  BY <1>3, GroupsAre
<1> QED
  BY <1>1, <1>2, <1>4 DEF Heard

(* One parser function hears a key; an argp without one hears nothing.     *)
LEMMA HearIs ==
    ASSUME CallInv, NEW g \in GroupNumbers, NEW key \in Keys \ {"absent"}, Hear(Groups[g], key)
    PROVE  /\ heard' \in [WithParser -> Keys]
           /\ \A a \in WithParser : heard'[a] = "absent" <=> a \notin Range(Groups)
           /\ \A j \in GroupNumbers : Groups[j] \in WithParser =>
                  heard'[Groups[j]] = IF j = g THEN key ELSE heard[Groups[j]]
           /\ Groups[g] \in WithParser => heard' = [heard EXCEPT ![Groups[g]] = key]
           /\ Groups[g] \notin WithParser => heard' = heard
<1>1. Groups[g] \in DOMAIN Argps /\ Groups[g] \in Range(Groups)
  BY GroupsAre DEF Range
<1>2. Groups[g] \in WithParser <=> Argps[Groups[g]].parser # "none"
  BY <1>1 DEF WithParser
<1>3. heard \in [WithParser -> Keys] /\ \A a \in WithParser : heard[a] = "absent" <=> a \notin Range(Groups)
  BY DEF CallInv
<1>4. CASE Groups[g] \notin WithParser
  <2>1. heard' = heard
    BY <1>2, <1>4 DEF Hear
  <2> QED
    BY <1>3, <1>4, <2>1
<1>5. CASE Groups[g] \in WithParser
  <2>1. heard' = [heard EXCEPT ![Groups[g]] = key]
    BY <1>2, <1>5 DEF Hear
  <2>2. \A j \in GroupNumbers : Groups[j] = Groups[g] <=> j = g
    BY GroupsAre
  <2> QED
    BY <1>1, <1>3, <1>5, <2>1, <2>2
<1> QED
  BY <1>4, <1>5

(* The answer of an argp without a parser function is EBADKEY.             *)
LEMMA NoneAnswers ==
    ASSUME CallInv, NEW g \in GroupNumbers, Groups[g] \notin WithParser
    PROVE  /\ Answers(Groups[g]) = {"EBADKEY"}
           /\ \A key, next : OptionAnswers(Groups[g], key, next) = {<<"EBADKEY", next>>}
           /\ \A next : ArgumentAnswers(Groups[g], next) = {<<"EBADKEY", next>>}
<1>1. Argps[Groups[g]].parser = "none"
  BY GroupsAre DEF WithParser
<1> QED
  BY <1>1 DEF Answers, OptionAnswers, ArgumentAnswers

----------------------------------------------------------------------------
(* The parsing.                                                            *)

(* The groups and what they have processed.                                *)
SameGroups == parser'.groups = Groups /\ parser'.args_processed = parser.args_processed

(* argp moves on along the words, and nobody hears of it.                  *)
LEMMA MovesOn ==
    ASSUME CallInv, Heard(1, Len(Groups), Parsing), call.err # "other",
           SameGroups, heard' = heard, argc' = argc,
           call'.pc \in {"parse", "arg", "finalize"}, call'.err # "other",
           call'.pc = "arg" => call'.group \in 1 .. Len(Groups) + 1 /\ call'.index \in Nat
    PROVE  Promised
<1>1. Groups' = Groups /\ GroupNumbers' = GroupNumbers
  BY DEF SameGroups, Groups, GroupNumbers
<1>2. CallInv'
  <2>1. Heard(1, Len(Groups), Parsing)'
    BY <1>1 DEF Heard
  <2>2. Phase'
    BY <1>1, <2>1 DEF Phase
  <2>3. call'.pc \in PCs
    BY DEF PCs
  <2> QED
    BY <1>1, <2>2, <2>3 DEF CallInv, SameGroups
<1>3. Calls!Read
  <2>1. Heard(1, Len(Groups), Parsing \cup {"none"})
    BY DEF Heard
  <2>2. Calls!All(Parsing \cup {"none"})
    BY <2>1, AllHeard
  <2>3. Handled' = Handled
    BY <1>1 DEF Handled, SameGroups
  <2> QED
    BY <2>2, <2>3 DEF Calls!Read, Calls!Parsing, Parsing, Handled
<1> QED
  BY <1>2, <1>3 DEF Promised, Calls!Next

(* A parser function hears of an option or of arguments.                   *)
LEMMA Offers ==
    ASSUME CallInv, Heard(1, Len(Groups), Parsing), call.err # "other",
           NEW g \in GroupNumbers, NEW key \in {"OPT", "ARG", "ARGS"}, Hear(Groups[g], key),
           parser'.groups = Groups, argc' = argc,
           \/ parser'.args_processed = parser.args_processed
           \/ /\ key # "OPT" /\ Groups[g] \in WithParser
              /\ \E x \in Nat \ {0} :
                    parser'.args_processed = [parser.args_processed EXCEPT ![g] = x],
           call'.pc \in {"parse", "arg", "args", "finalize", "exited"},
           call'.err = "other" => call'.pc = "finalize" /\ Groups[g] \in WithParser,
           call'.pc = "arg" => call'.group \in 1 .. Len(Groups) + 1 /\ call'.index \in Nat,
           call'.pc = "args" => call'.group \in 1 .. Len(Groups) /\ call'.index \in Nat
    PROVE  Promised
<1>0. PICK a : a = Groups[g]
  OBVIOUS
<1>1. Groups' = Groups /\ GroupNumbers' = GroupNumbers
  BY DEF Groups, GroupNumbers
<1>2. /\ heard' \in [WithParser -> Keys]
      /\ \A b \in WithParser : heard'[b] = "absent" <=> b \notin Range(Groups)
      /\ \A j \in GroupNumbers : Groups[j] \in WithParser =>
             heard'[Groups[j]] = IF j = g THEN key ELSE heard[Groups[j]]
      /\ a \in WithParser => heard' = [heard EXCEPT ![a] = key]
      /\ a \notin WithParser => heard' = heard
  <2>1. key \in Keys \ {"absent"}
    BY DEF Keys
  <2> QED
    BY <1>0, <2>1, HearIs
<1>3. Len(Groups) \in Nat /\ GroupNumbers = 1 .. Len(Groups)
      /\ \A i, j \in GroupNumbers : Groups[i] = Groups[j] => i = j
  BY GroupsAre
<1>4. CallInv'
  <2>1. Heard(1, Len(Groups), Parsing)'
    BY <1>1, <1>2, <1>3 DEF Heard, Parsing
  <2>2. Phase'
    BY <1>1, <2>1 DEF Phase
  <2>3. call'.pc \in PCs
    BY DEF PCs
  <2>4. parser'.args_processed \in [GroupNumbers -> Nat]
    BY DEF CallInv
  <2> QED
    BY <1>1, <1>2, <2>2, <2>3, <2>4 DEF CallInv
<1>5. Calls!All(Parsing)
  BY AllHeard
<1>6. CASE a \notin WithParser
  <2>1. SameGroups /\ heard' = heard
    BY <1>0, <1>2, <1>6 DEF SameGroups
  <2>2. Heard(1, Len(Groups), Parsing \cup {"none"})
    BY DEF Heard
  <2>3. Calls!All(Parsing \cup {"none"})
    BY <2>2, AllHeard
  <2>4. Handled' = Handled
    BY <1>1, <2>1 DEF Handled, SameGroups
  <2>5. Calls!Read
    BY <1>0, <1>6, <2>1, <2>3, <2>4 DEF Calls!Read, Calls!Parsing, Parsing, Handled
  <2> QED
    BY <1>4, <2>5 DEF Promised, Calls!Next
<1>7. CASE a \in WithParser
  <2>1. a \in Calls!Present
    BY <1>0, <1>7, PresentAre
  <2>2. CASE parser'.args_processed = parser.args_processed
    <3>1. Handled' = Handled
      BY <1>1, <2>2 DEF Handled
    <3>2. Calls!Option(a) \/ Calls!Argument(a)
      BY <1>0, <1>2, <1>5, <1>7, <3>1
         DEF Calls!Option, Calls!Argument, Calls!Hear, Calls!Parsing, Parsing, Handled
    <3> QED
      BY <1>4, <2>1, <3>2 DEF Promised, Calls!Next
  <2>3. CASE key # "OPT" /\ \E x \in Nat \ {0} :
                 parser'.args_processed = [parser.args_processed EXCEPT ![g] = x]
    <3>1. PICK x \in Nat \ {0} : parser'.args_processed = [parser.args_processed EXCEPT ![g] = x]
      BY <2>3
    <3>2. /\ parser'.args_processed[g] = x
          /\ \A j \in GroupNumbers \ {g} : parser'.args_processed[j] = parser.args_processed[j]
      BY <3>1 DEF CallInv
    <3>3. Handled' = [Handled EXCEPT ![a] = TRUE]
      <4>1. \A b \in WithParser : (\E j \in GroupNumbers : Groups[j] = b /\ parser'.args_processed[j] > 0)
               <=> (b = a \/ \E j \in GroupNumbers : Groups[j] = b /\ parser.args_processed[j] > 0)
        BY <1>0, <1>3, <3>2
      <4>2. Handled' = [b \in WithParser |-> \E j \in GroupNumbers :
                            Groups[j] = b /\ parser'.args_processed[j] > 0]
        BY <1>1 DEF Handled
      <4> QED
        BY <4>1, <4>2, Zenon DEF Handled
    <3>4. Calls!Argument(a)
      BY <1>0, <1>2, <1>5, <1>7, <2>3, <3>3
         DEF Calls!Argument, Calls!Hear, Calls!Parsing, Parsing, Handled
    <3> QED
      BY <1>4, <2>1, <3>4 DEF Promised, Calls!Next
  <2> QED
    BY <2>2, <2>3
<1> QED
  BY <1>6, <1>7

(* What the operators on the struct leave alone.                           *)
LEMMA ResyncKeeps ==
    ASSUME NEW p, DOMAIN p = Fields
    PROVE  /\ DOMAIN Resync(p) = Fields /\ Resync(p).groups = p.groups
           /\ Resync(p).args_processed = p.args_processed /\ Resync(p).next = p.next
  BY DEF Resync, Fields

(* exchange permutes argv and leaves the groups alone.                     *)
LEMMA ExchangeKeeps ==
    ASSUME NEW p, DOMAIN p = Fields
    PROVE  /\ DOMAIN Exchange(p) = Fields /\ Exchange(p).groups = p.groups
           /\ Exchange(p).args_processed = p.args_processed
<1> DEFINE v == SwapSegments(p.argv, p.first_nonopt, p.last_nonopt, p.next)
<1>1. Exchange(p) = [p EXCEPT !.argv = v, !.first_nonopt = @ + p.next - p.last_nonopt,
                              !.last_nonopt = p.next]
  BY DEF Exchange
<1> HIDE DEF v
<1> QED
  BY <1>1 DEF Fields

(* A set of numbers has a least one.                                       *)
LEMMA LeastIs == ASSUME NEW T, T \subseteq Nat, T # {} PROVE \E x \in T : \A y \in T : x <= y
<1>1. PICK x \in T : \A y \in T : ~(<<y, x>> \in OpToRel(<, Nat))
  BY NatLessThanWellFounded, WFMin
<1>2. \A y \in T : ~(y < x)
  BY <1>1 DEF OpToRel
<1> QED
  BY <1>2

(* The first of some entries is one of them.                               *)
LEMMA FirstIs == ASSUME NEW E, E \subseteq Nat \X Nat, E # {} PROVE First(E) \in E
<1> DEFINE T == {e[1] : e \in E}
<1>1. T \subseteq Nat /\ T # {}
  BY Zenon
<1>2. PICK i \in T : \A y \in T : i <= y
  BY <1>1, LeastIs
<1> DEFINE U == {j \in Nat : <<i, j>> \in E}
<1>3. U \subseteq Nat /\ U # {}
  BY <1>2
<1> HIDE DEF U
<1>4. PICK j \in U : \A y \in U : j <= y
  BY <1>3, LeastIs
<1>5. <<i, j>> \in E /\ i \in Nat /\ j \in Nat
  BY <1>4 DEF U
<1>6. ASSUME NEW f \in E PROVE i < f[1] \/ (i = f[1] /\ j <= f[2])
  <2>1. f[1] \in Nat /\ f[2] \in Nat /\ f = <<f[1], f[2]>>
    OBVIOUS
  <2>2. i <= f[1]
    BY <1>2
  <2>3. f[1] = i => f[2] \in U
    BY <2>1 DEF U
  <2> QED
    BY <1>4, <1>5, <2>1, <2>2, <2>3
<1>7. \E e \in E : \A f \in E : e[1] < f[1] \/ (e[1] = f[1] /\ e[2] <= f[2])
  BY <1>5, <1>6
<1> QED
  BY <1>7 DEF First

(* An option that is found is one of a group.                              *)
LEMMA FoundIs ==
    ASSUME CallInv
    PROVE  /\ \A c : LET e == FindShortOption(Groups, c) IN e # Nowhere => e[1] \in GroupNumbers
           /\ \A text : LET e == FindLongOption(Groups, text) IN e # Nowhere => e[1] \in GroupNumbers
<1>1. Entries(Groups) \subseteq Nat \X Nat /\ \A e \in Entries(Groups) : e[1] \in GroupNumbers
  <2>1. ASSUME NEW g \in DOMAIN Groups, NEW e \in {g} \X DOMAIN Options(Groups[g])
        PROVE  e \in Nat \X Nat /\ e[1] \in GroupNumbers
    <3>1. Groups[g] \in DOMAIN Argps /\ g \in Nat /\ g \in GroupNumbers
      BY GroupsAre
    <3>2. DOMAIN Options(Groups[g]) \subseteq Nat
      BY <3>1, ArgpsAssumption DEF Options
    <3> QED
      BY <3>1, <3>2
  <2> QED
    BY <2>1 DEF Entries
<1>2. ASSUME NEW E \in SUBSET Entries(Groups), E # {} PROVE First(E)[1] \in GroupNumbers
  BY <1>1, <1>2, FirstIs
<1>3. ASSUME NEW c PROVE LET e == FindShortOption(Groups, c) IN e # Nowhere => e[1] \in GroupNumbers
  <2> DEFINE E == {e \in Entries(Groups) : Entry(Groups, e).key = c}
  <2>1. FindShortOption(Groups, c) = IF E = {} THEN Nowhere ELSE First(E)
    BY DEF FindShortOption
  <2>2. E \in SUBSET Entries(Groups)
    OBVIOUS
  <2> HIDE DEF E
  <2> QED
    BY <1>2, <2>1, <2>2
<1>4. ASSUME NEW text PROVE LET e == FindLongOption(Groups, text) IN e # Nowhere => e[1] \in GroupNumbers
  <2> DEFINE exact   == {e \in Entries(Groups) : MatchExact(text, Entry(Groups, e).name)}
             partial == {e \in Entries(Groups) : MatchPartial(text, Entry(Groups, e).name)}
             bases   == {<<e[1], OptionBase(Options(Groups[e[1]]), e[2])>> : e \in partial}
  <2>1. FindLongOption(Groups, text) = IF exact # {} THEN First(exact)
                                       ELSE IF Cardinality(bases) = 1 THEN First(partial)
                                       ELSE Nowhere
    BY DEF FindLongOption
  <2>2. exact \in SUBSET Entries(Groups) /\ partial \in SUBSET Entries(Groups)
    OBVIOUS
  <2>3. partial = {} => bases = {}
    OBVIOUS
  <2> HIDE DEF exact, partial, bases
  <2>4. partial = {} => Cardinality(bases) # 1
    BY <2>3, FS_EmptySet
  <2> QED
    BY <1>2, <2>1, <2>2, <2>4
<1> QED
  BY <1>3, <1>4
(* A struct that differs from parser in nothing the groups keep.           *)
Kept(p) == DOMAIN p = Fields /\ p.groups = Groups /\ p.args_processed = parser.args_processed

(* Where the parsing is: every parser function is there, none has failed.  *)
LEMMA ParsingIs ==
    ASSUME IndInv, CallInv, call.pc \in {"parse", "arg", "args"}
    PROVE  /\ Heard(1, Len(Groups), Parsing) /\ call.err # "other"
           /\ Kept(parser) /\ Kept(Resync(parser))
           /\ DOMAIN call = {"pc", "group", "index", "err", "arg_ebadkey"}
           /\ 1 \in 1 .. Len(Groups) + 1
<1>1. Kept(parser)
  BY DEF IndInv, Sound, Kept, Groups
<1>2. Kept(Resync(parser))
  BY <1>1, ResyncKeeps DEF Kept
<1> QED
  BY <1>1, <1>2, GroupsAre DEF IndInv, Offering, CallInv, Phase

(* An option is delivered.                                                 *)
LEMMA DeliverPromised ==
    ASSUME IndInv, CallInv, call.pc = "parse", argc' = argc,
           NEW p, Kept(p), NEW e, e[1] \in GroupNumbers, NEW id, NEW value,
           NEW c, DOMAIN c = DOMAIN call, c.pc = "parse", c.err = call.err,
           Deliver(p, e, id, value, c)
    PROVE  Promised
<1> DEFINE g   == e[1]
           key == Entry(Groups, e).key
<1>1. g \in GroupNumbers /\ Hear(Groups[g], "OPT")
  BY DEF Deliver
<1>2. /\ Heard(1, Len(Groups), Parsing) /\ call.err # "other"
      /\ DOMAIN call = {"pc", "group", "index", "err", "arg_ebadkey"}
  BY ParsingIs
<1>3. CASE parser' = p /\ call' = [call EXCEPT !.pc = "exited"]
  <2>1. parser'.groups = Groups /\ parser'.args_processed = parser.args_processed
    BY <1>3 DEF Kept
  <2>2. call'.pc = "exited" /\ call'.err = call.err
    BY <1>2, <1>3
  <2> HIDE DEF g
  <2> QED
    BY <1>1, <1>2, <2>1, <2>2, Offers
<1>4. ASSUME NEW ans \in OptionAnswers(Groups[g], key, p.next),
             parser' = [p EXCEPT !.next = ans[2]],
             call' = IF ans[1] = "ok" THEN c ELSE [c EXCEPT !.pc = "finalize", !.err = ans[1]]
      PROVE  Promised
  <2>1. parser'.groups = Groups /\ parser'.args_processed = parser.args_processed
    BY <1>4 DEF Kept, Fields
  <2>2. call'.pc \in {"parse", "finalize"} /\ (call'.err = "other" => call'.pc = "finalize" /\ ans[1] = "other")
    BY <1>2, <1>4
  <2>3. ans[1] = "other" => Groups[g] \in WithParser
    <3>1. CASE Groups[g] \notin WithParser
      <4>1. OptionAnswers(Groups[g], key, p.next) = {<<"EBADKEY", p.next>>}
        BY <1>1, <3>1, NoneAnswers
      <4> QED
        BY <1>4, <4>1
    <3> QED
      BY <3>1
  <2> HIDE DEF g
  <2> QED
    BY <1>1, <1>2, <2>1, <2>2, <2>3, Offers
<1> QED
  BY <1>3, <1>4 DEF Deliver
(* The steps that read words.                                              *)
Reading ==
    \/ ShortOption \/ OnlyArguments \/ AlmostDone \/ SkipArgument
    \/ StopAtArgument \/ ArgumentInOrder \/ Quote \/ LongOption \/ StartShort

(* Each of them moves on, or has an option delivered.                      *)
LEMMA ReadingPromised == ASSUME IndInv, CallInv, argc' = argc, Reading PROVE Promised
<1> DEFINE p == Resync(parser)
<1>1. call.pc = "parse"
  BY DEF Reading, ShortOption, OnlyArguments, AlmostDone, SkipArgument, StopAtArgument,
         ArgumentInOrder, Quote, LongOption, StartShort, Looking, ParseNext
<1>2. /\ Heard(1, Len(Groups), Parsing) /\ call.err # "other"
      /\ Kept(p) /\ 1 \in 1 .. Len(Groups) + 1
      /\ DOMAIN call = {"pc", "group", "index", "err", "arg_ebadkey"}
  BY <1>1, ParsingIs
<1>3. p.next \in Nat
  BY ResyncKeeps, <1>2 DEF IndInv, Sound
<1>4. ASSUME NEW q, Kept(q), parser' = q, heard' = heard,
             \/ call' = call
             \/ call' = [call EXCEPT !.arg_ebadkey = TRUE]
             \/ \E b \in BOOLEAN : call' = Stop(b)
             \/ call' = [call EXCEPT !.pc = "arg", !.group = 1, !.index = p.next, !.arg_ebadkey = TRUE]
      PROVE  Promised
  <2>1. /\ call'.pc \in {"parse", "arg", "finalize"} /\ call'.err # "other"
        /\ call'.pc = "arg" => call'.group \in 1 .. Len(Groups) + 1 /\ call'.index \in Nat
    BY <1>1, <1>2, <1>3, <1>4 DEF Stop
  <2>2. SameGroups
    BY <1>4 DEF SameGroups, Kept
  <2> QED
    BY <1>2, <1>4, <2>1, <2>2, MovesOn
<1>5. /\ DOMAIN GoOn = DOMAIN call /\ GoOn.pc = "parse" /\ GoOn.err = call.err
      /\ DOMAIN [GoOn EXCEPT !.arg_ebadkey = FALSE] = DOMAIN call
      /\ [GoOn EXCEPT !.arg_ebadkey = FALSE].pc = "parse"
      /\ [GoOn EXCEPT !.arg_ebadkey = FALSE].err = call.err
  BY <1>2 DEF GoOn
<1> HIDE DEF p
<1>6. CASE ShortOption
  <2> DEFINE rest == Tail(p.nextchar)
             e    == FindShortOption(Groups, Head(p.nextchar))
             id   == p.argv[p.next - 1]
             q    == [p EXCEPT !.nextchar = rest]
             r    == [p EXCEPT !.nextchar = <<>>]
             s    == [p EXCEPT !.nextchar = <<>>, !.next = @ + 1]
  <2>1. \/ Reject(q) \/ Reject(r)
        \/ e # Nowhere /\ \E d \in {q, r, s} : \E value : Deliver(d, e, id, value, GoOn)
    BY <1>6 DEF ShortOption, p
  <2>2. Kept(q) /\ Kept(r) /\ Kept(s)
    BY <1>2 DEF Kept, Fields
  <2>3. e # Nowhere => e[1] \in GroupNumbers
    BY FoundIs
  <2> HIDE DEF q, r, s, e, id
  <2>4. CASE Reject(q) \/ Reject(r)
    BY <1>4, <2>2, <2>4 DEF Reject
  <2>5. CASE e # Nowhere /\ \E d \in {q, r, s} : \E value : Deliver(d, e, id, value, GoOn)
    BY <1>1, <1>5, <2>2, <2>3, <2>5, DeliverPromised
  <2> QED
    BY <2>1, <2>4, <2>5
<1>7. CASE LongOption
  <2> DEFINE q  == [p EXCEPT !.next = @ + 1]
             r  == [q EXCEPT !.next = @ + 1]
             e  == FindLongOption(Groups, Word(p, p.next).text)
             id == p.argv[p.next]
             c  == [GoOn EXCEPT !.arg_ebadkey = FALSE]
  <2>1. \/ Reject(q)
        \/ e # Nowhere /\ \E d \in {q, r} : \E value : Deliver(d, e, id, value, c)
    BY <1>7 DEF LongOption, p
  <2>2. Kept(q) /\ Kept(r)
    BY <1>2 DEF Kept, Fields
  <2>3. e # Nowhere => e[1] \in GroupNumbers
    BY FoundIs
  <2>4. DOMAIN c = DOMAIN call /\ c.pc = "parse" /\ c.err = call.err
    BY <1>5
  <2> HIDE DEF q, r, e, id, c
  <2>5. CASE Reject(q)
    BY <1>4, <2>2, <2>5 DEF Reject
  <2>6. CASE e # Nowhere /\ \E d \in {q, r} : \E value : Deliver(d, e, id, value, c)
    BY <1>1, <2>2, <2>3, <2>4, <2>6, DeliverPromised
  <2> QED
    BY <2>1, <2>5, <2>6
<1>8. CASE OnlyArguments \/ ArgumentInOrder
  BY <1>2, <1>4, <1>8 DEF OnlyArguments, ArgumentInOrder, ParseArg, p
<1>9. CASE AlmostDone
  <2> DEFINE x == Exchange(p)
             q == [x EXCEPT !.next = x.first_nonopt, !.first_nonopt = 0,
                            !.last_nonopt = 0, !.args_only = TRUE]
  <2>1. /\ heard' = heard
        /\ \/ parser' = q /\ call' = [call EXCEPT !.arg_ebadkey = TRUE]
           \/ parser' = p /\ call' = Stop(TRUE)
    BY <1>9 DEF AlmostDone, p
  <2>2. Kept(x)
    BY <1>2, ExchangeKeeps DEF Kept
  <2> HIDE DEF x
  <2>3. Kept(q)
    BY <2>2 DEF Kept, Fields
  <2> HIDE DEF q
  <2> QED
    BY <1>2, <1>4, <2>1, <2>3
<1>10. CASE SkipArgument
  <2> DEFINE x == IF p.first_nonopt = p.last_nonopt
                  THEN [p EXCEPT !.first_nonopt = p.next, !.last_nonopt = p.next]
                  ELSE IF p.last_nonopt # p.next THEN Exchange(p)
                  ELSE p
             q == [x EXCEPT !.next = @ + 1, !.last_nonopt = x.next + 1]
  <2>1. heard' = heard /\ call' = call /\ parser' = q
    BY <1>10 DEF SkipArgument, p
  <2>2. Kept(x)
    BY <1>2, ExchangeKeeps DEF Kept, Fields
  <2> HIDE DEF x
  <2>3. Kept(q)
    BY <2>2 DEF Kept, Fields
  <2> HIDE DEF q
  <2> QED
    BY <1>4, <2>1, <2>3
<1>11. CASE StopAtArgument
  <2> DEFINE q == [p EXCEPT !.args_only = TRUE]
  <2>1. heard' = heard /\ call' = call /\ parser' = q
    BY <1>11 DEF StopAtArgument, p
  <2>2. Kept(q)
    BY <1>2 DEF Kept, Fields
  <2> HIDE DEF q
  <2> QED
    BY <1>4, <2>1, <2>2
<1>12. CASE Quote
  <2> DEFINE q == [p EXCEPT !.next = @ + 1]
             x == Exchange(q)
             y == [x EXCEPT !.next = x.first_nonopt, !.quoted = x.first_nonopt,
                            !.first_nonopt = 0, !.last_nonopt = 0, !.args_only = TRUE]
             z == [q EXCEPT !.quoted = q.next, !.args_only = TRUE]
  <2>1. heard' = heard /\ call' = call /\ (parser' = y \/ parser' = z)
    BY <1>12 DEF Quote, p
  <2>2. Kept(q)
    BY <1>2 DEF Kept, Fields
  <2>3. Kept(z)
    BY <1>2 DEF Kept, Fields
  <2> HIDE DEF q, z
  <2>4. Kept(x)
    BY <2>2, ExchangeKeeps DEF Kept
  <2> HIDE DEF x
  <2>5. Kept(y)
    BY <2>4 DEF Kept, Fields
  <2> HIDE DEF y
  <2> QED
    BY <1>4, <2>1, <2>3, <2>5
<1>13. CASE StartShort
  <2> DEFINE q == [p EXCEPT !.next = @ + 1, !.nextchar = Cluster(Word(p, p.next))]
  <2>1. heard' = heard /\ call' = call /\ parser' = q
    BY <1>13 DEF StartShort, p
  <2>2. Kept(q)
    BY <1>2 DEF Kept, Fields
  <2> HIDE DEF q
  <2> QED
    BY <1>4, <2>1, <2>2
<1> QED
  BY <1>6, <1>7, <1>8, <1>9, <1>10, <1>11, <1>12, <1>13 DEF Reading
(* A parser function answers to an argument, or to all that are left.      *)
LEMMA AnswerPromised ==
    ASSUME IndInv, CallInv, argc' = argc, call.pc \in {"arg", "args"}, call.group \in GroupNumbers,
           NEW key \in {"ARG", "ARGS"}, Hear(Groups[call.group], key),
           NEW next \in 0 .. argc,
           \/ call'.pc \in {"arg", "args"} /\ UNCHANGED parser
              /\ call'.err = call.err /\ call'.index = call.index
              /\ call'.group \in 1 .. Len(Groups) + 1 /\ (call'.pc = "args" => call'.group = call.group)
           \/ Groups[call.group] \in WithParser /\ Accept(call.group, next)
           \/ Groups[call.group] \in WithParser /\ Fail(next)
    PROVE  Promised
<1> DEFINE g == call.group
<1>1. /\ Heard(1, Len(Groups), Parsing) /\ call.err # "other" /\ Kept(parser)
      /\ DOMAIN call = {"pc", "group", "index", "err", "arg_ebadkey"}
  BY ParsingIs
<1>2. call.index \in Nat /\ argc \in Nat /\ parser.args_processed \in [GroupNumbers -> Nat]
      /\ GroupNumbers = 1 .. Len(Groups)
  BY GroupsAre DEF CallInv, Phase, IndInv
<1>3. g \in GroupNumbers /\ Hear(Groups[g], key) /\ key \in {"OPT", "ARG", "ARGS"} /\ key # "OPT"
  OBVIOUS
<1>4. CASE call'.pc \in {"arg", "args"} /\ UNCHANGED parser
              /\ call'.err = call.err /\ call'.index = call.index
              /\ call'.group \in 1 .. Len(Groups) + 1 /\ (call'.pc = "args" => call'.group = call.group)
  <2>1. parser'.groups = Groups /\ parser'.args_processed = parser.args_processed
    BY <1>4 DEF Groups
  <2>2. /\ call'.pc \in {"parse", "arg", "args", "finalize", "exited"} /\ call'.err # "other"
        /\ call'.pc = "arg" => call'.group \in 1 .. Len(Groups) + 1 /\ call'.index \in Nat
        /\ call'.pc = "args" => call'.group \in 1 .. Len(Groups) /\ call'.index \in Nat
    BY <1>1, <1>2, <1>4
  <2> HIDE DEF g
  <2> QED
    BY <1>1, <1>3, <2>1, <2>2, Offers
<1>5. CASE Groups[call.group] \in WithParser /\ Accept(call.group, next)
  <2> DEFINE x == parser.args_processed[g] + next - call.index
  <2>1. call'.pc = "parse" /\ call'.err = call.err
    BY <1>1, <1>5 DEF Accept, GoOn
  <2>2. parser'.groups = Groups
    BY <1>1, <1>5 DEF Accept, Kept, Fields
  <2>3. CASE next > call.index
    <3>1. x \in Nat \ {0}
      <4>1. PICK n, i : n = parser.args_processed[g] /\ i = call.index
        OBVIOUS
      <4>2. n \in Nat /\ i \in Nat /\ next \in Nat /\ next > i
        BY <1>2, <1>3, <2>3, <4>1
      <4>3. n + next - i \in Nat \ {0}
        BY <4>2
      <4> QED
        BY <4>1, <4>3
    <3>2. parser'.args_processed = [parser.args_processed EXCEPT ![g] = x]
      BY <1>1, <1>5, <2>3 DEF Accept, Kept, Fields
    <3> HIDE DEF g, x
    <3> QED
      BY <1>1, <1>3, <1>5, <2>1, <2>2, <3>1, <3>2, Offers DEF g
  <2>4. CASE ~(next > call.index)
    <3>1. parser'.args_processed = parser.args_processed
      BY <1>1, <1>5, <2>4 DEF Accept, Kept, Fields
    <3> HIDE DEF g
    <3> QED
      BY <1>1, <1>3, <2>1, <2>2, <3>1, Offers
  <2> QED
    BY <2>3, <2>4
<1>6. CASE Groups[call.group] \in WithParser /\ Fail(next)
  <2>1. parser'.groups = Groups /\ parser'.args_processed = parser.args_processed
    BY <1>1, <1>6 DEF Fail, Kept, Fields
  <2>2. call'.pc = "finalize" /\ call'.err = "other"
    BY <1>1, <1>6 DEF Fail
  <2> QED
    BY <1>1, <1>3, <1>6, <2>1, <2>2, Offers
<1> QED
  BY <1>4, <1>5, <1>6

(* parser_parse_arg: each group is offered the arguments in turn.          *)
LEMMA OfferPromised ==
    ASSUME IndInv, CallInv, argc' = argc, OfferArg \/ OfferArgs \/ NobodyTook
    PROVE  Promised
<1>1. call.pc \in {"arg", "args"}
  BY DEF OfferArg, OfferArgs, NobodyTook
<1>2. /\ Heard(1, Len(Groups), Parsing) /\ call.err # "other" /\ Kept(parser)
      /\ DOMAIN call = {"pc", "group", "index", "err", "arg_ebadkey"}
  BY <1>1, ParsingIs
<1>3. GroupNumbers = 1 .. Len(Groups) /\ Len(Groups) \in Nat /\ argc \in Nat /\ parser.next \in 0 .. argc - 1
  BY <1>1, GroupsAre DEF IndInv, Sound, Offering
<1>4. CASE OfferArg
  <2>1. call.group \in GroupNumbers /\ Hear(Groups[call.group], "ARG")
    BY <1>4 DEF OfferArg
  <2>2. PICK ans \in ArgumentAnswers(Groups[call.group], parser.next + 1) :
            \/ ans[1] = "EBADKEY" /\ call' = [call EXCEPT !.pc = "args"] /\ UNCHANGED parser
            \/ ans[1] = "ok" /\ Accept(call.group, ans[2])
            \/ ans[1] = "other" /\ Fail(ans[2])
    BY <1>4 DEF OfferArg
  <2>3. ans[2] \in 0 .. argc
    BY <1>3, ArgumentAnswerInside
  <2>4. ans[1] # "EBADKEY" => Groups[call.group] \in WithParser
    BY <2>1, NoneAnswers
  <2>5. CASE call' = [call EXCEPT !.pc = "args"] /\ UNCHANGED parser
    <3>1. /\ call'.err = call.err /\ call'.index = call.index
          /\ call'.group \in 1 .. Len(Groups) + 1 /\ call'.group = call.group
          /\ call'.pc \in {"arg", "args"}
      BY <1>2, <1>3, <2>1, <2>5
    <3> QED
      BY <1>1, <2>1, <2>3, <2>5, <3>1, AnswerPromised
  <2> QED
    BY <1>1, <2>1, <2>2, <2>3, <2>4, <2>5, AnswerPromised
<1>5. CASE OfferArgs
  <2>1. call.pc = "args" /\ Hear(Groups[call.group], "ARGS")
    BY <1>5 DEF OfferArgs
  <2>2. call.group \in GroupNumbers
    BY <1>3, <2>1 DEF CallInv, Phase
  <2>3. PICK err \in Answers(Groups[call.group]) :
            \/ err = "EBADKEY" /\ call' = [call EXCEPT !.pc = "arg", !.group = @ + 1] /\ UNCHANGED parser
            \/ err = "ok" /\ Accept(call.group, argc)
            \/ err = "other" /\ Fail(parser.next)
    BY <1>5 DEF OfferArgs
  <2>4. err # "EBADKEY" => Groups[call.group] \in WithParser
    BY <2>2, NoneAnswers
  <2>5. CASE call' = [call EXCEPT !.pc = "arg", !.group = @ + 1] /\ UNCHANGED parser
    <3>1. /\ call'.err = call.err /\ call'.index = call.index
          /\ call'.group \in 1 .. Len(Groups) + 1
          /\ call'.pc = "arg"
      BY <1>2, <1>3, <2>2, <2>5
    <3>2. argc \in 0 .. argc
      BY <1>3
    <3> QED
      BY <1>1, <2>1, <2>2, <2>5, <3>1, <3>2, AnswerPromised
  <2>6. argc \in 0 .. argc /\ parser.next \in 0 .. argc
    BY <1>3
  <2> QED
    BY <1>1, <2>1, <2>2, <2>3, <2>4, <2>5, <2>6, AnswerPromised
<1>6. CASE NobodyTook
  <2>1. call'.pc = "finalize" /\ call'.err # "other"
    BY <1>2, <1>6 DEF NobodyTook, Stop
  <2>2. SameGroups /\ heard' = heard
    BY <1>6 DEF NobodyTook, SameGroups, Groups
  <2> QED
    BY <1>2, <2>1, <2>2, MovesOn
<1> QED
  BY <1>4, <1>5, <1>6
----------------------------------------------------------------------------
(* The loops over the groups.                                              *)

(* Nobody hears anything.                                                  *)
LEMMA SilencePromised ==
    ASSUME CallInv, parser' = parser, argc' = argc, heard' = heard,
           (call'.err = "other") <=> (call.err = "other"), call'.pc \in PCs, Phase'
    PROVE  Promised
<1>1. Groups' = Groups /\ GroupNumbers' = GroupNumbers /\ Handled' = Handled
  BY DEF Groups, GroupNumbers, Handled
<1>2. CallInv'
  BY <1>1 DEF CallInv
<1>3. (call'.err = "other") = (call.err = "other")
  BY Zenon
<1>4. UNCHANGED Calls!vars
  BY <1>1, <1>3 DEF Calls!vars, Handled
<1> QED
  BY <1>2, <1>4 DEF Promised

(* What an argp without a parser function does not hear, ArgpCalls does    *)
(* not see; otherwise the parser function is called there.                 *)
LEMMA TurnPromised ==
    ASSUME CallInv, NEW g \in GroupNumbers, NEW key \in Keys \ {"absent"}, Hear(Groups[g], key),
           parser' = parser, argc' = argc, call'.pc \in PCs, Phase',
           Groups[g] \notin WithParser => ((call'.err = "other") <=> (call.err = "other")),
           Groups[g] \in WithParser => Calls!Next
    PROVE  Promised
<1>1. Groups' = Groups /\ GroupNumbers' = GroupNumbers
  BY DEF Groups, GroupNumbers
<1>2. CASE Groups[g] \notin WithParser
  BY <1>2, HearIs, SilencePromised
<1>3. CASE Groups[g] \in WithParser
  <2>1. CallInv'
    BY <1>1, HearIs DEF CallInv
  <2> QED
    BY <1>3, <2>1 DEF Promised
<1> QED
  BY <1>2, <1>3
(* What TurnPromised asks for, about a turn of a loop for group g.         *)
LEMMA TurnIs ==
    ASSUME CallInv, NEW g \in GroupNumbers, NEW key \in Keys \ {"absent"}, Hear(Groups[g], key),
           parser' = parser, argc' = argc,
           NEW a, a = Groups[g], (call'.err = "other") \in {(call.err = "other"), TRUE}
    PROVE  /\ Groups' = Groups /\ GroupNumbers' = GroupNumbers /\ Len(Groups) \in Nat
           /\ GroupNumbers = 1 .. Len(Groups)
           /\ \A j \in 1 .. Len(Groups) : Groups[j] \in WithParser =>
                  heard'[Groups[j]] = IF j = g THEN key ELSE heard[Groups[j]]
           /\ a \in WithParser =>
                 a \in Calls!Present /\ Calls!Hear(a, key) /\ Handled' = Handled
                 /\ (parser'.next # argc') = (parser.next # argc)
<1>1. Groups' = Groups /\ GroupNumbers' = GroupNumbers
  BY DEF Groups, GroupNumbers
<1>2. GroupNumbers = 1 .. Len(Groups) /\ Len(Groups) \in Nat
  BY GroupsAre
<1>3. \A j \in GroupNumbers : Groups[j] \in WithParser =>
          heard'[Groups[j]] = IF j = g THEN key ELSE heard[Groups[j]]
  BY HearIs
<1>4. a \in WithParser => heard' = [heard EXCEPT ![a] = key]
  BY HearIs
<1>5. a \in WithParser => a \in Calls!Present
  BY PresentAre
<1>6. Handled' = Handled
  BY <1>1 DEF Handled
<1> QED
  BY <1>1, <1>2, <1>3, <1>4, <1>5, <1>6 DEF Calls!Hear
(* Parents hear INIT before their children.                                *)
LEMMA InitGroupPromised == ASSUME IndInv, CallInv, argc' = argc, InitGroup PROVE Promised
<1>1. PICK g \in GroupNumbers : g = call.group
  BY DEF InitGroup
<1>2. PICK a : a = Groups[g]
  OBVIOUS
<1>3. PICK err \in Answers(a) :
          call' = IF err = "other" THEN [call EXCEPT !.pc = "done", !.err = err]
                                   ELSE [call EXCEPT !.group = @ + 1]
  BY <1>1, <1>2 DEF InitGroup
<1>4. /\ Hear(Groups[g], "INIT") /\ parser' = parser /\ call.pc = "init"
      /\ "INIT" \in Keys \ {"absent"}
  BY <1>1 DEF InitGroup, Keys
<1>5. call.err = "ok" /\ Heard(1, g - 1, {"INIT"}) /\ Heard(g, Len(Groups), {"none"})
  BY <1>1, <1>4 DEF CallInv, Phase
<1>6. /\ DOMAIN call = {"pc", "group", "index", "err", "arg_ebadkey"}
      /\ call'.pc \in {"init", "done"} /\ (call'.err = "other" <=> err = "other")
      /\ (call'.pc = "init" => call'.group = g + 1 /\ call'.err = "ok")
  BY <1>1, <1>3, <1>4, <1>5 DEF IndInv, Offering
<1>7. (call'.err = "other") \in {(call.err = "other"), TRUE}
  BY <1>5, Zenon
<1>8. /\ Groups' = Groups /\ GroupNumbers' = GroupNumbers /\ Len(Groups) \in Nat
      /\ GroupNumbers = 1 .. Len(Groups)
      /\ \A j \in 1 .. Len(Groups) : Groups[j] \in WithParser =>
             heard'[Groups[j]] = IF j = g THEN "INIT" ELSE heard[Groups[j]]
      /\ a \in WithParser =>
            a \in Calls!Present /\ Calls!Hear(a, "INIT") /\ Handled' = Handled
            /\ (parser'.next # argc') = (parser.next # argc)
  BY <1>2, <1>4, <1>7, TurnIs
<1>9. Phase'
  <2>1. /\ \A j \in 1 .. g : Groups[j] \in WithParser => heard'[Groups[j]] = "INIT"
        /\ \A j \in g + 1 .. Len(Groups) : Groups[j] \in WithParser => heard'[Groups[j]] = "none"
    BY <1>5, <1>8 DEF Heard
  <2> QED
    BY <1>6, <1>8, <2>1 DEF Phase, Heard
<1>10. call'.pc \in PCs
  BY <1>6 DEF PCs
<1>11. a \notin WithParser => ((call'.err = "other") <=> (call.err = "other"))
  BY <1>2, <1>3, <1>5, <1>6, NoneAnswers
<1>12. a \in WithParser => Calls!Next
  <2> SUFFICES ASSUME a \in WithParser PROVE Calls!Next
    OBVIOUS
  <2>1. heard[a] = "none"
    BY <1>2, <1>5, <1>8 DEF Heard
  <2>2. ASSUME NEW b \in Calls!Present,
               <<b, a>> \in {e \in WithParser \X WithParser : Parent(e[1], e[2])}
        PROVE  heard[b] = "INIT"
    <3>1. PICK j \in GroupNumbers : Groups[j] = b
      BY PresentAre
    <3>2. Parent(Groups[j], Groups[g]) /\ b \in WithParser
      BY <1>2, <2>2, <3>1
    <3>3. j < g
      BY <3>2, GroupsAre DEF CallInv, InPreorder
    <3>4. j \in 1 .. g - 1
      BY <1>8, <3>3
    <3> QED
      BY <1>5, <3>1, <3>2, <3>4 DEF Heard
  <2>3. Calls!Begin(a)
    BY <1>5, <1>8, <2>1, <2>2 DEF Calls!Begin, Handled
  <2> QED
    BY <1>8, <2>3 DEF Calls!Next
<1> QED
  BY <1>2, <1>4, <1>9, <1>10, <1>11, <1>12, TurnPromised
(* NO_ARGS is for those who have processed no argument.                    *)
LEMMA NoArgsPromised == ASSUME IndInv, CallInv, argc' = argc, NoArgs PROVE Promised
<1>1. PICK g \in GroupNumbers : g = call.group
  BY DEF NoArgs
<1>2. PICK a : a = Groups[g]
  OBVIOUS
<1>3. call.pc = "no_args" /\ parser' = parser
  BY DEF NoArgs, Turn
<1>4. /\ call.err = "ok" /\ parser.next = argc
      /\ Heard(1, Len(Groups), Parsing \cup {"NO_ARGS"}) /\ Heard(g, Len(Groups), Parsing)
      /\ ToldNoArgs(g - 1)
      /\ DOMAIN call = {"pc", "group", "index", "err", "arg_ebadkey"}
      /\ parser.args_processed \in [GroupNumbers -> Nat]
  BY <1>1, <1>3 DEF CallInv, Phase, IndInv, Offering
<1>5. /\ Len(Groups) \in Nat /\ GroupNumbers = 1 .. Len(Groups)
      /\ \A i, j \in GroupNumbers : Groups[i] = Groups[j] => i = j
  BY GroupsAre
<1>6. CASE parser.args_processed[g] = 0 /\ Turn("NO_ARGS", 1, ErrorLoop("other"))
  <2>1. PICK err \in Answers(a) :
            call' = IF err = "other" THEN ErrorLoop("other") ELSE [call EXCEPT !.group = @ + 1]
    BY <1>1, <1>2, <1>6 DEF Turn
  <2>2. Hear(Groups[g], "NO_ARGS") /\ "NO_ARGS" \in Keys \ {"absent"}
    BY <1>1, <1>6 DEF Turn, Keys
  <2>3. \/ call'.pc = "no_args" /\ call'.group = g + 1 /\ call'.err = "ok"
        \/ call'.pc = "error" /\ call'.group = 1 /\ err = "other"
    BY <1>1, <1>3, <1>4, <2>1 DEF ErrorLoop
  <2>4. (call'.err = "other") \in {(call.err = "other"), TRUE}
    BY <1>4, Zenon
  <2>5. /\ Groups' = Groups /\ GroupNumbers' = GroupNumbers
        /\ \A j \in 1 .. Len(Groups) : Groups[j] \in WithParser =>
               heard'[Groups[j]] = IF j = g THEN "NO_ARGS" ELSE heard[Groups[j]]
        /\ a \in WithParser =>
              a \in Calls!Present /\ Calls!Hear(a, "NO_ARGS") /\ Handled' = Handled
              /\ (parser'.next # argc') = (parser.next # argc)
    BY <1>2, <1>3, <2>2, <2>4, TurnIs
  <2>6. Phase'
    <3>1. /\ \A j \in 1 .. Len(Groups) : Groups[j] \in WithParser => heard'[Groups[j]] \in Parsing \cup {"NO_ARGS"}
          /\ \A j \in g + 1 .. Len(Groups) : Groups[j] \in WithParser => heard'[Groups[j]] \in Parsing
          /\ \A j \in 1 .. g : Groups[j] \in WithParser /\ parser.args_processed[j] = 0
                                   => heard'[Groups[j]] = "NO_ARGS"
      BY <1>4, <1>5, <2>5 DEF Heard, ToldNoArgs
    <3>2. CASE call'.pc = "no_args" /\ call'.group = g + 1 /\ call'.err = "ok"
      BY <1>3, <1>4, <1>5, <2>5, <3>1, <3>2 DEF Phase, Heard, ToldNoArgs
    <3>3. CASE call'.pc = "error" /\ call'.group = 1
      BY <1>5, <2>5, <3>1, <3>3 DEF Phase, Heard, Unfinished
    <3> QED
      BY <2>3, <3>2, <3>3
  <2>7. call'.pc \in PCs
    BY <2>3 DEF PCs
  <2>8. a \notin WithParser => ((call'.err = "other") <=> (call.err = "other"))
    BY <1>2, <1>4, <2>1, <2>3, NoneAnswers
  <2>9. a \in WithParser => Calls!Next
    <3> SUFFICES ASSUME a \in WithParser PROVE Calls!Next
      OBVIOUS
    <3>1. Calls!All(Calls!Parsing \cup {"NO_ARGS"})
      BY <1>4, AllHeard DEF Parsing, Calls!Parsing
    <3>2. heard[a] # "NO_ARGS"
      BY <1>2, <1>4, <1>5 DEF Heard, Parsing
    <3>3. ~Handled[a]
      BY <1>2, <1>5, <1>6 DEF Handled
    <3>4. Calls!NoArgs(a)
      BY <1>4, <2>5, <3>1, <3>2, <3>3 DEF Calls!NoArgs, Handled
    <3> QED
      BY <2>5, <3>4 DEF Calls!Next
  <2> QED
    BY <1>2, <1>3, <2>2, <2>6, <2>7, <2>8, <2>9, TurnPromised
<1>7. CASE /\ parser.args_processed[g] # 0
           /\ call' = [call EXCEPT !.group = @ + 1] /\ heard' = heard
  <2>1. call'.pc = "no_args" /\ call'.group = g + 1 /\ call'.err = "ok"
    BY <1>1, <1>3, <1>4, <1>7
  <2>2. Groups' = Groups
    BY <1>3 DEF Groups
  <2>3. ToldNoArgs(g) /\ Heard(g + 1, Len(Groups), Parsing)
    BY <1>4, <1>5, <1>7 DEF ToldNoArgs, Heard
  <2>4. Phase'
    BY <1>3, <1>4, <1>5, <1>7, <2>1, <2>2, <2>3 DEF Phase, Heard, ToldNoArgs
  <2>5. call'.pc \in PCs /\ ((call'.err = "other") <=> (call.err = "other"))
    BY <1>4, <2>1 DEF PCs
  <2> QED
    BY <1>3, <1>7, <2>4, <2>5, SilencePromised
<1> QED
  BY <1>1, <1>6, <1>7 DEF NoArgs

(* END comes after NO_ARGS, from children to parents.                      *)
LEMMA EndPromised == ASSUME IndInv, CallInv, argc' = argc, End PROVE Promised
<1>1. PICK g \in GroupNumbers : g = call.group
  BY DEF End
<1>2. PICK a : a = Groups[g]
  OBVIOUS
<1>3. call.pc = "end" /\ parser' = parser
  BY DEF End, Turn
<1>4. /\ call.err = "ok" /\ parser.next = argc
      /\ Heard(1, g, Parsing \cup {"NO_ARGS"}) /\ Heard(g + 1, Len(Groups), {"END"}) /\ ToldNoArgs(g)
      /\ DOMAIN call = {"pc", "group", "index", "err", "arg_ebadkey"}
      /\ parser.args_processed \in [GroupNumbers -> Nat]
  BY <1>1, <1>3 DEF CallInv, Phase, IndInv, Offering
<1>5. /\ Len(Groups) \in Nat /\ GroupNumbers = 1 .. Len(Groups)
      /\ \A i, j \in GroupNumbers : Groups[i] = Groups[j] => i = j
  BY GroupsAre
<1>6. PICK err \in Answers(a) :
          call' = IF err = "other" THEN ErrorLoop("other") ELSE [call EXCEPT !.group = @ + -1]
  BY <1>1, <1>2 DEF End, Turn
<1>7. Hear(Groups[g], "END") /\ "END" \in Keys \ {"absent"}
  BY <1>1 DEF End, Turn, Keys
<1>8. \/ call'.pc = "end" /\ call'.group = g - 1 /\ call'.err = "ok"
      \/ call'.pc = "error" /\ call'.group = 1 /\ err = "other"
  BY <1>1, <1>3, <1>4, <1>5, <1>6 DEF ErrorLoop
<1>9. (call'.err = "other") \in {(call.err = "other"), TRUE}
  BY <1>4, Zenon
<1>10. /\ Groups' = Groups /\ GroupNumbers' = GroupNumbers
       /\ \A j \in 1 .. Len(Groups) : Groups[j] \in WithParser =>
              heard'[Groups[j]] = IF j = g THEN "END" ELSE heard[Groups[j]]
       /\ a \in WithParser =>
             a \in Calls!Present /\ Calls!Hear(a, "END") /\ Handled' = Handled
             /\ (parser'.next # argc') = (parser.next # argc)
  BY <1>2, <1>3, <1>7, <1>9, TurnIs
<1>11. Phase'
  <2>1. /\ \A j \in 1 .. g - 1 : Groups[j] \in WithParser => heard'[Groups[j]] \in Parsing \cup {"NO_ARGS"}
        /\ \A j \in g .. Len(Groups) : Groups[j] \in WithParser => heard'[Groups[j]] = "END"
        /\ \A j \in 1 .. g - 1 : Groups[j] \in WithParser /\ parser.args_processed[j] = 0
                                     => heard'[Groups[j]] = "NO_ARGS"
    BY <1>4, <1>5, <1>10 DEF Heard, ToldNoArgs
  <2>2. CASE call'.pc = "end" /\ call'.group = g - 1 /\ call'.err = "ok"
    BY <1>3, <1>4, <1>5, <1>10, <2>1, <2>2 DEF Phase, Heard, ToldNoArgs
  <2>3. CASE call'.pc = "error" /\ call'.group = 1
    BY <1>5, <1>10, <2>1, <2>3 DEF Phase, Heard, Unfinished
  <2> QED
    BY <1>8, <2>2, <2>3
<1>12. call'.pc \in PCs
  BY <1>8 DEF PCs
<1>13. a \notin WithParser => ((call'.err = "other") <=> (call.err = "other"))
  BY <1>2, <1>4, <1>6, <1>8, NoneAnswers
<1>14. a \in WithParser => Calls!Next
  <2> SUFFICES ASSUME a \in WithParser PROVE Calls!Next
    OBVIOUS
  <2>1. Heard(1, Len(Groups), Parsing \cup {"NO_ARGS", "END"})
    BY <1>4, <1>5 DEF Heard
  <2>2. Calls!All(Calls!Parsing \cup {"NO_ARGS", "END"})
    BY <2>1, AllHeard DEF Parsing, Calls!Parsing
  <2>3. heard[a] # "END"
    BY <1>2, <1>4, <1>5 DEF Heard, Parsing
  <2>4. ASSUME NEW b \in Calls!Present, ~Handled[b] PROVE heard[b] \in {"NO_ARGS", "END"}
    <3>1. PICK j \in GroupNumbers : Groups[j] = b /\ b \in WithParser
      BY PresentAre
    <3>2. parser.args_processed[j] = 0
      <4>1. parser.args_processed[j] \in Nat
        BY <1>4
      <4> QED
        BY <2>4, <3>1, <4>1 DEF Handled
    <3>3. j \in 1 .. g \/ j \in g + 1 .. Len(Groups)
      BY <1>5
    <3> QED
      BY <1>4, <3>1, <3>2, <3>3 DEF ToldNoArgs, Heard
  <2>5. Calls!ChildrenHeard(a, "END")
    BY <1>2, <1>4, ChildrenHeard
  <2>6. Calls!End(a)
    BY <1>4, <1>10, <2>2, <2>3, <2>4, <2>5 DEF Calls!End, Handled
  <2> QED
    BY <1>10, <2>6 DEF Calls!Next
<1> QED
  BY <1>2, <1>3, <1>7, <1>11, <1>12, <1>13, <1>14, TurnPromised
(* SUCCESS comes after END, or when words are left over.                   *)
LEMMA SuccessPromised == ASSUME IndInv, CallInv, argc' = argc, Success PROVE Promised
<1>1. PICK g \in GroupNumbers : g = call.group
  BY DEF Success
<1>2. PICK a : a = Groups[g]
  OBVIOUS
<1>3. call.pc = "success" /\ parser' = parser
  BY DEF Success, Turn
<1> DEFINE before == IF parser.next # argc THEN Parsing ELSE {"END"}
<1>4. /\ call.err = "ok" /\ Heard(1, g, before) /\ Heard(g + 1, Len(Groups), {"SUCCESS"})
      /\ DOMAIN call = {"pc", "group", "index", "err", "arg_ebadkey"}
  BY <1>1, <1>3 DEF CallInv, Phase, IndInv, Offering
<1>5. Len(Groups) \in Nat /\ GroupNumbers = 1 .. Len(Groups)
  BY GroupsAre
<1>6. PICK err \in Answers(a) :
          call' = IF err = "other" THEN [call EXCEPT !.pc = "fini", !.group = Len(Groups), !.err = "other"]
                  ELSE [call EXCEPT !.group = @ + -1]
  BY <1>1, <1>2 DEF Success, Turn
<1>7. Hear(Groups[g], "SUCCESS") /\ "SUCCESS" \in Keys \ {"absent"}
  BY <1>1 DEF Success, Turn, Keys
<1>8. \/ call'.pc = "success" /\ call'.group = g - 1 /\ call'.err = "ok"
      \/ call'.pc = "fini" /\ call'.group = Len(Groups) /\ call'.err = "other" /\ err = "other"
  BY <1>1, <1>3, <1>4, <1>5, <1>6
<1>9. (call'.err = "other") \in {(call.err = "other"), TRUE}
  BY <1>4, Zenon
<1>10. /\ Groups' = Groups /\ GroupNumbers' = GroupNumbers
       /\ \A j \in 1 .. Len(Groups) : Groups[j] \in WithParser =>
              heard'[Groups[j]] = IF j = g THEN "SUCCESS" ELSE heard[Groups[j]]
       /\ a \in WithParser =>
             a \in Calls!Present /\ Calls!Hear(a, "SUCCESS") /\ Handled' = Handled
             /\ (parser'.next # argc') = (parser.next # argc)
  BY <1>2, <1>3, <1>7, <1>9, TurnIs
<1>11. err = "other" => a \in WithParser
  BY <1>2, NoneAnswers
<1>12. Phase'
  <2>1. /\ \A j \in 1 .. g - 1 : Groups[j] \in WithParser => heard'[Groups[j]] \in before
        /\ \A j \in g .. Len(Groups) : Groups[j] \in WithParser => heard'[Groups[j]] = "SUCCESS"
    BY <1>4, <1>5, <1>10 DEF Heard
  <2>2. CASE call'.pc = "success" /\ call'.group = g - 1 /\ call'.err = "ok"
    BY <1>3, <1>4, <1>5, <1>10, <2>1, <2>2 DEF Phase, Heard
  <2>3. CASE call'.pc = "fini" /\ call'.group = Len(Groups) /\ call'.err = "other" /\ err = "other"
    <3>1. \A j \in 1 .. Len(Groups) : Groups[j] \in WithParser =>
              heard'[Groups[j]] \in Unfinished \cup {"SUCCESS", "ERROR"}
      BY <1>5, <2>1 DEF Unfinished
    <3>2. g \in GroupNumbers /\ Groups[g] \in WithParser /\ heard'[Groups[g]] = "SUCCESS"
      BY <1>2, <1>5, <1>11, <2>1, <2>3
    <3>3. Verdict(Len(Groups))'
      BY <1>10, <2>3, <3>2 DEF Verdict
    <3> QED
      BY <1>5, <1>10, <2>3, <3>1, <3>3 DEF Phase, Heard, Verdict
  <2> QED
    BY <1>8, <2>2, <2>3
<1>13. call'.pc \in PCs
  BY <1>8 DEF PCs
<1>14. a \notin WithParser => ((call'.err = "other") <=> (call.err = "other"))
  BY <1>4, <1>8, <1>11
<1>15. a \in WithParser => Calls!Next
  <2> SUFFICES ASSUME a \in WithParser PROVE Calls!Next
    OBVIOUS
  <2>1. /\ parser.next # argc => Heard(1, Len(Groups), Parsing \cup {"SUCCESS"})
        /\ ~(parser.next # argc) => Heard(1, Len(Groups), {"END", "SUCCESS"})
    BY <1>4, <1>5 DEF Heard
  <2>2. IF parser.next # argc THEN Calls!All(Calls!Parsing \cup {"SUCCESS"}) ELSE Calls!All({"END", "SUCCESS"})
    BY <2>1, AllHeard DEF Parsing, Calls!Parsing
  <2>3. heard[a] # "SUCCESS"
    BY <1>2, <1>4, <1>5 DEF Heard, Parsing
  <2>4. Calls!ChildrenHeard(a, "SUCCESS")
    BY <1>2, <1>4, ChildrenHeard
  <2>5. Calls!Success(a)
    BY <1>4, <1>10, <2>2, <2>3, <2>4 DEF Calls!Success, Handled
  <2> QED
    BY <1>10, <2>5 DEF Calls!Next
<1> QED
  BY <1>2, <1>3, <1>7, <1>12, <1>13, <1>14, <1>15, TurnPromised

(* ERROR comes instead of SUCCESS.                                         *)
LEMMA ErrorPromised == ASSUME IndInv, CallInv, argc' = argc, Error PROVE Promised
<1>1. PICK g \in GroupNumbers : g = call.group
  BY DEF Error
<1>2. PICK a : a = Groups[g]
  OBVIOUS
<1>3. /\ call.pc = "error" /\ parser' = parser /\ call' = [call EXCEPT !.group = @ + 1]
      /\ Hear(Groups[g], "ERROR") /\ "ERROR" \in Keys \ {"absent"}
  BY <1>1 DEF Error, Keys
<1>4. /\ Heard(1, g - 1, {"ERROR"}) /\ Heard(g, Len(Groups), Unfinished)
      /\ DOMAIN call = {"pc", "group", "index", "err", "arg_ebadkey"}
  BY <1>1, <1>3 DEF CallInv, Phase, IndInv, Offering
<1>5. Len(Groups) \in Nat /\ GroupNumbers = 1 .. Len(Groups)
  BY GroupsAre
<1>6. call'.pc = "error" /\ call'.group = g + 1 /\ call'.err = call.err
  BY <1>1, <1>3, <1>4
<1>7. (call'.err = "other") \in {(call.err = "other"), TRUE}
  BY <1>6, Zenon
<1>8. /\ Groups' = Groups /\ GroupNumbers' = GroupNumbers
      /\ \A j \in 1 .. Len(Groups) : Groups[j] \in WithParser =>
             heard'[Groups[j]] = IF j = g THEN "ERROR" ELSE heard[Groups[j]]
      /\ a \in WithParser =>
            a \in Calls!Present /\ Calls!Hear(a, "ERROR") /\ Handled' = Handled
            /\ (parser'.next # argc') = (parser.next # argc)
  BY <1>2, <1>3, <1>7, TurnIs
<1>9. Phase'
  <2>1. /\ \A j \in 1 .. g : Groups[j] \in WithParser => heard'[Groups[j]] = "ERROR"
        /\ \A j \in g + 1 .. Len(Groups) : Groups[j] \in WithParser => heard'[Groups[j]] \in Unfinished
    BY <1>4, <1>5, <1>8 DEF Heard
  <2> QED
    BY <1>5, <1>6, <1>8, <2>1 DEF Phase, Heard
<1>10. call'.pc \in PCs
  BY <1>6 DEF PCs
<1>11. a \in WithParser => Calls!Next
  <2> SUFFICES ASSUME a \in WithParser PROVE Calls!Next
    OBVIOUS
  <2>1. Heard(1, Len(Groups), Parsing \cup {"NO_ARGS", "END", "ERROR"})
    BY <1>4, <1>5 DEF Heard, Unfinished
  <2>2. Calls!All(Calls!Parsing \cup {"NO_ARGS", "END", "ERROR"})
    BY <2>1, AllHeard DEF Parsing, Calls!Parsing
  <2>3. heard[a] # "ERROR"
    BY <1>2, <1>4, <1>5 DEF Heard, Unfinished, Parsing
  <2>4. Calls!Error(a)
    BY <1>8, <2>2, <2>3 DEF Calls!Error, Handled
  <2> QED
    BY <1>8, <2>4 DEF Calls!Next
<1> QED
  BY <1>2, <1>3, <1>6, <1>9, <1>10, <1>11, TurnPromised

(* FINI comes after the verdict, from children to parents.                 *)
LEMMA FinishPromised == ASSUME IndInv, CallInv, argc' = argc, Finish PROVE Promised
<1>1. PICK g \in GroupNumbers : g = call.group
  BY DEF Finish
<1>2. PICK a : a = Groups[g]
  OBVIOUS
<1>3. /\ call.pc = "fini" /\ parser' = parser /\ call' = [call EXCEPT !.group = @ - 1]
      /\ Hear(Groups[g], "FINI") /\ "FINI" \in Keys \ {"absent"}
  BY <1>1 DEF Finish, Keys
<1> DEFINE before == Unfinished \cup {"SUCCESS", "ERROR"}
<1>4. /\ Heard(1, g, before) /\ Heard(g + 1, Len(Groups), {"FINI"}) /\ Verdict(g)
      /\ DOMAIN call = {"pc", "group", "index", "err", "arg_ebadkey"}
  BY <1>1, <1>3 DEF CallInv, Phase, IndInv, Offering
<1>5. Len(Groups) \in Nat /\ GroupNumbers = 1 .. Len(Groups)
  BY GroupsAre
<1>6. call'.pc = "fini" /\ call'.group = g - 1 /\ call'.err = call.err
  BY <1>1, <1>3, <1>4
<1>7. (call'.err = "other") \in {(call.err = "other"), TRUE}
  BY <1>6, Zenon
<1>8. /\ Groups' = Groups /\ GroupNumbers' = GroupNumbers
      /\ \A j \in 1 .. Len(Groups) : Groups[j] \in WithParser =>
             heard'[Groups[j]] = IF j = g THEN "FINI" ELSE heard[Groups[j]]
      /\ a \in WithParser =>
            a \in Calls!Present /\ Calls!Hear(a, "FINI") /\ Handled' = Handled
            /\ (parser'.next # argc') = (parser.next # argc)
  BY <1>2, <1>3, <1>7, TurnIs
<1>9. Phase'
  <2>1. /\ \A j \in 1 .. g - 1 : Groups[j] \in WithParser => heard'[Groups[j]] \in before
        /\ \A j \in g .. Len(Groups) : Groups[j] \in WithParser => heard'[Groups[j]] = "FINI"
    <3>1. PICK n : n = Len(Groups)
      OBVIOUS
    <3>2. n \in Nat /\ g \in 1 .. n
      BY <1>1, <1>5, <3>1
    <3>3. /\ \A j \in 1 .. g - 1 : j \in 1 .. g /\ j \in 1 .. n /\ j # g
          /\ \A j \in g .. n : j \in 1 .. n /\ (j # g => j \in g + 1 .. n)
      BY <3>2
    <3>4. ASSUME NEW j \in 1 .. g - 1, Groups[j] \in WithParser PROVE heard'[Groups[j]] \in before
      BY <1>4, <1>8, <3>1, <3>3, <3>4 DEF Heard
    <3>5. ASSUME NEW j \in g .. Len(Groups), Groups[j] \in WithParser
          PROVE  heard'[Groups[j]] = "FINI"
      BY <1>4, <1>8, <3>1, <3>3, <3>5 DEF Heard
    <3> QED
      BY <3>4, <3>5
  <2>2. \/ \A j \in 1 .. g - 1 : Groups[j] \in WithParser => heard'[Groups[j]] = "ERROR"
        \/ \A j \in 1 .. g - 1 : Groups[j] \in WithParser => heard'[Groups[j]] = "SUCCESS"
        \/ call'.err = "other" /\ \E j \in GroupNumbers : Groups[j] \in WithParser /\ heard'[Groups[j]] \in {"SUCCESS", "FINI"}
    <3>1. CASE Heard(1, g, {"ERROR"})
      BY <1>5, <1>8, <3>1 DEF Heard
    <3>2. CASE Heard(1, g, {"SUCCESS"})
      BY <1>5, <1>8, <3>2 DEF Heard
    <3>3. CASE call.err = "other" /\ \E j \in GroupNumbers : Groups[j] \in WithParser /\ heard[Groups[j]] \in {"SUCCESS", "FINI"}
      BY <1>5, <1>6, <1>8, <3>3
    <3> QED
      BY <1>4, <3>1, <3>2, <3>3 DEF Verdict
  <2> HIDE DEF before
  <2> QED
    BY <1>5, <1>6, <1>8, <2>1, <2>2 DEF Phase, Heard, Verdict, before
<1>10. call'.pc \in PCs
  BY <1>6 DEF PCs
<1>11. a \in WithParser => Calls!Next
  <2> SUFFICES ASSUME a \in WithParser PROVE Calls!Next
    OBVIOUS
  <2>1. \/ Calls!All({"ERROR", "FINI"}) \/ Calls!All({"SUCCESS", "FINI"})
        \/ call.err = "other" /\ \E b \in Calls!Present : heard[b] \in {"SUCCESS", "FINI"}
    <3>1. CASE Heard(1, g, {"ERROR"})
      <4>1. Heard(1, Len(Groups), {"ERROR", "FINI"})
        BY <1>4, <1>5, <3>1 DEF Heard
      <4> QED
        BY <4>1, AllHeard
    <3>2. CASE Heard(1, g, {"SUCCESS"})
      <4>1. Heard(1, Len(Groups), {"SUCCESS", "FINI"})
        BY <1>4, <1>5, <3>2 DEF Heard
      <4> QED
        BY <4>1, AllHeard
    <3>3. CASE call.err = "other" /\ \E j \in GroupNumbers : Groups[j] \in WithParser /\ heard[Groups[j]] \in {"SUCCESS", "FINI"}
      <4>1. PICK j \in GroupNumbers : Groups[j] \in WithParser /\ heard[Groups[j]] \in {"SUCCESS", "FINI"}
        BY <3>3
      <4>2. PICK b : b = Groups[j]
        OBVIOUS
      <4>3. b \in Calls!Present
        BY <4>1, <4>2, PresentAre
      <4> QED
        BY <3>3, <4>1, <4>2, <4>3
    <3> QED
      BY <1>4, <3>1, <3>2, <3>3 DEF Verdict
  <2>2. heard[a] # "FINI"
    BY <1>2, <1>4, <1>5 DEF Heard, Unfinished, Parsing
  <2>3. Calls!ChildrenHeard(a, "FINI")
    BY <1>2, <1>4, ChildrenHeard
  <2>4. Calls!Finish(a)
    BY <1>8, <2>1, <2>2, <2>3 DEF Calls!Finish, Handled
  <2> QED
    BY <1>8, <2>4 DEF Calls!Next
<1> QED
  BY <1>2, <1>3, <1>6, <1>9, <1>10, <1>11, TurnPromised
(* All have heard INIT when the parsing begins.                            *)
LEMMA InitialisedPromised == ASSUME IndInv, CallInv, argc' = argc, Initialised PROVE Promised
<1>1. /\ call.pc = "init" /\ call.group \notin GroupNumbers /\ heard' = heard
      /\ parser' = [parser EXCEPT !.next = Start] /\ call' = [call EXCEPT !.pc = "parse"]
  BY DEF Initialised
<1>2. /\ DOMAIN call = {"pc", "group", "index", "err", "arg_ebadkey"}
      /\ call.err = "ok" /\ call.group \in 1 .. Len(Groups) + 1 /\ Heard(1, call.group - 1, {"INIT"})
  BY <1>1 DEF CallInv, Phase, IndInv, Offering
<1>3. call.group = Len(Groups) + 1
  BY <1>1, <1>2, GroupsAre
<1>4. Heard(1, Len(Groups), Parsing) /\ call.err # "other"
  BY <1>2, <1>3, GroupsAre DEF Heard, Parsing
<1>5. SameGroups
  BY <1>1 DEF SameGroups, Groups, IndInv, Sound, Fields
<1>6. call'.pc = "parse" /\ call'.err # "other"
  BY <1>1, <1>2
<1> QED
  BY <1>1, <1>4, <1>5, <1>6, MovesOn

(* Parser_finalize chooses a loop by what was parsed.                      *)
LEMMA FinalizePromised == ASSUME IndInv, CallInv, argc' = argc, Finalize PROVE Promised
<1>1. call.pc = "finalize" /\ parser' = parser /\ heard' = heard
  BY DEF Finalize
<1>2. /\ DOMAIN call = {"pc", "group", "index", "err", "arg_ebadkey"}
      /\ Heard(1, Len(Groups), Parsing)
  BY <1>1 DEF CallInv, Phase, IndInv, Offering
<1>3. Groups' = Groups /\ Len(Groups) \in Nat
  BY <1>1, GroupsAre DEF Groups
<1>4. \/ call.err # "other" /\ parser.next = argc /\ call' = Loop("no_args", 1)
      \/ call.err # "other" /\ parser.next # argc /\ call' = Loop("success", Len(Groups))
      \/ call' = [call EXCEPT !.pc = "exited"]
      \/ \E bad : call' = ErrorLoop(bad) /\ (bad = "other" <=> call.err = "other")
  BY DEF Finalize
<1>5. CASE call.err # "other" /\ parser.next = argc /\ call' = Loop("no_args", 1)
  <2>1. call'.pc = "no_args" /\ call'.group = 1 /\ call'.err = "ok"
    BY <1>2, <1>5 DEF Loop
  <2>2. Phase'
    BY <1>1, <1>2, <1>3, <1>5, <2>1 DEF Phase, Heard, ToldNoArgs
  <2>3. call'.pc \in PCs /\ ((call'.err = "other") <=> (call.err = "other"))
    BY <1>5, <2>1 DEF PCs
  <2> QED
    BY <1>1, <2>2, <2>3, SilencePromised
<1>6. CASE call.err # "other" /\ parser.next # argc /\ call' = Loop("success", Len(Groups))
  <2>1. call'.pc = "success" /\ call'.group = Len(Groups) /\ call'.err = "ok"
    BY <1>2, <1>6 DEF Loop
  <2>2. Phase'
    BY <1>1, <1>2, <1>3, <1>6, <2>1 DEF Phase, Heard
  <2>3. call'.pc \in PCs /\ ((call'.err = "other") <=> (call.err = "other"))
    BY <1>6, <2>1 DEF PCs
  <2> QED
    BY <1>1, <2>2, <2>3, SilencePromised
<1>7. CASE call' = [call EXCEPT !.pc = "exited"]
  <2>1. call'.pc = "exited" /\ call'.err = call.err
    BY <1>2, <1>7
  <2>2. Phase' /\ call'.pc \in PCs
    BY <2>1 DEF Phase, PCs
  <2> QED
    BY <1>1, <2>1, <2>2, SilencePromised
<1>8. ASSUME NEW bad, call' = ErrorLoop(bad), bad = "other" <=> call.err = "other" PROVE Promised
  <2>1. call'.pc = "error" /\ call'.group = 1 /\ call'.err = bad
    BY <1>2, <1>8 DEF ErrorLoop
  <2>2. Phase'
    BY <1>1, <1>2, <1>3, <2>1 DEF Phase, Heard, Unfinished
  <2>3. call'.pc \in PCs /\ ((call'.err = "other") <=> (call.err = "other"))
    BY <1>8, <2>1 DEF PCs
  <2> QED
    BY <1>1, <2>2, <2>3, SilencePromised
<1> QED
  BY <1>4, <1>5, <1>6, <1>7, <1>8

(* A loop ends with all groups told.                                       *)
LEMMA LoopEndsPromised == ASSUME IndInv, CallInv, argc' = argc, LoopEnds PROVE Promised
<1> DEFINE n == Len(Groups)
<1>1. parser' = parser /\ heard' = heard /\ call.group \notin GroupNumbers
  BY DEF LoopEnds
<1>2. Groups' = Groups /\ n \in Nat /\ GroupNumbers = 1 .. n
  BY <1>1, GroupsAre DEF Groups
<1>3. Phase /\ DOMAIN call = {"pc", "group", "index", "err", "arg_ebadkey"}
  BY DEF CallInv, IndInv, Offering
<1>4. CASE call.pc = "no_args" /\ call' = Loop("end", n)
  <2>1. call'.pc = "end" /\ call'.group = n /\ call'.err = "ok" /\ call.err = "ok"
    BY <1>3, <1>4 DEF Loop, Phase
  <2>2. parser.next = argc /\ Heard(1, n, Parsing \cup {"NO_ARGS"}) /\ ToldNoArgs(n)
    BY <1>1, <1>2, <1>3, <1>4 DEF Phase, ToldNoArgs
  <2>3. Phase'
    BY <1>1, <1>2, <2>1, <2>2 DEF Phase, Heard, ToldNoArgs
  <2>4. call'.pc \in PCs /\ ((call'.err = "other") <=> (call.err = "other"))
    BY <2>1 DEF PCs
  <2> QED
    BY <1>1, <2>3, <2>4, SilencePromised
<1>5. CASE call.pc = "end" /\ call' = Loop("success", n)
  <2>1. call'.pc = "success" /\ call'.group = n /\ call'.err = "ok" /\ call.err = "ok"
    BY <1>3, <1>5 DEF Loop, Phase
  <2>2. parser.next = argc /\ Heard(1, n, {"END"})
    <3>1. call.group = 0
      BY <1>1, <1>2, <1>3, <1>5 DEF Phase
    <3> QED
      BY <1>3, <1>5, <3>1 DEF Phase, Heard
  <2>3. Phase'
    BY <1>1, <1>2, <2>1, <2>2 DEF Phase, Heard
  <2>4. call'.pc \in PCs /\ ((call'.err = "other") <=> (call.err = "other"))
    BY <2>1 DEF PCs
  <2> QED
    BY <1>1, <2>3, <2>4, SilencePromised
<1>6. CASE call.pc \in {"success", "error"} /\ call' = [call EXCEPT !.pc = "fini", !.group = n]
  <2>1. call'.pc = "fini" /\ call'.group = n /\ call'.err = call.err
    BY <1>3, <1>6
  <2>2. Heard(1, n, {"SUCCESS"}) \/ Heard(1, n, {"ERROR"})
    <3>1. CASE call.pc = "success"
      <4>1. call.group = 0
        BY <1>1, <1>2, <1>3, <3>1 DEF Phase
      <4> QED
        BY <1>3, <3>1, <4>1 DEF Phase, Heard
    <3>2. CASE call.pc = "error"
      <4>1. call.group = n + 1
        BY <1>1, <1>2, <1>3, <3>2 DEF Phase
      <4> QED
        BY <1>2, <1>3, <3>2, <4>1 DEF Phase, Heard
    <3> QED
      BY <1>6, <3>1, <3>2
  <2>3. Phase'
    BY <1>1, <1>2, <2>1, <2>2 DEF Phase, Heard, Verdict
  <2>4. call'.pc \in PCs /\ ((call'.err = "other") <=> (call.err = "other"))
    BY <2>1 DEF PCs
  <2> QED
    BY <1>1, <2>3, <2>4, SilencePromised
<1>7. CASE call.pc = "fini"
           /\ call' = [call EXCEPT !.pc = "done", !.err = IF @ = "EBADKEY" THEN "EINVAL" ELSE @]
  <2>1. call'.pc = "done" /\ ((call'.err = "other") <=> (call.err = "other"))
    BY <1>3, <1>7
  <2>2. Phase' /\ call'.pc \in PCs
    BY <2>1 DEF Phase, PCs
  <2> QED
    BY <1>1, <2>1, <2>2, SilencePromised
<1> QED
  BY <1>4, <1>5, <1>6, <1>7 DEF LoopEnds

----------------------------------------------------------------------------
(* A call of argp_parse begins with nobody called.                         *)
LEMMA InitPromised == Init => CallInv /\ Calls!Init
<1> SUFFICES ASSUME Init PROVE CallInv /\ Calls!Init
  OBVIOUS
<1>1. PICK case, groups, argv :
          /\ case \in Cases /\ groups = ConvertOptions[Root(case)]
          /\ parser = [groups |-> groups, args_processed |-> [g \in DOMAIN groups |-> 0],
                       argv |-> argv, next |-> 0, quoted |-> 0,
                       args_only |-> FALSE, first_nonopt |-> 0, last_nonopt |-> 0,
                       nextchar |-> <<>>]
  BY DEF Init
<1>2. Groups = groups /\ InPreorder(Groups) /\ parser.args_processed = [g \in DOMAIN groups |-> 0]
  BY <1>1, TreeAssumption DEF Groups
<1>3. /\ DOMAIN Groups = GroupNumbers /\ Len(Groups) \in Nat /\ GroupNumbers = 1 .. Len(Groups)
      /\ \A j \in GroupNumbers : Groups[j] \in DOMAIN Argps
      /\ Range(Groups) = {Groups[j] : j \in GroupNumbers}
  BY <1>2 DEF InPreorder, GroupNumbers, Range
<1>4. /\ heard = [a \in WithParser |-> IF a \in Range(Groups) THEN "none" ELSE "absent"]
      /\ call.pc = "init" /\ call.group = 1 /\ call.err = "ok"
  BY DEF Init
<1>5. heard \in [WithParser -> {"absent", "none"}]
      /\ \A a \in WithParser : heard[a] = "absent" <=> a \notin Range(Groups)
  BY <1>4
<1>6. \A j \in GroupNumbers : Groups[j] \in WithParser => heard[Groups[j]] = "none"
  BY <1>3, <1>4
<1>7. Phase
  BY <1>3, <1>4, <1>6 DEF Phase, Heard
<1>8. CallInv
  BY <1>2, <1>3, <1>4, <1>5, <1>7 DEF CallInv, Keys, PCs
<1>9. Calls!Init
  <2>1. Handled = [a \in WithParser |-> FALSE]
    <3>1. \A g \in GroupNumbers : ~(parser.args_processed[g] > 0)
      BY <1>2, <1>3
    <3> QED
      BY <3>1, Zenon DEF Handled
  <2>2. (parser.next # argc) \in BOOLEAN /\ (call.err = "other") = FALSE
    BY <1>4
  <2> QED
    BY <1>5, <2>1, <2>2 DEF Calls!Init, Handled
<1> QED
  BY <1>8, <1>9

(* argv keeps its length.                                                  *)
LEMMA ArgcStays == [Next]_vars => argc' = argc
<1>1. [Next]_vars => words' = words
  BY DEF Next, vars, InitGroup, Initialised, ShortOption, OnlyArguments, AlmostDone, SkipArgument,
         StopAtArgument, ArgumentInOrder, Quote, LongOption, StartShort, OfferArg, OfferArgs,
         NobodyTook, Finalize, NoArgs, End, Success, Error, Finish, LoopEnds, Turn, Looking, ParseNext
<1> QED
  BY <1>1 DEF argc

(* Every step keeps the invariant and is one that argp.h allows.           *)
LEMMA StepPromised == IndInv /\ CallInv /\ [Next]_vars => Promised
<1> SUFFICES ASSUME IndInv, CallInv, [Next]_vars PROVE Promised
  OBVIOUS
<1>1. argc' = argc
  BY ArgcStays
<1>2. CASE UNCHANGED vars
  <2>1. parser' = parser /\ call' = call /\ heard' = heard
    BY <1>2 DEF vars
  <2>2. Groups' = Groups
    BY <2>1 DEF Groups
  <2>3. Phase'
    BY <1>1, <2>1, <2>2 DEF CallInv, Phase, Heard, ToldNoArgs, Verdict, GroupNumbers
  <2> QED
    BY <1>1, <2>1, <2>3, SilencePromised DEF CallInv
<1>3. CASE Reading
  BY <1>1, <1>3, ReadingPromised
<1>4. CASE OfferArg \/ OfferArgs \/ NobodyTook
  BY <1>1, <1>4, OfferPromised
<1>5. CASE InitGroup \/ Initialised \/ Finalize \/ LoopEnds
  BY <1>1, <1>5, InitGroupPromised, InitialisedPromised, FinalizePromised, LoopEndsPromised
<1>6. CASE NoArgs \/ End \/ Success \/ Error \/ Finish
  BY <1>1, <1>6, NoArgsPromised, EndPromised, SuccessPromised, ErrorPromised, FinishPromised
<1> QED
  BY <1>2, <1>3, <1>4, <1>5, <1>6 DEF Next, Reading

(* The parser functions of a program hear the special keys in the order    *)
(* argp.h promises: INIT from parents to children, then options and        *)
(* arguments, NO_ARGS only where no argument was processed, END, SUCCESS   *)
(* and FINI from children to parents, ERROR instead of SUCCESS when        *)
(* argp_parse fails (parser_init, parser_finalize, argp-parse.c).          *)
THEOREM CallsKept == Spec => CallsSpec
<1>1. Spec => []IndInv
  BY AlwaysSound
<1>2. IndInv /\ CallInv /\ [Next]_vars => CallInv'
  BY StepPromised DEF Promised
<1>3. Spec => []CallInv
  BY InitPromised, <1>1, <1>2, PTL DEF Spec
<1>4. IndInv /\ CallInv /\ [Next]_vars => [Calls!Next]_(Calls!vars)
  BY StepPromised DEF Promised
<1> QED
  BY InitPromised, <1>1, <1>3, <1>4, PTL DEF Spec, CallsSpec, Calls!Spec
===============================================================================
