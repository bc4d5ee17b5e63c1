------------------------------- MODULE Getopt -------------------------------
(***************************************************************************)
(* getopt_long of lib/getopt.c as parse_args calls it: it scans argv for   *)
(* options and permutes it on the way, so that parse_args finds all        *)
(* operands behind the options.                                            *)
(*                                                                         *)
(* An element of argv is what it looks like to getopt_long: a word (also a *)
(* lone "-"), "--", a long option with or without a text behind "=", or a  *)
(* group of short options with or without a text behind the last.  What    *)
(* argv holds is the original place of each element.                       *)
(***************************************************************************)
EXTENDS Integers, Sequences

CONSTANT ArgVectors   \* the vectors considered, without the program name

VARIABLES
  args,           \* the elements, in the order they were given
  ordering,       \* REQUIRE_ORDER when POSIXLY_CORRECT is set
  argv,           \* the permuted vector
  optind,         \* the next element to be scanned
  first_nonopt,   \* where the operands passed over begin
  last_nonopt,    \* ... and the place behind them
  nextchar,       \* the next option of the group that is scanned, or 0
  step,             \* scan, exchange, skip, look, rest, done
  return_to,      \* where to go on after exchange
  bottom, top,    \* the segments that exchange still has to swap
  delivered       \* what parse_args has been given

scanVars     == <<args, ordering, delivered>>
segmentVars  == <<return_to, bottom, top>>
getoptVars   == <<args, ordering, argv, optind, first_nonopt, last_nonopt, nextchar,
                  step, return_to, bottom, top, delivered>>

(* options and long_options of parse_args *)
ShortPlain    == {"V", "v", "r", "u", "-"}
ShortRequired == {"w", "h", "i", "p", "f", "s"}
LongPlain     == {"H", "V", "v", "r", "u"}
LongRequired  == {"w", "h", "i", "p", "f", "s"}
LongOptional  == {"P"}
Unknown       == "?"     \* no option, or the beginning of several

Arg ==
       [kind : {"word", "--"}]
  \cup [kind : {"long"}, c : LongPlain \cup LongRequired \cup LongOptional \cup {Unknown},
        text : BOOLEAN]
  \cup { g \in [kind : {"short"}, cs : Seq(ShortPlain \cup ShortRequired \cup {Unknown}),
                text : BOOLEAN] :
           /\ g.cs # <<>> /\ g.cs[1] # "-"
           /\ \A k \in 1..Len(g.cs) - 1 : g.cs[k] \notin ShortRequired
           /\ g.text => g.cs[Len(g.cs)] \in ShortRequired }

ASSUME ArgVectorsConstant == ArgVectors \subseteq Seq(Arg)

argc == Len(args) + 1
Places == 1..Len(args)

(* The element at a place of the permuted vector. *)
At(k) == args[argv[k]]

GetoptTypeOK ==
  /\ args \in ArgVectors
  /\ ordering \in {"PERMUTE", "REQUIRE_ORDER"}
  /\ argv \in [Places -> Places]
  /\ optind \in 1..argc
  /\ first_nonopt \in 1..argc /\ last_nonopt \in 1..argc
  /\ nextchar \in Nat
  /\ step \in {"scan", "exchange", "skip", "look", "rest", "done"}
  /\ return_to \in {"skip", "rest"}
  /\ bottom \in 1..argc /\ top \in 1..argc

GetoptInit ==
  /\ args \in ArgVectors
  /\ ordering \in {"PERMUTE", "REQUIRE_ORDER"}
  /\ argv = [k \in Places |-> k]
  /\ optind = 1
  /\ first_nonopt = 1 /\ last_nonopt = 1
  /\ nextchar = 0
  /\ step = "scan" /\ return_to = "skip"
  /\ bottom = 1 /\ top = 1
  /\ delivered = <<>>

-----------------------------------------------------------------------------
(* exchange *)
middle == last_nonopt

StartExchange(end, then) ==
  /\ bottom' = first_nonopt /\ top' = end
  /\ return_to' = then
  /\ step' = "exchange"

Exchanging == step = "exchange" /\ top > middle /\ middle > bottom

(* Mutant of Swapped: tem is forgotten. *)
SwappedCopy(a, b, len) ==
  [k \in Places |-> IF k \in a..a + len - 1 THEN argv[b + (k - a)] ELSE argv[k]]

(* len elements from a on and from b on change places. *)
Swapped(a, b, len) ==
  [k \in Places |-> IF k \in a..a + len - 1 THEN argv[b + (k - a)]
                    ELSE IF k \in b..b + len - 1 THEN argv[a + (k - b)]
                    ELSE argv[k]]

(* Mutant of SwapBottom: the short segment goes next to the other one. *)
SwapBottomNear ==
  /\ Exchanging /\ top - middle > middle - bottom
  /\ argv' = Swapped(bottom, middle, middle - bottom)
  /\ top' = top - (middle - bottom)
  /\ UNCHANGED <<scanVars, optind, first_nonopt, last_nonopt, nextchar, step,
                 return_to, bottom>>

(* Mutant of SwapTop: the segments are swapped once and for all. *)
SwapTopStuck ==
  /\ Exchanging /\ ~ (top - middle > middle - bottom)
  /\ argv' = Swapped(bottom, middle, top - middle)
  /\ UNCHANGED <<scanVars, optind, first_nonopt, last_nonopt, nextchar, step,
                 return_to, bottom, top>>

(* The bottom segment is the short one and goes to the far end. *)
SwapBottom ==
  /\ Exchanging /\ top - middle > middle - bottom
  /\ argv' = Swapped(bottom, top - (middle - bottom), middle - bottom)
  /\ top' = top - (middle - bottom)
  /\ UNCHANGED <<scanVars, optind, first_nonopt, last_nonopt, nextchar, step,
                 return_to, bottom>>

(* The top segment is the short one. *)
SwapTop ==
  /\ Exchanging /\ ~ (top - middle > middle - bottom)
  /\ argv' = Swapped(bottom, middle, top - middle)
  /\ bottom' = bottom + (top - middle)
  /\ UNCHANGED <<scanVars, optind, first_nonopt, last_nonopt, nextchar, step,
                 return_to, top>>

EndExchange ==
  /\ step = "exchange" /\ ~ Exchanging
  /\ first_nonopt' = first_nonopt + (optind - last_nonopt)
  /\ last_nonopt' = optind
  /\ step' = return_to
  /\ UNCHANGED <<scanVars, argv, optind, nextchar, segmentVars>>

-----------------------------------------------------------------------------
(* A call of getopt_long at the beginning of an element.  The indices of the *)
(* operands are never ahead of optind, as parse_args does not move it back.  *)
Advance ==
  /\ step = "scan" /\ nextchar = 0
  /\ IF ordering = "PERMUTE" /\ first_nonopt # last_nonopt /\ last_nonopt # optind
       THEN StartExchange(optind, "skip") /\ UNCHANGED first_nonopt
       ELSE /\ first_nonopt' = IF ordering = "PERMUTE" /\ last_nonopt # optind
                                 THEN optind ELSE first_nonopt
            /\ step' = IF ordering = "PERMUTE" THEN "skip" ELSE "look"
            /\ UNCHANGED segmentVars
  /\ UNCHANGED <<scanVars, argv, optind, last_nonopt, nextchar>>

(* All words from optind on are passed over. *)
SkipOperands ==
  /\ step = "skip"
  /\ \E k \in optind..argc :
       /\ \A j \in optind..k - 1 : At(j).kind = "word"
       /\ IF k = argc THEN TRUE ELSE At(k).kind # "word"
       /\ optind' = k /\ last_nonopt' = k
  /\ step' = "look"
  /\ UNCHANGED <<scanVars, argv, first_nonopt, nextchar, segmentVars>>

(* Mutant of Dashes: the operands begin at the end of the vector and "--" is  *)
(* counted twice.                                                            *)
DashesTwice ==
  /\ step = "look" /\ optind # argc /\ At(optind).kind = "--"
  /\ optind' = optind + 1
  /\ IF first_nonopt # last_nonopt
       THEN StartExchange(optind + 2, "rest") /\ UNCHANGED first_nonopt
       ELSE first_nonopt' = optind + 1 /\ step' = "rest" /\ UNCHANGED segmentVars
  /\ UNCHANGED <<scanVars, argv, last_nonopt, nextchar>>

(* "--" is passed over like an option, and nothing behind it is an option. *)
Dashes ==
  /\ step = "look" /\ optind # argc /\ At(optind).kind = "--"
  /\ optind' = optind + 1
  /\ IF first_nonopt # last_nonopt
       THEN StartExchange(optind + 1, "rest") /\ UNCHANGED first_nonopt
       ELSE first_nonopt' = optind + 1 /\ step' = "rest" /\ UNCHANGED segmentVars
  /\ UNCHANGED <<scanVars, argv, last_nonopt, nextchar>>

Rest ==
  /\ step = "rest"
  /\ last_nonopt' = argc
  /\ optind' = argc
  /\ step' = "look"
  /\ UNCHANGED <<scanVars, argv, first_nonopt, nextchar, segmentVars>>

(* -1, with optind at the operands that were passed over. *)
NoMore ==
  /\ step = "look" /\ optind = argc
  /\ optind' = IF first_nonopt # last_nonopt THEN first_nonopt ELSE optind
  /\ step' = "done"
  /\ UNCHANGED <<scanVars, argv, first_nonopt, last_nonopt, nextchar, segmentVars>>

(* -1 at the first word, when words are not passed over. *)
StopAtOperand ==
  /\ step = "look" /\ optind # argc /\ At(optind).kind = "word"
  /\ ordering = "REQUIRE_ORDER"
  /\ step' = "done"
  /\ UNCHANGED <<scanVars, argv, optind, first_nonopt, last_nonopt, nextchar,
                 segmentVars>>

-----------------------------------------------------------------------------
(* What a call returns: the option, the place its element came from, and the *)
(* place its argument came from, which is the same for a text behind the     *)
(* option and 0 for none.                                                    *)
Item(c, from, arg) == [c |-> c, from |-> from, arg |-> arg]

Deliver(item) ==
  /\ delivered' = Append(delivered, item)
  /\ step' = "scan"
  /\ UNCHANGED <<args, ordering, argv, first_nonopt, last_nonopt, segmentVars>>

(* An option that needs an argument and has none behind it takes the next    *)
(* element, whatever that is, or is not delivered at all.                    *)
DeliverWithNext(c) ==
  IF optind + 1 < argc
    THEN Deliver(Item(c, argv[optind], argv[optind + 1])) /\ optind' = optind + 2
    ELSE Deliver(Item(Unknown, argv[optind], 0)) /\ optind' = optind + 1

LongOption ==
  /\ step = "look" /\ optind # argc /\ At(optind).kind = "long"
  /\ LET c    == At(optind).c
         text == At(optind).text
         from == argv[optind]
     IN  IF c \in LongRequired /\ ~ text
           THEN DeliverWithNext(c)
         ELSE /\ optind' = optind + 1
              /\ Deliver(CASE c = Unknown \/ (c \in LongPlain /\ text) ->
                                Item(Unknown, from, 0)
                           [] OTHER -> Item(c, from, IF text THEN from ELSE 0))
  /\ UNCHANGED nextchar

(* Mutant of ShortOption: the element is left with the first of its options. *)
ShortOptionAlone ==
  /\ \/ step = "look" /\ optind # argc /\ At(optind).kind = "short" /\ nextchar = 0
     \/ step = "scan" /\ nextchar # 0
  /\ LET c == At(optind).cs[1]
     IN  Deliver(Item(c, argv[optind], 0)) /\ optind' = optind + 1 /\ nextchar' = 0

(* One option of a group; the call begins in the middle of it for all but    *)
(* the first.                                                                *)
ShortOption ==
  /\ \/ step = "look" /\ optind # argc /\ At(optind).kind = "short" /\ nextchar = 0
     \/ step = "scan" /\ nextchar # 0
  /\ LET group == At(optind)
         k     == IF nextchar = 0 THEN 1 ELSE nextchar
         c     == group.cs[k]
         from  == argv[optind]
     IN  IF c \in ShortRequired
           THEN /\ nextchar' = 0
                /\ IF group.text
                     THEN Deliver(Item(c, from, from)) /\ optind' = optind + 1
                     ELSE DeliverWithNext(c)
         ELSE /\ Deliver(Item(c, from, 0))
              /\ IF k = Len(group.cs) THEN optind' = optind + 1 /\ nextchar' = 0
                                      ELSE nextchar' = k + 1 /\ UNCHANGED optind

GetoptNext ==
  \/ Advance \/ SkipOperands \/ Dashes \/ Rest \/ NoMore \/ StopAtOperand
  \/ SwapBottom \/ SwapTop \/ EndExchange \/ LongOption \/ ShortOption

GetoptSpec == GetoptInit /\ [][GetoptNext]_getoptVars

(* parse_args calls until it is given -1, with "?" too. *)
GetoptFairSpec == GetoptSpec /\ WF_getoptVars(GetoptNext)

-----------------------------------------------------------------------------
(* The reference: what each element is, read from left to right without      *)
(* moving anything.                                                          *)
TakesNext(a) ==
  \/ a.kind = "long" /\ a.c \in LongRequired /\ ~ a.text
  \/ a.kind = "short" /\ a.cs[Len(a.cs)] \in ShortRequired /\ ~ a.text

Role[k \in 0..Len(args)] ==
  IF k = 0 THEN "none"
  ELSE LET before == Role[k - 1]
       IN  CASE \/ before \in {"dashes", "after"}
                \/ before = "operand" /\ ordering = "REQUIRE_ORDER" -> "after"
             [] before = "option" /\ TakesNext(args[k - 1]) -> "argument"
             [] OTHER -> IF args[k].kind = "word" THEN "operand"
                         ELSE IF args[k].kind = "--" THEN "dashes" ELSE "option"

ItemsOf(k) ==
  LET a    == args[k]
      next == IF k < Len(args) THEN k + 1 ELSE 0
      AtEnd(c) == IF a.text THEN Item(c, k, k)
                  ELSE IF next # 0 THEN Item(c, k, next) ELSE Item(Unknown, k, 0)
  IN  IF a.kind = "short"
        THEN [j \in 1..Len(a.cs) |->
                IF a.cs[j] \in ShortRequired THEN AtEnd(a.cs[j]) ELSE Item(a.cs[j], k, 0)]
      ELSE IF a.c \in LongRequired THEN <<AtEnd(a.c)>>
      ELSE IF a.c \in LongOptional /\ a.text THEN <<Item(a.c, k, k)>>
      ELSE IF a.text THEN <<Item(Unknown, k, 0)>>
      ELSE <<Item(a.c, k, 0)>>

OptionsUpTo[k \in 0..Len(args)] ==
  IF k = 0 THEN <<>>
  ELSE OptionsUpTo[k - 1] \o (IF Role[k] = "option" THEN ItemsOf(k) ELSE <<>>)

OperandsUpTo[k \in 0..Len(args)] ==
  IF k = 0 THEN <<>>
  ELSE OperandsUpTo[k - 1] \o (IF Role[k] \in {"operand", "after"} THEN <<k>> ELSE <<>>)

(* parse_args relies on it in its tests of optind and main in its loop: from *)
(* optind on argv holds the operands, all of them, in the order given, and   *)
(* what was given as an option or as the argument of one is not among them.  *)
OperandsInOrder ==
  step = "done" =>
    [k \in 1..argc - optind |-> argv[optind + k - 1]] = OperandsUpTo[Len(args)]

(* Every option is delivered once, in the order given, and with the argument *)
(* it was given, although the vector is permuted between the calls.          *)
OptionsInOrder ==
  LET given == OptionsUpTo[Len(args)]
  IN  /\ Len(delivered) <= Len(given)
      /\ delivered = SubSeq(given, 1, Len(delivered))
      /\ step = "done" => delivered = given

(* The vector always holds every element once, and what has not been scanned *)
(* is where it was.                                                          *)
NothingIsLost ==
  /\ \A j, k \in Places : argv[j] = argv[k] => j = k
  /\ step # "done" => \A k \in optind..argc - 1 : argv[k] = k

(* The scan, and exchange in it, come to an end. *)
ScanEnds == <>(step = "done")
=============================================================================
