------------------------------- MODULE Printf -------------------------------
(***************************************************************************)
(* Formatted output with numbered arguments, as translated format strings  *)
(* have them: printf_parse, printf_fetchargs and vasnprintf of intl/, and  *)
(* the functions of printf.c that call them. A format is a sequence of     *)
(* directives, each with the literal text in front of it; a character of   *)
(* the output is not modelled, its place and its origin are.               *)
(***************************************************************************)
EXTENDS Integers, Sequences, SequencesExt, FiniteSetsExt

CONSTANTS
  Formats,     \* [dirs : Seq of directives, tail : length of the last text]
  Callers,     \* "vfprintf", "vasprintf", "vsprintf", "vsnprintf"
  Lengths,     \* the buffer sizes vsnprintf is called with
  Libc,        \* kinds of snprintf: "c99", "no%n", "hpux"
  Endless,     \* the size vsprintf claims for its buffer
  MaxMemory    \* the largest block malloc gives

(* A directive: the literal text in front of it, the number of its argument  *)
(* (-1 if none is written), its flags, which printf-parse.h has six of,      *)
(* width and precision, size modifiers, conversion, and the length of what   *)
(* it converts to (-1 if it cannot be converted).                            *)
ArgNumber == Nat \cup {-1}
Extent    == [kind : {"digits"}, n : Nat] \cup [kind : {"", "*", "*n$"}, n : ArgNumber]
Directive == [lit : Nat, n : ArgNumber, flags : 0..6, width : Extent, prec : Extent,
              mods : Seq({"h", "l", "L", "z", "t"}), conv : STRING, out : ArgNumber]

ASSUME PrintfConstants ==
  /\ Formats \subseteq [dirs : Seq(Directive), tail : Nat]
  /\ Callers \subseteq {"vfprintf", "vasprintf", "vsprintf", "vsnprintf"}
  /\ Libc \subseteq {"c99", "no%n", "hpux"}
  /\ Lengths \subseteq Nat /\ Endless \in Nat /\ MaxMemory \in Nat

VARIABLES
  format, caller, libc, maxlength,   \* the call
  stage,       \* parse, fetch, text, directive, attempt, end, back, done
  dirs,        \* the directives parsed so far, with their argument indices
  d_allocated,
  args,        \* the types of the arguments, by position
  a_allocated, arg_posn,
  i,           \* the directive that is executed
  useN,        \* the directive given to snprintf still ends in %n
  result,      \* "null", "given" or "malloced"
  allocated, length,
  text,        \* what the result consists of
  blocks,      \* memory that is allocated and not freed
  retval       \* what the caller returns, or "running", "aborted", "crashed"

callVars  == <<format, caller, libc, maxlength>>
parseVars == <<dirs, d_allocated, args, a_allocated, arg_posn>>
outVars   == <<i, useN, result, allocated, length, text>>
printfVars == <<callVars, stage, parseVars, outVars, blocks, retval>>

NONE == "none"

(* Type of the argument of a conversion with size modifiers mods. *)
SizeFlags(mods) ==
  LET hs == Cardinality({k \in DOMAIN mods : mods[k] = "h"})
  IN [ big   |-> 8 * Cardinality({k \in DOMAIN mods : mods[k] \in {"l", "z", "t"}}),
       quad  |-> "L" \in Range(mods),
       char  |-> hs >= 2,
       short |-> hs >= 1 ]
Sized(mods, base) ==
  LET f == SizeFlags(mods)
  IN IF f.big >= 16 \/ f.quad THEN <<base, "longlong">>
     ELSE IF f.big >= 8 THEN <<base, "long">>
     ELSE IF f.char THEN <<base, "char">>
     ELSE IF f.short THEN <<base, "short">> ELSE <<base, "int">>
ArgType(conv, mods) ==
  LET f == SizeFlags(mods)
  IN CASE conv = "d" -> Sized(mods, "signed")
       [] conv = "u" -> Sized(mods, "unsigned")
       [] conv = "n" -> Sized(mods, "count")
       [] conv = "f" -> <<IF f.big >= 16 \/ f.quad THEN "longdouble" ELSE "double">>
       [] conv \in {"c", "s"} -> <<IF f.big >= 8 THEN "wide" ELSE "narrow", conv>>
       [] conv = "p" -> <<"pointer">>
       [] conv = "%" -> <<NONE>>
INT == <<"signed", "int">>
Known(conv) == conv \in {"d", "u", "n", "f", "c", "s", "p", "%"}

-----------------------------------------------------------------------------
PrintfInit ==
  /\ format \in Formats /\ caller \in Callers /\ libc \in Libc
  /\ maxlength \in IF caller = "vsnprintf" THEN Lengths ELSE {Endless}
  /\ stage = "parse"
  /\ dirs = <<>> /\ d_allocated = 1 /\ args = <<>> /\ a_allocated = 0
  /\ arg_posn = 0
  /\ i = 1 /\ useN = TRUE /\ length = 0 /\ text = <<>>
  /\ result = IF caller \in {"vsprintf", "vsnprintf"} THEN "given" ELSE "null"
  /\ allocated = IF caller \in {"vsprintf", "vsnprintf"} THEN maxlength ELSE 0
  /\ blocks = {"dir"} /\ retval = "running"

(* The index of an argument: the number written in the format, less one, or  *)
(* the next one in order.                                                    *)
Star(spec)        == spec.kind \in {"*", "*n$"}
IndexOf(n, next)  == IF n = -1 THEN next ELSE n - 1
(* Mutant of Bump: a number counts like an argument in order. *)
BumpAlways(n) == 1

Bump(n) == IF n = -1 THEN 1 ELSE 0

(* The directive as printf_parse leaves it. *)
Parsed(p) ==
  LET w  == Star(p.width)
      pr == Star(p.prec)
      n1 == arg_posn + IF w THEN Bump(p.width.n) ELSE 0
      n2 == n1 + IF pr THEN Bump(p.prec.n) ELSE 0
  IN [ dir  |-> p,
       width |-> IF w THEN IndexOf(p.width.n, arg_posn) ELSE -1,
       prec  |-> IF pr THEN IndexOf(p.prec.n, n1) ELSE -1,
       arg   |-> IF p.conv = "%" THEN -1 ELSE IndexOf(p.n, n2),
       next  |-> n2 + IF p.conv = "%" THEN 0 ELSE Bump(p.n) ]
(* REGISTER_ARG for width, precision and argument of a directive, if it has  *)
(* one (not -1): places up to the largest index exist, one without a type    *)
(* gets it, one that has another type already is an error. The array         *)
(* doubles, or jumps to fit.                                                 *)
Registrations(p) ==
  LET d == Parsed(p)
  IN <<[n |-> d.width, type |-> INT], [n |-> d.prec, type |-> INT],
       [n |-> d.arg, type |-> ArgType(p.conv, p.mods)]>>
Registered(p) ==
  LET regs == Registrations(p)
      Wanted(k) == {x \in 1..3 : regs[x].n = k - 1}
      Typed(k) == IF k <= Len(args) /\ args[k] # <<NONE>> THEN args[k]
                  ELSE IF Wanted(k) = {} THEN <<NONE>> ELSE regs[Min(Wanted(k))].type
      Grow(alloc, x) == IF regs[x].n < alloc THEN alloc
                        ELSE Max({2 * alloc, regs[x].n + 1})
      count == Max({Len(args)} \cup {regs[x].n + 1 : x \in 1..3})
  IN [ arg   |-> [k \in 1..count |-> Typed(k)],
       alloc |-> Grow(Grow(Grow(a_allocated, 1), 2), 3),
       ok    |-> \A x \in 1..3 : regs[x].n # -1 => Typed(regs[x].n + 1) = regs[x].type ]
Legal(p) ==   \* no argument 0, a known conversion
  /\ p.n # 0 /\ Known(p.conv)
  /\ Star(p.width) => p.width.n # 0
  /\ Star(p.prec) => p.prec.n # 0

(* Mutant of GiveUp: the buffer for a directive is not freed. *)
GiveUpWithBuf ==
  /\ stage' = "back" /\ blocks' = blocks \cap {"buf"} /\ result' = "null"
  /\ UNCHANGED <<callVars, parseVars, i, useN, allocated, length, text, retval>>

(* The parser frees what it has and vasnprintf gives up. *)
GiveUp ==
  /\ stage' = "back" /\ blocks' = {} /\ result' = "null"
  /\ UNCHANGED <<callVars, parseVars, i, useN, allocated, length, text, retval>>

CannotParse(p) ==
  \/ Len(dirs) + 1 >= d_allocated           \* no memory for one more
  \/ ~ Legal(p)
  \/ Legal(p) /\ ~ Registered(p).ok
  \/ Legal(p) /\ Registered(p).alloc > a_allocated   \* no memory
ParseError ==
  /\ stage = "parse"
  /\ \/ dirs = <<>>                         \* no memory for the first one
     \/ /\ Len(dirs) < Len(format.dirs)
        /\ CannotParse(format.dirs[Len(dirs) + 1])
  /\ GiveUp

ParseDirective ==
  /\ stage = "parse" /\ Len(dirs) < Len(format.dirs)
  /\ LET p == format.dirs[Len(dirs) + 1]
         r == Registered(p)
     IN /\ Legal(p) /\ r.ok
        /\ dirs' = Append(dirs, Parsed(p))
        /\ args' = r.arg /\ a_allocated' = r.alloc
        /\ arg_posn' = Parsed(p).next
        /\ blocks' = IF r.alloc > 0 THEN blocks \cup {"arg"} ELSE blocks
  /\ d_allocated' = IF Len(dirs') >= d_allocated THEN 2 * d_allocated
                    ELSE d_allocated
  /\ UNCHANGED <<callVars, stage, outVars, retval>>

ParseEnd ==
  /\ stage = "parse" /\ Len(dirs) = Len(format.dirs)
  /\ stage' = "fetch"
  /\ UNCHANGED <<callVars, parseVars, outVars, blocks, retval>>

(* printf_fetchargs: a number that no directive uses has no type. Then the   *)
(* buffer for one directive, on the stack or from malloc.                    *)
Fetch ==
  /\ stage = "fetch"
  /\ IF \E k \in DOMAIN args : args[k] = <<NONE>>
       THEN GiveUp
       ELSE \/ /\ stage' = "text"
               /\ \E heap \in BOOLEAN :
                    blocks' = IF heap THEN blocks \cup {"buf"} ELSE blocks
               /\ UNCHANGED <<callVars, parseVars, outVars, retval>>
            \/ GiveUp

(* ENSURE_ALLOCATION(needed), then the step `next'; or out of memory.        *)
Ensure(needed, next) ==
  LET size == Max({IF allocated > 0 THEN 2 * allocated ELSE 12, needed})
  IN \/ needed <= allocated /\ UNCHANGED <<allocated, result, blocks>> /\ next
     \/ /\ needed > allocated /\ size <= MaxMemory
        /\ allocated' = size /\ result' = "malloced"
        /\ blocks' = blocks \cup {"result"}
        /\ next
     \/ /\ needed > allocated
        /\ GiveUp

(* The loop over the directives: the text in front of one. *)
Prefix == IF i <= Len(dirs) THEN dirs[i].dir.lit ELSE format.tail
CopyText ==
  /\ stage = "text"
  /\ Ensure(length + Prefix,
       /\ length' = length + Prefix
       /\ text' = IF Prefix = 0 THEN text ELSE Append(text, <<"text", i>>)
       /\ stage' = IF i > Len(dirs) THEN "end" ELSE "directive"
       /\ UNCHANGED <<callVars, parseVars, i, useN, retval>>)

Next1 == i' = i + 1 /\ stage' = "text" /\ useN' = TRUE

Percent ==
  /\ stage = "directive" /\ dirs[i].dir.conv = "%"
  /\ Ensure(length + 1,
       /\ length' = length + 1
       /\ text' = Append(text, <<"%", i>>)
       /\ Next1
       /\ UNCHANGED <<callVars, parseVars, retval>>)

StoreCount ==
  /\ stage = "directive" /\ dirs[i].dir.conv = "n"
  /\ text' = Append(text, <<"n", length>>)
  /\ Next1
  /\ UNCHANGED <<callVars, parseVars, result, allocated, length, blocks, retval>>

(* One directive with an argument: room for a NUL, then attempts.            *)
Prepare ==
  /\ stage = "directive" /\ dirs[i].dir.conv \notin {"%", "n"}
  /\ Ensure(length + 1,
       /\ stage' = "attempt"
       /\ UNCHANGED <<callVars, parseVars, i, useN, length, text, retval>>)

(* What snprintf makes of a directive of `out' characters in maxlen: the     *)
(* count stored by %n, and the return value; -1 is a conversion that fails.  *)
(* It writes maxlen - 1 characters and a NUL at most, and cuts off the rest. *)
Snprintf(out, maxlen) ==
  LET fits == out < maxlen
  IN [ count  |-> IF libc = "c99" /\ useN THEN out ELSE -1,
       retcount |-> IF libc = "hpux" /\ ~ fits THEN -1 ELSE out ]
(* Mutants of BiggerNeed and Fits: no more room; no room for the NUL. *)
SameNeed == allocated
FitsWithoutNul(count, maxlen) == count <= maxlen

BiggerNeed == 2 * allocated + 12

Fits(count, maxlen) == count < maxlen

Attempt ==
  /\ stage = "attempt"
  /\ LET out    == dirs[i].dir.out
         maxlen == allocated - length
         s      == Snprintf(out, maxlen)
         count  == IF s.count >= 0 THEN Max({s.count, s.retcount}) ELSE s.retcount
     IN \/ /\ s.count < 0 /\ useN                       \* try without %n
           /\ useN' = FALSE
           /\ UNCHANGED <<callVars, stage, parseVars, i, result, allocated,
                          length, text, blocks, retval>>
        \/ /\ s.count < 0 /\ ~ useN /\ s.retcount < 0   \* try with more room
           /\ Ensure(BiggerNeed,
                UNCHANGED <<callVars, stage, parseVars, i, useN, length, text,
                            retval>>)
        \/ /\ s.count >= 0 \/ (~ useN /\ s.retcount >= 0)
           /\ ~ Fits(count, maxlen)
           /\ Ensure(Max({length + count, 2 * allocated}),
                UNCHANGED <<callVars, stage, parseVars, i, useN, length, text,
                            retval>>)
        \/ /\ s.count >= 0 \/ (~ useN /\ s.retcount >= 0)
           /\ Fits(count, maxlen)
           /\ length' = length + count
           /\ text' = Append(text, <<IF out < maxlen THEN "arg" ELSE "cut",
                                     dirs[i].arg>>)
           /\ Next1
           /\ UNCHANGED <<callVars, parseVars, result, allocated, blocks, retval>>

(* The final NUL, and the result is shrunk to its length if realloc can. *)
FinalNul ==
  /\ stage = "end"
  /\ Ensure(length + 1,
       /\ stage' = "shrink"
       /\ UNCHANGED <<callVars, parseVars, i, useN, length, text, retval>>)
Shrink ==
  /\ stage = "shrink" /\ stage' = "back"
  /\ \E works \in BOOLEAN :
       allocated' = IF works /\ result = "malloced" THEN length + 1 ELSE allocated
  /\ blocks' = blocks \cap {"result"}
  /\ UNCHANGED <<callVars, parseVars, i, useN, result, length, text, retval>>

(* Back in the caller. vasprintf keeps the result, the others free it; what  *)
(* vsnprintf copies is the result when it did not fit -- or a null pointer.  *)
Back ==
  /\ stage = "back" /\ stage' = "done"
  /\ retval' =
       CASE caller \in {"vfprintf", "vasprintf"} ->
              IF result = "null" THEN "-1" ELSE "length"
         [] caller = "vsprintf"  -> IF result = "given" THEN "length" ELSE "-1"
         [] caller = "vsnprintf" ->
              IF result = "given" THEN "length"
              ELSE IF maxlength = 0 THEN "-1"
              ELSE IF result = "null" THEN "crashed"
              ELSE IF length < maxlength THEN "aborted" ELSE "-1"
  /\ blocks' = IF caller = "vasprintf" THEN blocks ELSE blocks \ {"result"}
  /\ UNCHANGED <<callVars, parseVars, outVars>>

PrintfNext ==
  \/ ParseError \/ ParseDirective \/ ParseEnd \/ Fetch
  \/ CopyText \/ Percent \/ StoreCount \/ Prepare \/ Attempt
  \/ FinalNul \/ Shrink \/ Back

PrintfSpec == PrintfInit /\ [][PrintfNext]_printfVars /\ WF_printfVars(PrintfNext)

-----------------------------------------------------------------------------
(* How many arguments the first k directives take in order, and in which     *)
(* place a number -1 in directive k therefore is: the way a reader numbers.  *)
Uses(p) == (IF Star(p.width) THEN <<p.width.n>> ELSE <<>>)
           \o (IF Star(p.prec) THEN <<p.prec.n>> ELSE <<>>)
           \o (IF p.conv = "%" THEN <<>> ELSE <<p.n>>)
Unnumbered(k) ==
  Cardinality({u \in (1..k) \X (1..3) :
                 LET uses == Uses(format.dirs[u[1]])
                 IN  u[2] \in DOMAIN uses /\ uses[u[2]] = -1})

(* Every directive takes the argument a reader of the format would give it:  *)
(* the one it names, or the next in order after width and precision; and all *)
(* who use an argument agree on its type.                                    *)
ArgumentsAreTheirOwn ==
  \A k \in DOMAIN dirs :
    LET p == format.dirs[k]
    IN /\ p.conv # "%" =>
            /\ dirs[k].arg = IF p.n # -1 THEN p.n - 1 ELSE Unnumbered(k) - 1
            /\ args[dirs[k].arg + 1] = ArgType(p.conv, p.mods)
       /\ \A n \in {dirs[k].width, dirs[k].prec} \ {-1} : args[n + 1] = INT
       /\ Len(args) <= a_allocated /\ Len(dirs) < d_allocated

(* vasnprintf's invariants: the result is the given buffer, null or from     *)
(* malloc, what is written lies inside it with room for the final NUL, and a *)
(* directive that needed several attempts is in the result once, and whole.  *)
(* The caller aborts in no case; it reads through a null pointer only in     *)
(* vsnprintf, which does not ask whether there is a result.                  *)
OutputFits ==
  /\ length <= allocated
  /\ length > 0 => result # "null" \/ stage \in {"back", "done"}
  /\ stage \in {"back", "done"} /\ result # "null" =>
       /\ length < allocated
       /\ \A k \in DOMAIN dirs : dirs[k].arg # -1 /\ dirs[k].dir.conv # "n" =>
            Cardinality({m \in DOMAIN text : text[m] = <<"arg", dirs[k].arg>>})
              = Cardinality({j \in DOMAIN dirs : dirs[j].arg = dirs[k].arg
                                              /\ dirs[j].dir.conv # "n"})
  /\ retval # "aborted"
  /\ retval = "crashed" => caller = "vsnprintf" /\ result = "null"

(* The text built for one call of snprintf fits in the buffer sized before   *)
(* any directive is looked at: %, six flags, width, precision, two size      *)
(* letters, the conversion, %n and a NUL.                                    *)
WidthLength(p) == CASE p.width.kind = "" -> 0 [] p.width.kind = "digits" -> p.width.n
                    [] OTHER -> 1
PrecLength(p)  == CASE p.prec.kind = "" -> 0 [] p.prec.kind = "digits" -> p.prec.n + 1
                    [] OTHER -> 2
SizeLetters(type) == CASE type[Len(type)] = "longlong" -> 2
                       [] type[Len(type)] = "long" -> 1
                       [] type[1] \in {"wide", "longdouble"} -> 1
                       [] OTHER -> 0
MaxOf(Op(_)) == Max({Op(dirs[k].dir) : k \in DOMAIN dirs} \cup {0})
NeededLength == 7 + MaxOf(WidthLength) + MaxOf(PrecLength) + 6
Built(p) == 1 + p.flags + WidthLength(p) + PrecLength(p)
              + SizeLetters(ArgType(p.conv, p.mods)) + 1 + 2 + 1
DirectiveFits ==
  stage = "attempt" => Built(dirs[i].dir) <= NeededLength

(* Neither of vasnprintf's two buffers, for the result and for the text of   *)
(* one directive, is written beyond its end, and no attempt is left behind.  *)
BuffersSuffice == OutputFits /\ DirectiveFits

(* Whatever fails, and where: when the call is over nothing is allocated but *)
(* the string that vasprintf hands out.                                      *)
NothingIsLeaked ==
  stage = "done" =>
    blocks = IF caller = "vasprintf" /\ result # "null" THEN {"result"} ELSE {}

=============================================================================
