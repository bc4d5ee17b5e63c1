----------------------------- MODULE IntlProofs -----------------------------
(***************************************************************************)
(* Theorems about Printf.tla, LocaleAlias.tla and Gettext.tla, which share *)
(* no state: a formatted output assigns to every directive its own         *)
(* argument, stays in its buffers and leaks nothing; the table of aliases  *)
(* stays intact however it grows, moves and is sorted; and so do the lists *)
(* of bindings and of catalogs, in which the message functions search.     *)
(***************************************************************************)
EXTENDS Printf, LocaleAlias, Gettext, WellFoundedInduction, FiniteSetTheorems, SequenceTheorems, TLAPS

(* A directive as printf_parse leaves it. *)
ParsedDirective == [dir : Directive, width : Int, prec : Int, arg : Int, next : Int]

Stages == {"parse", "fetch", "text", "directive", "attempt", "end", "shrink", "back", "done"}
Pieces == {"text", "%", "n", "arg", "cut"}

PrintfTypeOK ==
  /\ format \in [dirs : Seq(Directive), tail : Nat]
  /\ caller \in Callers /\ maxlength \in Nat /\ useN \in BOOLEAN
  /\ libc \in Libc /\ stage \in Stages
  /\ dirs \in Seq(ParsedDirective) /\ arg_posn \in Int
  /\ i \in 1..(Len(dirs) + 1) /\ length \in Nat /\ allocated \in Nat
  /\ text \in Seq(Pieces \X Int)
  /\ result \in {"null", "given", "malloced"}
  /\ blocks \subseteq {"dir", "arg", "buf", "result"}
  /\ retval \in {"running", "length", "-1", "aborted", "crashed"}

(* The result is allocated when it has been moved to memory of its own; the  *)
(* rest is freed on every way out.                                           *)
MemoryInv ==
  /\ stage # "done" => ("result" \in blocks <=> result = "malloced")
  /\ stage = "back" => blocks \subseteq {"result"}
  /\ result = "given" => caller \in {"vsprintf", "vsnprintf"}
  /\ NothingIsLeaked

(* The directive that is worked on, and the end of the loop over them.       *)
PlaceInv ==
  /\ \A k \in DOMAIN dirs : dirs[k].dir.conv = "%" => dirs[k].arg = -1
  /\ stage \in {"directive", "attempt"} => i <= Len(dirs)
  /\ stage = "attempt" => dirs[i].dir.conv \notin {"%", "n"}
  /\ stage = "parse" => i = 1
  /\ stage \in {"end", "shrink"} => i = Len(dirs) + 1
  /\ stage \in {"back", "done"} /\ result # "null" => i = Len(dirs) + 1

(* The buffer is the caller's, none, or one of vasnprintf's own, and has     *)
(* room where something is about to be written.                              *)
Running == stage \notin {"back", "done"}
RoomInv ==
  /\ length <= allocated
  /\ result = "given" => allocated = maxlength
  /\ Running /\ result = "null" => allocated = 0 /\ caller \in {"vfprintf", "vasprintf"}
  /\ stage \in {"attempt", "shrink"} => length < allocated
  /\ ~ Running /\ result # "null" => length < allocated

(* vsnprintf gets a result of vasnprintf's own only when its buffer does not *)
(* hold what is written or about to be written.                              *)
Need == dirs[i].dir.out
OverflowInv ==
  /\ caller = "vsnprintf" /\ result = "malloced" =>
       \/ length >= maxlength
       \/ stage = "attempt" /\ (Need < 0 \/ length + Need >= maxlength)
  /\ stage # "done" => retval = "running"
  /\ retval # "aborted"
  /\ retval = "crashed" => caller = "vsnprintf" /\ result = "null"

(* An argument is in the result once for every directive that is done.       *)
Places(t, a) == {m \in DOMAIN t : t[m] = <<"arg", a>>}
Passed(k, a) == {j \in DOMAIN dirs : j < k /\ dirs[j].arg = a /\ dirs[j].dir.conv # "n"}
CountInv ==
  \A a \in Int \ {-1} : Cardinality(Places(text, a)) = Cardinality(Passed(i, a))

FormatInv ==
  PrintfTypeOK /\ MemoryInv /\ PlaceInv /\ RoomInv /\ OverflowInv /\ CountInv

(* max of the numbers that the code takes the maximum of.                    *)
LEMMA MaxOfTwo ==
  ASSUME NEW a \in Int, NEW b \in Int
  PROVE  /\ Max({a, b}) \in {a, b}
         /\ Max({a, b}) >= a /\ Max({a, b}) >= b
<1>1. \E x \in {a, b} : \A y \in {a, b} : x >= y
  OBVIOUS
<1>2. Max({a, b}) \in {a, b} /\ \A y \in {a, b} : Max({a, b}) >= y
  BY <1>1 DEF Max
<1> QED BY <1>2

(* A directive is parsed to one.                                             *)
LEMMA ParsedType ==
  ASSUME NEW p \in Directive, arg_posn \in Int
  PROVE  /\ Parsed(p) \in ParsedDirective
         /\ Parsed(p).dir = p
         /\ p.conv = "%" => Parsed(p).arg = -1
<1>1. p.n \in Int /\ p.width.n \in Int /\ p.prec.n \in Int
  <2>1. p.n \in ArgNumber /\ p.width \in Extent /\ p.prec \in Extent
    BY DEF Directive
  <2>2. \A n \in ArgNumber : n \in Int
    BY DEF ArgNumber
  <2>3. ASSUME NEW e \in Extent PROVE e.n \in Int
    <3>1. CASE e \in [kind : {"digits"}, n : Nat]
      BY <3>1
    <3>2. CASE e \in [kind : {"", "*", "*n$"}, n : ArgNumber]
      <4>1. e.n \in ArgNumber
        BY <3>2
      <4> QED BY <4>1, <2>2
    <3> QED BY <3>1, <3>2 DEF Extent
  <2> QED BY <2>1, <2>2, <2>3
<1>2. \A n \in Int : Bump(n) \in Int /\ \A m \in Int : IndexOf(n, m) \in Int
  BY DEF Bump, IndexOf
<1> DEFINE w  == Star(p.width)
           pr == Star(p.prec)
           b1 == IF w THEN Bump(p.width.n) ELSE 0
           b2 == IF pr THEN Bump(p.prec.n) ELSE 0
           b3 == IF p.conv = "%" THEN 0 ELSE Bump(p.n)
           n1 == arg_posn + b1
           n2 == n1 + b2
<1>3. b1 \in Int /\ b2 \in Int /\ b3 \in Int
  <2>1. Bump(p.width.n) \in Int /\ Bump(p.prec.n) \in Int /\ Bump(p.n) \in Int
    BY <1>1, <1>2, Zenon
  <2>2. 0 \in Int
    OBVIOUS
  <2> QED BY <2>1, <2>2, Zenon
<1>4. n1 \in Int /\ n2 \in Int /\ n2 + b3 \in Int
  <2> HIDE DEF b1, b2, b3
  <2> QED BY <1>3
<1> DEFINE iw == IF w THEN IndexOf(p.width.n, arg_posn) ELSE -1
           ip == IF pr THEN IndexOf(p.prec.n, n1) ELSE -1
           ia == IF p.conv = "%" THEN -1 ELSE IndexOf(p.n, n2)
<1>5. Parsed(p) = [dir |-> p, width |-> iw, prec |-> ip, arg |-> ia, next |-> n2 + b3]
  BY DEF Parsed
<1>6. iw \in Int /\ ip \in Int /\ ia \in Int /\ (p.conv = "%" => ia = -1)
  <2> HIDE DEF n1, n2
  <2>1. /\ IndexOf(p.width.n, arg_posn) \in Int /\ IndexOf(p.prec.n, n1) \in Int
        /\ IndexOf(p.n, n2) \in Int
    BY <1>1, <1>2, <1>4, Zenon
  <2>2. -1 \in Int
    OBVIOUS
  <2> QED BY <2>1, <2>2, Zenon
<1> HIDE DEF n1, n2, iw, ip, ia, b3
<1> QED BY <1>4, <1>5, <1>6 DEF ParsedDirective

(* ENSURE_ALLOCATION goes on with room enough, in memory of its own if there *)
(* was not enough, or gives up.                                              *)
Room(needed) ==
  /\ allocated' \in Nat /\ allocated' >= needed
  /\ \/ needed <= allocated /\ UNCHANGED <<allocated, result, blocks>>
     \/ needed > allocated /\ result' = "malloced" /\ blocks' = blocks \cup {"result"}

LEMMA EnsureMakesRoom ==
  ASSUME NEW needed \in Int, allocated \in Nat, NEW next, Ensure(needed, next)
  PROVE  (Room(needed) /\ next) \/ (needed > allocated /\ GiveUp)
<1> DEFINE size == Max({IF allocated > 0 THEN 2 * allocated ELSE 12, needed})
<1>1. size \in Int /\ size >= needed /\ size > 0
  <2> DEFINE a == IF allocated > 0 THEN 2 * allocated ELSE 12
  <2>1. a \in Int /\ a > 0
    OBVIOUS
  <2> HIDE DEF a
  <2>2. Max({a, needed}) \in {a, needed} /\ Max({a, needed}) >= a /\ Max({a, needed}) >= needed
    BY <2>1, MaxOfTwo
  <2>3. size = Max({a, needed})
    BY DEF a
  <2> HIDE DEF size
  <2> QED BY <2>1, <2>2, <2>3
<1>2. \/ needed <= allocated /\ UNCHANGED <<allocated, result, blocks>> /\ next
      \/ /\ needed > allocated /\ size <= MaxMemory
         /\ allocated' = size /\ result' = "malloced"
         /\ blocks' = blocks \cup {"result"}
         /\ next
      \/ /\ needed > allocated
         /\ GiveUp
  BY DEF Ensure
<1> HIDE DEF size
<1> QED BY <1>1, <1>2 DEF Room

(* What Ensure leaves of the invariant when the call goes on.                *)
LEMMA RoomKeeps ==
  ASSUME PrintfTypeOK, MemoryInv, RoomInv, Running, NEW needed \in Nat,
         Room(needed), Running', caller' = caller, maxlength' = maxlength
  PROVE  /\ result' \in {"null", "given", "malloced"}
         /\ blocks' \subseteq {"dir", "arg", "buf", "result"}
         /\ allocated' \in Nat /\ allocated' >= needed
         /\ MemoryInv'
         /\ result' = "given" => allocated' = maxlength'
         /\ result' = "null" => needed = 0 /\ allocated' = 0
                                /\ caller' \in {"vfprintf", "vasprintf"}
         /\ caller = "vsnprintf" /\ result' = "malloced"
              => result = "malloced" \/ needed > maxlength
<1> USE DEF PrintfTypeOK, MemoryInv, RoomInv, Running, Room, NothingIsLeaked
<1>0. stage # "done" /\ stage' # "done" /\ stage' # "back"
  OBVIOUS
<1>1. CASE needed <= allocated /\ UNCHANGED <<allocated, result, blocks>>
  BY <1>0, <1>1
<1>2. CASE needed > allocated /\ result' = "malloced" /\ blocks' = blocks \cup {"result"}
  <2>1. caller = "vsnprintf" => result # "null"
    BY <1>0
  <2> QED BY <1>0, <1>2, <2>1
<1> QED BY <1>1, <1>2

(* An argument is counted when it is written, and only then.                 *)
LEMMA PlacesGrow ==
  ASSUME NEW t \in Seq(Pieces \X Int), NEW e \in Pieces \X Int, NEW a \in Int
  PROVE  /\ IsFiniteSet(Places(t, a)) /\ Cardinality(Places(t, a)) \in Nat
         /\ e = <<"arg", a>> =>
              Cardinality(Places(Append(t, e), a)) = Cardinality(Places(t, a)) + 1
         /\ e # <<"arg", a>> =>
              Cardinality(Places(Append(t, e), a)) = Cardinality(Places(t, a))
<1> DEFINE u == Append(t, e)
<1>1. Len(u) = Len(t) + 1 /\ u[Len(t) + 1] = e /\ Len(t) \in Nat
      /\ DOMAIN t = 1..Len(t) /\ DOMAIN u = 1..(Len(t) + 1)
      /\ \A m \in 1..Len(t) : u[m] = t[m]
  OBVIOUS
<1>2. Places(t, a) \subseteq 1..Len(t)
  BY <1>1 DEF Places
<1>3. IsFiniteSet(Places(t, a)) /\ Cardinality(Places(t, a)) \in Nat
  <2>1. IsFiniteSet(1..Len(t))
    BY <1>1, FS_Interval
  <2>2. IsFiniteSet(Places(t, a))
    BY <1>2, <2>1, FS_Subset
  <2> QED BY <2>2, FS_CardinalityType
<1> HIDE DEF u
<1>4. CASE e = <<"arg", a>>
  <2>1. Places(u, a) = Places(t, a) \cup {Len(t) + 1}
    BY <1>1, <1>4 DEF Places
  <2>2. Len(t) + 1 \notin Places(t, a)
    BY <1>1, <1>2
  <2> QED BY <1>3, <1>4, <2>1, <2>2, FS_AddElement DEF u
<1>5. CASE e # <<"arg", a>>
  <2>1. Places(u, a) = Places(t, a)
    BY <1>1, <1>5 DEF Places
  <2> QED BY <1>3, <1>5, <2>1 DEF u
<1> QED BY <1>3, <1>4, <1>5

LEMMA PassedGrow ==
  ASSUME dirs \in Seq(ParsedDirective), i \in 1..Len(dirs), NEW a \in Int
  PROVE  /\ dirs[i].arg = a /\ dirs[i].dir.conv # "n" =>
              Cardinality(Passed(i + 1, a)) = Cardinality(Passed(i, a)) + 1
         /\ dirs[i].arg # a \/ dirs[i].dir.conv = "n" =>
              Cardinality(Passed(i + 1, a)) = Cardinality(Passed(i, a))
<1>1. DOMAIN dirs = 1..Len(dirs) /\ Len(dirs) \in Nat
  OBVIOUS
<1>2. Passed(i, a) \subseteq 1..Len(dirs)
  BY <1>1 DEF Passed
<1>3. IsFiniteSet(Passed(i, a)) /\ Cardinality(Passed(i, a)) \in Nat
  <2>1. IsFiniteSet(1..Len(dirs))
    BY <1>1, FS_Interval
  <2>2. IsFiniteSet(Passed(i, a))
    BY <1>2, <2>1, FS_Subset
  <2> QED BY <2>2, FS_CardinalityType
<1>4. CASE dirs[i].arg = a /\ dirs[i].dir.conv # "n"
  <2>1. Passed(i + 1, a) = Passed(i, a) \cup {i}
    BY <1>1, <1>4 DEF Passed
  <2>2. i \notin Passed(i, a)
    BY DEF Passed
  <2> QED BY <1>3, <1>4, <2>1, <2>2, FS_AddElement
<1>5. CASE dirs[i].arg # a \/ dirs[i].dir.conv = "n"
  <2>1. Passed(i + 1, a) = Passed(i, a)
    BY <1>1, <1>5 DEF Passed
  <2> QED BY <1>5, <2>1
<1> QED BY <1>4, <1>5

-----------------------------------------------------------------------------
LEMMA FormatStart == PrintfInit => FormatInv
<1> SUFFICES ASSUME PrintfInit PROVE FormatInv
  OBVIOUS
<1> USE DEF PrintfInit
<1>1. PrintfTypeOK
  <2>1. format \in [dirs : Seq(Directive), tail : Nat]
    BY PrintfConstants
  <2>2. maxlength \in Nat
    BY PrintfConstants
  <2> QED BY <2>1, <2>2 DEF PrintfTypeOK, Stages
<1>2. MemoryInv /\ PlaceInv /\ RoomInv /\ OverflowInv
  <2>1. caller \notin {"vsprintf", "vsnprintf"} => caller \in {"vfprintf", "vasprintf"}
    BY PrintfConstants
  <2> QED BY <1>1, <2>1
          DEF PrintfTypeOK, MemoryInv, NothingIsLeaked, PlaceInv, RoomInv, Running,
              OverflowInv
<1>3. CountInv
  <2>1. ASSUME NEW a \in Int PROVE Places(text, a) = {} /\ Passed(i, a) = {}
    BY DEF Places, Passed
  <2> QED BY <2>1 DEF CountInv
<1> QED BY <1>1, <1>2, <1>3 DEF FormatInv

LEMMA GiveUpKeeps ==
  ASSUME FormatInv, GiveUp, Running
  PROVE  FormatInv'
<1> USE DEF FormatInv, GiveUp, callVars, parseVars
<1>1. PrintfTypeOK'
  BY DEF PrintfTypeOK, Stages
<1>2. MemoryInv' /\ PlaceInv' /\ RoomInv' /\ OverflowInv'
  BY DEF PrintfTypeOK, MemoryInv, NothingIsLeaked, PlaceInv, RoomInv, Running, OverflowInv
<1>3. CountInv'
  BY DEF CountInv, Places, Passed
<1> QED BY <1>1, <1>2, <1>3

LEMMA ParsingKeeps ==
  ASSUME FormatInv, ParseError \/ ParseDirective \/ ParseEnd \/ Fetch
  PROVE  FormatInv'
<1>1. CASE ParseError
  BY <1>1, GiveUpKeeps DEF ParseError, Running
<1>2. CASE ParseDirective
  <2> DEFINE p == format.dirs[Len(dirs) + 1]
  <2>1. /\ stage = "parse" /\ Len(dirs) < Len(format.dirs)
        /\ dirs' = Append(dirs, Parsed(p))
        /\ arg_posn' = Parsed(p).next
        /\ blocks' = blocks \cup {"arg"} \/ blocks' = blocks
        /\ UNCHANGED <<callVars, stage, outVars, retval>>
    BY <1>2 DEF ParseDirective
  <2>2. p \in Directive /\ dirs \in Seq(ParsedDirective) /\ arg_posn \in Int
    <3>1. format.dirs \in Seq(Directive) /\ dirs \in Seq(ParsedDirective) /\ arg_posn \in Int
      BY DEF FormatInv, PrintfTypeOK
    <3>2. Len(dirs) + 1 \in 1..Len(format.dirs)
      BY <2>1, <3>1
    <3> QED BY <3>1, <3>2
  <2> HIDE DEF p
  <2>3. /\ Parsed(p) \in ParsedDirective /\ Parsed(p).dir = p
        /\ p.conv = "%" => Parsed(p).arg = -1
    BY <2>2, ParsedType
  <2>4. /\ Len(dirs') = Len(dirs) + 1 /\ dirs' \in Seq(ParsedDirective)
        /\ dirs'[Len(dirs) + 1] = Parsed(p)
        /\ \A k \in 1..Len(dirs) : dirs'[k] = dirs[k]
        /\ DOMAIN dirs = 1..Len(dirs) /\ DOMAIN dirs' = 1..(Len(dirs) + 1)
    BY <2>1, <2>2, <2>3
  <2>5. PrintfTypeOK'
    <3>1. Parsed(p).next \in Int
      BY <2>3 DEF ParsedDirective
    <3>2. i \in 1..(Len(dirs') + 1)
      BY <2>4 DEF FormatInv, PrintfTypeOK
    <3>3. blocks' \subseteq {"dir", "arg", "buf", "result"}
      BY <2>1 DEF FormatInv, PrintfTypeOK
    <3> QED BY <2>1, <2>4, <3>1, <3>2, <3>3 DEF FormatInv, PrintfTypeOK, callVars, outVars
  <2>6. PlaceInv'
    BY <2>1, <2>3, <2>4 DEF FormatInv, PlaceInv, outVars
  <2>7. MemoryInv' /\ RoomInv' /\ OverflowInv'
    BY <2>1
    DEF FormatInv, MemoryInv, NothingIsLeaked, RoomInv, Running, OverflowInv, callVars,
        outVars
  <2>8. CountInv'
    <3>1. i = 1
      BY <2>1 DEF FormatInv, PlaceInv
    <3>2. ASSUME NEW a \in Int PROVE Passed(i, a) = {} /\ Passed(i, a)' = {}
      BY <2>1, <2>4, <3>1 DEF Passed, outVars
    <3> QED BY <2>1, <3>2 DEF FormatInv, CountInv, Places, outVars
  <2> QED BY <2>5, <2>6, <2>7, <2>8 DEF FormatInv
<1>3. CASE ParseEnd
  <2> USE <1>3 DEF ParseEnd, FormatInv, callVars, parseVars, outVars
  <2>1. PrintfTypeOK'
    BY DEF PrintfTypeOK, Stages
  <2>2. MemoryInv' /\ PlaceInv' /\ RoomInv' /\ OverflowInv'
    BY DEF MemoryInv, NothingIsLeaked, PlaceInv, RoomInv, Running, OverflowInv, Need
  <2>3. CountInv'
    BY DEF CountInv, Places, Passed
  <2> QED BY <2>1, <2>2, <2>3
<1>4. CASE Fetch
  <2>1. CASE GiveUp
    BY <1>4, <2>1, GiveUpKeeps DEF Fetch, Running
  <2>2. CASE /\ stage' = "text"
             /\ blocks' = blocks \cup {"buf"} \/ blocks' = blocks
             /\ UNCHANGED <<callVars, parseVars, outVars, retval>>
    <3> USE <2>2 DEF FormatInv, callVars, parseVars, outVars
    <3>0. stage = "fetch"
      BY <1>4 DEF Fetch
    <3>1. PrintfTypeOK'
      BY DEF PrintfTypeOK, Stages
    <3>2. MemoryInv' /\ PlaceInv' /\ RoomInv' /\ OverflowInv'
      BY <3>0 DEF MemoryInv, NothingIsLeaked, PlaceInv, RoomInv, Running, OverflowInv, Need
    <3>3. CountInv'
      BY DEF CountInv, Places, Passed
    <3> QED BY <3>1, <3>2, <3>3
  <2> QED BY <1>4, <2>1, <2>2 DEF Fetch
<1> QED BY <1>1, <1>2, <1>3, <1>4

LEMMA DirectiveParts ==
  ASSUME FormatInv
  PROVE  /\ Prefix \in Nat
         /\ i <= Len(dirs) => /\ i \in 1..Len(dirs) /\ dirs[i] \in ParsedDirective
                              /\ dirs[i].dir \in Directive /\ dirs[i].arg \in Int
                              /\ Need \in Int /\ Need >= -1
<1> USE DEF FormatInv, PrintfTypeOK
<1>1. format.tail \in Nat /\ dirs \in Seq(ParsedDirective)
  OBVIOUS
<1>2. ASSUME i <= Len(dirs)
      PROVE  /\ i \in 1..Len(dirs) /\ dirs[i] \in ParsedDirective
             /\ dirs[i].dir \in Directive /\ dirs[i].arg \in Int
             /\ dirs[i].dir.lit \in Nat /\ dirs[i].dir.out \in ArgNumber
  <2>1. i \in 1..Len(dirs) /\ dirs[i] \in ParsedDirective
    BY <1>1, <1>2
  <2>2. dirs[i].dir \in Directive /\ dirs[i].arg \in Int
    BY <2>1 DEF ParsedDirective
  <2>3. dirs[i].dir.lit \in Nat /\ dirs[i].dir.out \in ArgNumber
    BY <2>2 DEF Directive
  <2> QED BY <2>1, <2>2, <2>3
<1> QED BY <1>1, <1>2 DEF Prefix, Need, ArgNumber

LEMMA CopyTextKeeps ==
  ASSUME FormatInv, CopyText
  PROVE  FormatInv'
<1> DEFINE next == /\ length' = length + Prefix
                   /\ text' = IF Prefix = 0 THEN text ELSE Append(text, <<"text", i>>)
                   /\ stage' = IF i > Len(dirs) THEN "end" ELSE "directive"
                   /\ UNCHANGED <<callVars, parseVars, i, useN, retval>>
<1>1. stage = "text" /\ Ensure(length + Prefix, next) /\ Running
  BY DEF CopyText, Running
<1>2. Prefix \in Nat /\ length \in Nat /\ allocated \in Nat /\ i \in Nat /\ Len(dirs) \in Nat
  BY DirectiveParts DEF FormatInv, PrintfTypeOK
<1>3. length + Prefix \in Nat
  BY <1>2
<1> HIDE DEF next
<1>4. (Room(length + Prefix) /\ next) \/ GiveUp
  BY <1>1, <1>2, <1>3, EnsureMakesRoom
<1>5. CASE GiveUp
  BY <1>1, <1>5, GiveUpKeeps
<1>6. CASE Room(length + Prefix) /\ next
  <2> USE <1>6 DEF callVars, parseVars
  <2>0. /\ length' = length + Prefix
        /\ text' = IF Prefix = 0 THEN text ELSE Append(text, <<"text", i>>)
        /\ stage' = IF i > Len(dirs) THEN "end" ELSE "directive"
        /\ UNCHANGED <<callVars, parseVars, i, useN, retval>>
    BY DEF next
  <2>1. Running' /\ caller' = caller /\ maxlength' = maxlength
    BY <2>0 DEF Running
  <2>2. /\ result' \in {"null", "given", "malloced"}
        /\ blocks' \subseteq {"dir", "arg", "buf", "result"}
        /\ allocated' \in Nat /\ allocated' >= length + Prefix
        /\ MemoryInv'
        /\ result' = "given" => allocated' = maxlength'
        /\ result' = "null" => length + Prefix = 0 /\ allocated' = 0
                               /\ caller' \in {"vfprintf", "vasprintf"}
        /\ caller = "vsnprintf" /\ result' = "malloced"
             => result = "malloced" \/ length + Prefix > maxlength
    BY <1>1, <1>3, <2>1, RoomKeeps DEF FormatInv
  <2>3. <<"text", i>> \in Pieces \X Int
    BY <1>2 DEF Pieces
  <2>4. PrintfTypeOK'
    <3>1. text' \in Seq(Pieces \X Int)
      BY <2>0, <2>3 DEF FormatInv, PrintfTypeOK
    <3>2. length' \in Nat /\ stage' \in Stages
      BY <1>3, <2>0 DEF Stages
    <3> QED BY <2>0, <2>2, <3>1, <3>2 DEF FormatInv, PrintfTypeOK
  <2>5. PlaceInv'
    BY <1>2, <2>0 DEF FormatInv, PrintfTypeOK, PlaceInv
  <2>6. RoomInv'
    BY <2>0, <2>1, <2>2 DEF RoomInv, Running
  <2>7. OverflowInv'
    BY <1>1, <1>2, <2>0, <2>2 DEF FormatInv, PrintfTypeOK, OverflowInv
  <2>8. CountInv'
    <3>1. ASSUME NEW a \in Int
          PROVE  Cardinality(Places(text', a)) = Cardinality(Places(text, a))
      <4>1. <<"text", i>> # <<"arg", a>> /\ text \in Seq(Pieces \X Int)
        BY DEF FormatInv, PrintfTypeOK
      <4>2. Cardinality(Places(Append(text, <<"text", i>>), a)) = Cardinality(Places(text, a))
        BY <2>3, <4>1, PlacesGrow
      <4> QED BY <2>0, <4>2
    <3>2. ASSUME NEW a \in Int PROVE Passed(i, a)' = Passed(i, a)
      BY <2>0 DEF Passed
    <3> QED BY <3>1, <3>2 DEF FormatInv, CountInv, Places
  <2> QED BY <2>2, <2>4, <2>5, <2>6, <2>7, <2>8 DEF FormatInv
<1> QED BY <1>4, <1>5, <1>6

LEMMA PercentKeeps ==
  ASSUME FormatInv, Percent
  PROVE  FormatInv'
<1> DEFINE next == /\ length' = length + 1
                   /\ text' = Append(text, <<"%", i>>)
                   /\ Next1
                   /\ UNCHANGED <<callVars, parseVars, retval>>
<1>1. stage = "directive" /\ Ensure(length + 1, next) /\ Running /\ dirs[i].dir.conv = "%"
  BY DEF Percent, Running
<1>2. length \in Nat /\ allocated \in Nat /\ i \in 1..Len(dirs) /\ Len(dirs) \in Nat
  BY <1>1, DirectiveParts DEF FormatInv, PrintfTypeOK, PlaceInv
<1>3. length + 1 \in Nat /\ dirs[i].arg = -1
  BY <1>1, <1>2 DEF FormatInv, PlaceInv, PrintfTypeOK
<1> HIDE DEF next
<1>4. (Room(length + 1) /\ next) \/ GiveUp
  BY <1>1, <1>2, <1>3, EnsureMakesRoom
<1>5. CASE GiveUp
  BY <1>1, <1>5, GiveUpKeeps
<1>6. CASE Room(length + 1) /\ next
  <2> USE <1>6 DEF callVars, parseVars
  <2>0. /\ length' = length + 1
        /\ text' = Append(text, <<"%", i>>)
        /\ i' = i + 1 /\ stage' = "text" /\ useN' = TRUE
        /\ UNCHANGED <<callVars, parseVars, retval>>
    BY DEF next, Next1
  <2>1. Running' /\ caller' = caller /\ maxlength' = maxlength
    BY <2>0 DEF Running
  <2>2. /\ result' \in {"null", "given", "malloced"}
        /\ blocks' \subseteq {"dir", "arg", "buf", "result"}
        /\ allocated' \in Nat /\ allocated' >= length + 1
        /\ MemoryInv'
        /\ result' = "given" => allocated' = maxlength'
        /\ result' = "null" => length + 1 = 0 /\ allocated' = 0
                               /\ caller' \in {"vfprintf", "vasprintf"}
        /\ caller = "vsnprintf" /\ result' = "malloced"
             => result = "malloced" \/ length + 1 > maxlength
    BY <1>1, <1>3, <2>1, RoomKeeps DEF FormatInv
  <2>3. <<"%", i>> \in Pieces \X Int
    BY <1>2 DEF Pieces
  <2>4. PrintfTypeOK'
    <3>1. text' \in Seq(Pieces \X Int)
      BY <2>0, <2>3 DEF FormatInv, PrintfTypeOK
    <3>2. length' \in Nat /\ stage' \in Stages /\ i' \in 1..(Len(dirs) + 1)
      BY <1>2, <1>3, <2>0 DEF Stages
    <3> QED BY <2>0, <2>2, <3>1, <3>2 DEF FormatInv, PrintfTypeOK
  <2>5. PlaceInv'
    BY <1>2, <2>0 DEF FormatInv, PrintfTypeOK, PlaceInv
  <2>6. RoomInv'
    BY <2>0, <2>1, <2>2 DEF RoomInv, Running
  <2>7. OverflowInv'
    BY <1>1, <1>2, <2>0, <2>2 DEF FormatInv, PrintfTypeOK, OverflowInv
  <2>8. CountInv'
    <3>1. ASSUME NEW a \in Int \ {-1}
          PROVE  /\ Cardinality(Places(text', a)) = Cardinality(Places(text, a))
                 /\ Cardinality(Passed(i + 1, a)) = Cardinality(Passed(i, a))
      <4>1. <<"%", i>> # <<"arg", a>> /\ text \in Seq(Pieces \X Int)
            /\ dirs \in Seq(ParsedDirective) /\ dirs[i].arg # a
        BY <1>3 DEF FormatInv, PrintfTypeOK
      <4>2. Cardinality(Places(Append(text, <<"%", i>>), a)) = Cardinality(Places(text, a))
        BY <2>3, <4>1, PlacesGrow
      <4>3. Cardinality(Passed(i + 1, a)) = Cardinality(Passed(i, a))
        BY <1>2, <4>1, PassedGrow
      <4> QED BY <2>0, <4>2, <4>3
    <3>2. ASSUME NEW a \in Int PROVE Passed(i, a)' = Passed(i + 1, a)
      BY <2>0 DEF Passed
    <3> QED BY <3>1, <3>2 DEF FormatInv, CountInv, Places
  <2> QED BY <2>2, <2>4, <2>5, <2>6, <2>7, <2>8 DEF FormatInv
<1> QED BY <1>4, <1>5, <1>6

LEMMA StoreCountKeeps ==
  ASSUME FormatInv, StoreCount
  PROVE  FormatInv'
<1>1. /\ stage = "directive" /\ dirs[i].dir.conv = "n" /\ stage' = "text"
      /\ text' = Append(text, <<"n", length>>) /\ i' = i + 1 /\ useN' = TRUE
      /\ UNCHANGED <<callVars, parseVars, result, allocated, length, blocks, retval>>
  BY DEF StoreCount, Next1
<1>2. length \in Nat /\ i \in 1..Len(dirs) /\ Len(dirs) \in Nat
  BY <1>1, DirectiveParts DEF FormatInv, PrintfTypeOK, PlaceInv
<1> USE DEF callVars, parseVars
<1>3. <<"n", length>> \in Pieces \X Int
  BY <1>2 DEF Pieces
<1>4. PrintfTypeOK'
  <2>1. text' \in Seq(Pieces \X Int)
    BY <1>1, <1>3 DEF FormatInv, PrintfTypeOK
  <2>2. stage' \in Stages /\ i' \in 1..(Len(dirs) + 1)
    BY <1>1, <1>2 DEF Stages
  <2> QED BY <1>1, <2>1, <2>2 DEF FormatInv, PrintfTypeOK
<1>5. MemoryInv' /\ PlaceInv' /\ RoomInv' /\ OverflowInv'
  BY <1>1, <1>2
  DEF FormatInv, MemoryInv, NothingIsLeaked, PlaceInv, RoomInv, Running, OverflowInv
<1>6. CountInv'
  <2>1. ASSUME NEW a \in Int
        PROVE  /\ Cardinality(Places(text', a)) = Cardinality(Places(text, a))
               /\ Cardinality(Passed(i + 1, a)) = Cardinality(Passed(i, a))
    <3>1. <<"n", length>> # <<"arg", a>> /\ text \in Seq(Pieces \X Int)
          /\ dirs \in Seq(ParsedDirective)
      BY DEF FormatInv, PrintfTypeOK
    <3>2. Cardinality(Places(Append(text, <<"n", length>>), a)) = Cardinality(Places(text, a))
      BY <1>3, <3>1, PlacesGrow
    <3>3. Cardinality(Passed(i + 1, a)) = Cardinality(Passed(i, a))
      BY <1>1, <1>2, <3>1, PassedGrow
    <3> QED BY <1>1, <3>2, <3>3
  <2>2. ASSUME NEW a \in Int PROVE Passed(i, a)' = Passed(i + 1, a)
    BY <1>1 DEF Passed
  <2> QED BY <2>1, <2>2 DEF FormatInv, CountInv, Places
<1> QED BY <1>4, <1>5, <1>6 DEF FormatInv

(* What only makes room and goes on: before the attempts, and for the NUL.   *)
LEMMA RoomForNulKeeps ==
  ASSUME FormatInv, NEW s \in {"attempt", "shrink"},
         \/ stage = "directive" /\ s = "attempt" /\ dirs[i].dir.conv \notin {"%", "n"}
         \/ stage = "end" /\ s = "shrink",
         Ensure(length + 1, stage' = s /\ UNCHANGED <<callVars, parseVars, i, useN, length,
                                                      text, retval>>)
  PROVE  FormatInv'
<1> DEFINE next == stage' = s /\ UNCHANGED <<callVars, parseVars, i, useN, length, text, retval>>
<1>1. Ensure(length + 1, next) /\ Running
  BY DEF Running
<1>2. length \in Nat /\ allocated \in Nat /\ length + 1 \in Nat
  BY DEF FormatInv, PrintfTypeOK
<1> HIDE DEF next
<1>4. (Room(length + 1) /\ next) \/ GiveUp
  BY <1>1, <1>2, EnsureMakesRoom
<1>5. CASE GiveUp
  BY <1>1, <1>5, GiveUpKeeps
<1>6. CASE Room(length + 1) /\ next
  <2> USE <1>6 DEF callVars, parseVars
  <2>0. stage' = s /\ UNCHANGED <<callVars, parseVars, i, useN, length, text, retval>>
    BY DEF next
  <2>1. Running' /\ caller' = caller /\ maxlength' = maxlength
    BY <2>0 DEF Running
  <2>2. /\ result' \in {"null", "given", "malloced"}
        /\ blocks' \subseteq {"dir", "arg", "buf", "result"}
        /\ allocated' \in Nat /\ allocated' >= length + 1
        /\ MemoryInv'
        /\ result' = "given" => allocated' = maxlength'
        /\ result' = "null" => length + 1 = 0 /\ allocated' = 0
                               /\ caller' \in {"vfprintf", "vasprintf"}
        /\ caller = "vsnprintf" /\ result' = "malloced"
             => result = "malloced" \/ length + 1 > maxlength
    BY <1>1, <1>2, <2>1, RoomKeeps DEF FormatInv
  <2>3. PrintfTypeOK'
    BY <2>0, <2>2 DEF FormatInv, PrintfTypeOK, Stages
  <2>4. PlaceInv'
    BY <2>0 DEF FormatInv, PlaceInv
  <2>5. RoomInv'
    BY <1>2, <2>0, <2>1, <2>2 DEF RoomInv, Running
  <2>6. OverflowInv'
    <3>1. maxlength \in Nat
      BY DEF FormatInv, PrintfTypeOK
    <3> QED BY <1>2, <2>0, <2>2, <3>1 DEF FormatInv, OverflowInv
  <2>7. CountInv'
    BY <2>0 DEF FormatInv, CountInv, Places, Passed
  <2> QED BY <2>2, <2>3, <2>4, <2>5, <2>6, <2>7 DEF FormatInv
<1> QED BY <1>4, <1>5, <1>6

LEMMA PrepareKeeps ==
  ASSUME FormatInv, Prepare
  PROVE  FormatInv'
<1>1. stage = "directive" /\ dirs[i].dir.conv \notin {"%", "n"}
      /\ Ensure(length + 1, stage' = "attempt" /\ UNCHANGED <<callVars, parseVars, i, useN,
                                                              length, text, retval>>)
  BY DEF Prepare
<1> QED BY <1>1, RoomForNulKeeps

LEMMA FinalNulKeeps ==
  ASSUME FormatInv, FinalNul
  PROVE  FormatInv'
<1>1. stage = "end"
      /\ Ensure(length + 1, stage' = "shrink" /\ UNCHANGED <<callVars, parseVars, i, useN,
                                                             length, text, retval>>)
  BY DEF FinalNul
<1> QED BY <1>1, RoomForNulKeeps

LEMMA ShrinkKeeps ==
  ASSUME FormatInv, Shrink
  PROVE  FormatInv'
<1>1. /\ stage = "shrink" /\ stage' = "back"
      /\ allocated' \in {length + 1, allocated}
      /\ allocated' # allocated => result = "malloced"
      /\ blocks' = blocks \cap {"result"}
      /\ UNCHANGED <<callVars, parseVars, i, useN, result, length, text, retval>>
  BY DEF Shrink
<1> USE DEF FormatInv, callVars, parseVars
<1>2. PrintfTypeOK'
  BY <1>1 DEF PrintfTypeOK, Stages
<1>3. MemoryInv' /\ PlaceInv'
  BY <1>1 DEF MemoryInv, NothingIsLeaked, PlaceInv
<1>4. RoomInv' /\ OverflowInv'
  BY <1>1, <1>2 DEF PrintfTypeOK, RoomInv, Running, OverflowInv
<1>5. CountInv'
  BY <1>1 DEF CountInv, Places, Passed
<1> QED BY <1>2, <1>3, <1>4, <1>5

LEMMA BackKeeps ==
  ASSUME FormatInv, Back
  PROVE  FormatInv'
<1>1. /\ stage = "back" /\ stage' = "done"
      /\ blocks' = IF caller = "vasprintf" THEN blocks ELSE blocks \ {"result"}
      /\ UNCHANGED <<callVars, parseVars, outVars>>
  BY DEF Back
<1> USE DEF FormatInv, callVars, parseVars, outVars
<1>2. /\ retval' \in {"running", "length", "-1", "aborted", "crashed"}
      /\ retval' = "aborted" =>
           /\ caller = "vsnprintf" /\ result \notin {"given", "null"} /\ length < maxlength
      /\ retval' = "crashed" => caller = "vsnprintf" /\ result = "null"
  <2>1. caller \in {"vfprintf", "vasprintf", "vsprintf", "vsnprintf"}
    BY PrintfConstants DEF PrintfTypeOK
  <2>2. CASE caller \in {"vfprintf", "vasprintf"}
    BY <2>2 DEF Back
  <2>3. CASE caller = "vsprintf"
    BY <2>3 DEF Back
  <2>4. CASE caller = "vsnprintf"
    BY <2>4 DEF Back
  <2> QED BY <2>1, <2>2, <2>3, <2>4
<1>3. PrintfTypeOK'
  BY <1>1, <1>2 DEF PrintfTypeOK, Stages
<1>4. MemoryInv' /\ PlaceInv'
  BY <1>1 DEF PrintfTypeOK, MemoryInv, NothingIsLeaked, PlaceInv
<1>5. RoomInv' /\ OverflowInv'
  BY <1>1, <1>2 DEF PrintfTypeOK, RoomInv, Running, OverflowInv
<1>6. CountInv'
  BY <1>1 DEF CountInv, Places, Passed
<1> QED BY <1>3, <1>4, <1>5, <1>6

(* What the count and the return value of snprintf say about the length of a *)
(* directive: the length itself, or that there is no room or no conversion.  *)
LEMMA SnprintfTells ==
  ASSUME NEW out \in Int, NEW maxlen \in Int, out >= -1
  PROVE  LET s     == Snprintf(out, maxlen)
             count == IF s.count >= 0 THEN Max({s.count, s.retcount}) ELSE s.retcount
         IN  /\ s.count >= 0 \/ s.retcount >= 0 => count = out /\ out >= 0
             /\ s.retcount < 0 => out < 0 \/ out >= maxlen
<1> DEFINE s     == Snprintf(out, maxlen)
           count == IF s.count >= 0 THEN Max({s.count, s.retcount}) ELSE s.retcount
<1>1. /\ s.count = IF libc = "c99" /\ useN THEN out ELSE -1
      /\ s.retcount = IF libc = "hpux" /\ ~ (out < maxlen) THEN -1 ELSE out
  BY DEF Snprintf
<1> HIDE DEF s
<1>2. s.retcount < 0 => out < 0 \/ out >= maxlen
  BY <1>1
<1>3. CASE s.count >= 0
  <2>1. s.count = out /\ s.retcount = out
    BY <1>1, <1>3
  <2>2. Max({out, out}) = out
    BY MaxOfTwo
  <2> QED BY <1>2, <1>3, <2>1, <2>2 DEF s
<1>4. CASE ~ (s.count >= 0)
  <2>1. count = s.retcount
    BY <1>4
  <2>2. s.retcount >= 0 => s.retcount = out
    BY <1>1
  <2> QED BY <1>2, <1>4, <2>1, <2>2 DEF s
<1> QED BY <1>3, <1>4

LEMMA MoreRoomKeeps ==
  ASSUME FormatInv, stage = "attempt", NEW needed \in Nat,
         Need < 0 \/ length + Need >= allocated,
         Ensure(needed, UNCHANGED <<callVars, stage, parseVars, i, useN, length, text, retval>>)
  PROVE  FormatInv'
<1> DEFINE next == UNCHANGED <<callVars, stage, parseVars, i, useN, length, text, retval>>
<1>1. Ensure(needed, next) /\ Running
  BY DEF Running
<1>2. length \in Nat /\ allocated \in Nat /\ maxlength \in Nat /\ Need \in Int
      /\ length < allocated
  BY DirectiveParts DEF FormatInv, PrintfTypeOK, RoomInv, PlaceInv
<1> HIDE DEF next
<1>4. (Room(needed) /\ next) \/ GiveUp
  BY <1>1, <1>2, EnsureMakesRoom
<1>5. CASE GiveUp
  BY <1>1, <1>5, GiveUpKeeps
<1>6. CASE Room(needed) /\ next
  <2> USE <1>6 DEF callVars, parseVars
  <2>0. UNCHANGED <<callVars, stage, parseVars, i, useN, length, text, retval>>
    BY DEF next
  <2>1. Running' /\ caller' = caller /\ maxlength' = maxlength
    BY <2>0 DEF Running
  <2>2. /\ result' \in {"null", "given", "malloced"}
        /\ blocks' \subseteq {"dir", "arg", "buf", "result"}
        /\ allocated' \in Nat /\ allocated' >= needed
        /\ MemoryInv'
        /\ result' = "given" => allocated' = maxlength'
        /\ result' = "null" => needed = 0 /\ allocated' = 0
                               /\ caller' \in {"vfprintf", "vasprintf"}
        /\ caller = "vsnprintf" /\ result' = "malloced"
             => result = "malloced" \/ needed > maxlength
    BY <1>1, <1>2, <2>1, RoomKeeps DEF FormatInv
  <2>3. PrintfTypeOK'
    BY <2>0, <2>2 DEF FormatInv, PrintfTypeOK, Stages
  <2>4. PlaceInv'
    BY <2>0 DEF FormatInv, PlaceInv
  <2>5. length' < allocated' /\ RoomInv'
    <3>1. allocated' >= allocated
      BY <1>2, <2>2 DEF Room
    <3> QED BY <1>2, <2>0, <2>1, <2>2, <3>1 DEF RoomInv, Running
  <2>6. OverflowInv'
    <3>1. Need' = Need
      BY <2>0 DEF Need
    <3>2. ASSUME caller = "vsnprintf"
          PROVE  length >= maxlength \/ Need < 0 \/ length + Need >= maxlength
      <4>1. CASE result = "malloced"
        BY <3>2, <4>1 DEF FormatInv, OverflowInv
      <4>2. CASE result # "malloced"
        <5>1. result = "given" /\ allocated = maxlength
          BY <1>1, <3>2, <4>2 DEF FormatInv, PrintfTypeOK, RoomInv
        <5> QED BY <5>1
      <4> QED BY <4>1, <4>2
    <3> QED BY <2>0, <3>1, <3>2 DEF FormatInv, OverflowInv
  <2>7. CountInv'
    BY <2>0 DEF FormatInv, CountInv, Places, Passed
  <2> QED BY <2>2, <2>3, <2>4, <2>5, <2>6, <2>7 DEF FormatInv
<1> QED BY <1>4, <1>5, <1>6

LEMMA AttemptKeeps ==
  ASSUME FormatInv, Attempt
  PROVE  FormatInv'
<1> DEFINE maxlen == allocated - length
           s      == Snprintf(Need, maxlen)
           count  == IF s.count >= 0 THEN Max({s.count, s.retcount}) ELSE s.retcount
<1>0. stage = "attempt" /\ Running
  BY DEF Attempt, Running
<1>1. /\ length \in Nat /\ allocated \in Nat /\ maxlength \in Nat /\ length < allocated
      /\ i \in 1..Len(dirs) /\ Len(dirs) \in Nat /\ Need \in Int /\ Need >= -1
      /\ dirs[i].arg \in Int
  BY <1>0, DirectiveParts DEF FormatInv, PrintfTypeOK, RoomInv, PlaceInv
<1>2. \/ s.count < 0 /\ useN /\ useN' = FALSE
         /\ UNCHANGED <<callVars, stage, parseVars, i, result, allocated, length, text,
                        blocks, retval>>
      \/ s.retcount < 0
         /\ Ensure(BiggerNeed, UNCHANGED <<callVars, stage, parseVars, i, useN, length,
                                           text, retval>>)
      \/ (s.count >= 0 \/ s.retcount >= 0) /\ ~ (count < maxlen)
         /\ Ensure(Max({length + count, 2 * allocated}),
                   UNCHANGED <<callVars, stage, parseVars, i, useN, length, text, retval>>)
      \/ /\ s.count >= 0 \/ s.retcount >= 0
         /\ count < maxlen /\ length' = length + count
         /\ text' = Append(text, <<IF Need < maxlen THEN "arg" ELSE "cut", dirs[i].arg>>)
         /\ i' = i + 1 /\ stage' = "text" /\ useN' = TRUE
         /\ UNCHANGED <<callVars, parseVars, result, allocated, blocks, retval>>
  BY DEF Attempt, Need, Fits, Next1
<1>3. /\ s.count >= 0 \/ s.retcount >= 0 => count = Need /\ Need >= 0
      /\ s.retcount < 0 => Need < 0 \/ Need >= maxlen
  <2>1. maxlen \in Int
    BY <1>1
  <2> HIDE DEF maxlen
  <2> QED BY <1>1, <2>1, SnprintfTells, Zenon
<1> HIDE DEF s, count
<1>4. CASE useN' = FALSE /\ UNCHANGED <<callVars, stage, parseVars, i, result, allocated,
                                        length, text, blocks, retval>>
  <2> USE <1>4 DEF FormatInv, callVars, parseVars
  <2>1. PrintfTypeOK'
    BY DEF PrintfTypeOK, Stages
  <2>2. MemoryInv' /\ PlaceInv' /\ RoomInv' /\ OverflowInv'
    BY DEF MemoryInv, NothingIsLeaked, PlaceInv, RoomInv, Running, OverflowInv, Need
  <2>3. CountInv'
    BY DEF CountInv, Places, Passed
  <2> QED BY <2>1, <2>2, <2>3
<1>5. CASE s.retcount < 0
           /\ Ensure(BiggerNeed, UNCHANGED <<callVars, stage, parseVars, i, useN, length,
                                             text, retval>>)
  <2>1. Need < 0 \/ length + Need >= allocated
    BY <1>1, <1>3, <1>5
  <2>2. BiggerNeed \in Nat
    BY <1>1 DEF BiggerNeed
  <2> QED BY <1>0, <1>5, <2>1, <2>2, MoreRoomKeeps
<1>6. CASE (s.count >= 0 \/ s.retcount >= 0) /\ ~ (count < maxlen)
           /\ Ensure(Max({length + count, 2 * allocated}),
                     UNCHANGED <<callVars, stage, parseVars, i, useN, length, text, retval>>)
  <2>1. count = Need /\ Need >= 0 /\ length + Need >= allocated
    BY <1>1, <1>3, <1>6
  <2>2. Max({length + count, 2 * allocated}) \in Nat
    <3> DEFINE a == length + count
               b == 2 * allocated
    <3>1. a \in Nat /\ b \in Nat
      BY <1>1, <2>1
    <3> HIDE DEF a, b
    <3>2. Max({a, b}) \in {a, b}
      BY <3>1, MaxOfTwo
    <3>3. Max({a, b}) \in Nat
      BY <3>1, <3>2
    <3> QED BY <3>3 DEF a, b
  <2> QED BY <1>0, <1>6, <2>1, <2>2, MoreRoomKeeps
<1>7. CASE /\ s.count >= 0 \/ s.retcount >= 0
           /\ count < maxlen /\ length' = length + count
           /\ text' = Append(text, <<IF Need < maxlen THEN "arg" ELSE "cut", dirs[i].arg>>)
           /\ i' = i + 1 /\ stage' = "text" /\ useN' = TRUE
           /\ UNCHANGED <<callVars, parseVars, result, allocated, blocks, retval>>
  <2> USE DEF callVars, parseVars
  <2>1. count = Need /\ Need >= 0 /\ Need < maxlen /\ length' = length + Need
        /\ text' = Append(text, <<"arg", dirs[i].arg>>)
        /\ i' = i + 1 /\ stage' = "text" /\ useN' = TRUE
        /\ UNCHANGED <<callVars, parseVars, result, allocated, blocks, retval>>
    BY <1>3, <1>7
  <2>2. <<"arg", dirs[i].arg>> \in Pieces \X Int
    BY <1>1 DEF Pieces
  <2>3. PrintfTypeOK'
    <3>1. text' \in Seq(Pieces \X Int)
      BY <2>1, <2>2 DEF FormatInv, PrintfTypeOK
    <3>2. length' \in Nat /\ stage' \in Stages /\ i' \in 1..(Len(dirs) + 1)
      BY <1>1, <2>1 DEF Stages
    <3> QED BY <2>1, <3>1, <3>2 DEF FormatInv, PrintfTypeOK
  <2>4. MemoryInv' /\ PlaceInv'
    BY <1>0, <1>1, <2>1 DEF FormatInv, MemoryInv, NothingIsLeaked, PlaceInv
  <2>5. RoomInv' /\ OverflowInv'
    BY <1>0, <1>1, <2>1 DEF FormatInv, RoomInv, Running, OverflowInv
  <2>6. CountInv'
    <3>1. dirs \in Seq(ParsedDirective) /\ text \in Seq(Pieces \X Int)
          /\ dirs[i].dir.conv # "n"
      BY <1>0 DEF FormatInv, PrintfTypeOK, PlaceInv
    <3>2. ASSUME NEW a \in Int \ {-1}
          PROVE  Cardinality(Places(text', a)) = Cardinality(Passed(i + 1, a))
      <4>1. Cardinality(Places(text, a)) = Cardinality(Passed(i, a))
        BY DEF FormatInv, CountInv
      <4>2. CASE dirs[i].arg = a
        <5>1. Cardinality(Places(text', a)) = Cardinality(Places(text, a)) + 1
          BY <2>1, <2>2, <3>1, <4>2, PlacesGrow
        <5>2. Cardinality(Passed(i + 1, a)) = Cardinality(Passed(i, a)) + 1
          BY <1>1, <3>1, <4>2, PassedGrow
        <5> QED BY <4>1, <5>1, <5>2
      <4>3. CASE dirs[i].arg # a
        <5>1. Cardinality(Places(text', a)) = Cardinality(Places(text, a))
          BY <2>1, <2>2, <3>1, <4>3, PlacesGrow
        <5>2. Cardinality(Passed(i + 1, a)) = Cardinality(Passed(i, a))
          BY <1>1, <3>1, <4>3, PassedGrow
        <5> QED BY <4>1, <5>1, <5>2
      <4> QED BY <4>2, <4>3
    <3>3. ASSUME NEW a \in Int PROVE Passed(i, a)' = Passed(i + 1, a)
      BY <2>1 DEF Passed
    <3> QED BY <3>2, <3>3 DEF CountInv, Places
  <2> QED BY <2>3, <2>4, <2>5, <2>6 DEF FormatInv
<1> QED BY <1>2, <1>4, <1>5, <1>6, <1>7

-----------------------------------------------------------------------------
(* A sequence of numbers has a greatest one, which max finds.                *)
LEMMA MaxOfRange ==
  ASSUME NEW n \in Nat, NEW f, \A k \in 1..n : f[k] \in Nat
  PROVE  LET S == {f[k] : k \in 1..n} \cup {0}
         IN  /\ Max(S) \in S
             /\ \A x \in S : Max(S) >= x
<1> DEFINE S(m) == {f[k] : k \in 1..m} \cup {0}
           T == {m \in Nat : \E x \in S(m) : \A y \in S(m) : x >= y}
<1>1. ASSUME NEW m \in 0..n PROVE \A x \in S(m) : x \in Nat
  BY <1>1
<1>2. 0 \in T
  OBVIOUS
<1>3. ASSUME NEW m \in 0..(n - 1), m \in T PROVE m + 1 \in T
  <2>1. PICK x \in S(m) : \A y \in S(m) : x >= y
    BY <1>3
  <2>2. S(m + 1) = S(m) \cup {f[m + 1]} /\ f[m + 1] \in Nat /\ m + 1 \in Nat
    BY <1>3
  <2>3. x \in Nat /\ \A y \in S(m) : y \in Nat
    BY <1>1, <2>1
  <2> HIDE DEF S
  <2>4. CASE x >= f[m + 1]
    BY <2>1, <2>2, <2>3, <2>4
  <2>5. CASE ~ (x >= f[m + 1])
    <3>1. f[m + 1] \in S(m + 1) /\ \A y \in S(m + 1) : f[m + 1] >= y
      BY <2>1, <2>2, <2>3, <2>5
    <3> QED BY <2>2, <3>1
  <2> QED BY <2>4, <2>5
<1>4. n \in T
  <2> DEFINE R == OpToRel(<, Nat)
             F == {m \in 0..n : m \notin T}
  <2> HIDE DEF T
  <2> SUFFICES ASSUME n \notin T PROVE FALSE
    OBVIOUS
  <2>1. n \in F /\ F \in SUBSET Nat
    OBVIOUS
  <2>2. IsWellFoundedOn(R, Nat)
    BY NatLessThanWellFounded
  <2>3. PICK m \in F : \A y \in F : ~ (<<y, m>> \in R)
    <3> HIDE DEF R, F
    <3> QED BY <2>1, <2>2, WFMin
  <2>4. m \in 0..n /\ m \notin T /\ \A j \in 0..n : j \notin T => ~ (<<j, m>> \in R)
    <3> HIDE DEF R
    <3> QED BY <2>3
  <2> HIDE DEF F, R
  <2>5. m \in 1..n
    <3>1. m # 0
      BY <1>2, <2>4
    <3> QED BY <2>4, <3>1
  <2>6. m - 1 \in 0..(n - 1) /\ m - 1 < m /\ (m - 1) + 1 = m /\ m - 1 \in Nat /\ m \in Nat
    BY <2>5
  <2>7. <<m - 1, m>> \in R
    BY <2>6 DEF R, OpToRel
  <2>8. m - 1 \in 0..n
    BY <2>6
  <2>9. m - 1 \in T
    BY <2>4, <2>7, <2>8, Zenon
  <2>10. (m - 1) + 1 \in T
    BY <1>3, <2>6, <2>9, Zenon
  <2> QED BY <2>4, <2>6, <2>10
<1>5. \E x \in S(n) : \A y \in S(n) : x >= y
  BY <1>4
<1> HIDE DEF S, T
<1>6. Max(S(n)) \in S(n) /\ \A y \in S(n) : Max(S(n)) >= y
  BY <1>5 DEF Max
<1> QED BY <1>6 DEF S

LEMMA PartLengths ==
  ASSUME NEW p \in Directive
  PROVE  /\ WidthLength(p) \in Nat /\ PrecLength(p) \in Nat /\ p.flags \in 0..6
         /\ \A type : SizeLetters(type) \in 0..2
<1>1. p.width \in Extent /\ p.prec \in Extent /\ p.flags \in 0..6
  BY DEF Directive
<1>2. ASSUME NEW e \in Extent, e.kind = "digits" PROVE e.n \in Nat
  BY <1>2 DEF Extent
<1>3. WidthLength(p) \in Nat
  <2>1. CASE p.width.kind = "digits"
    <3>1. p.width.n \in Nat
      BY <1>1, <1>2, <2>1
    <3> QED BY <2>1, <3>1 DEF WidthLength
  <2>2. CASE p.width.kind # "digits"
    BY <2>2 DEF WidthLength
  <2> QED BY <2>1, <2>2
<1>4. PrecLength(p) \in Nat
  <2>1. CASE p.prec.kind = "digits"
    <3>1. p.prec.n \in Nat
      BY <1>1, <1>2, <2>1
    <3> QED BY <2>1, <3>1 DEF PrecLength
  <2>2. CASE p.prec.kind # "digits"
    BY <2>2 DEF PrecLength
  <2> QED BY <2>1, <2>2
<1>5. ASSUME NEW type PROVE SizeLetters(type) \in 0..2
  BY DEF SizeLetters
<1> QED BY <1>1, <1>3, <1>4, <1>5

(* The buffer for one directive is sized for the widest of each part.        *)
LEMMA LargestParts ==
  ASSUME dirs \in Seq(ParsedDirective), i \in 1..Len(dirs)
  PROVE  /\ MaxOf(WidthLength) \in Nat /\ MaxOf(WidthLength) >= WidthLength(dirs[i].dir)
         /\ MaxOf(PrecLength) \in Nat /\ MaxOf(PrecLength) >= PrecLength(dirs[i].dir)
<1>1. ASSUME NEW k \in 1..Len(dirs) PROVE dirs[k].dir \in Directive
  <2>1. dirs[k] \in ParsedDirective
    OBVIOUS
  <2> QED BY <2>1 DEF ParsedDirective
<1>2. Len(dirs) \in Nat /\ DOMAIN dirs = 1..Len(dirs)
  OBVIOUS
<1>3. MaxOf(WidthLength) \in Nat /\ MaxOf(WidthLength) >= WidthLength(dirs[i].dir)
  <2> DEFINE f == [k \in 1..Len(dirs) |-> WidthLength(dirs[k].dir)]
             S == {f[k] : k \in 1..Len(dirs)} \cup {0}
  <2>1. \A k \in 1..Len(dirs) : f[k] = WidthLength(dirs[k].dir) /\ f[k] \in Nat
    BY <1>1, PartLengths
  <2>2. MaxOf(WidthLength) = Max(S)
    <3>1. S = {WidthLength(dirs[k].dir) : k \in DOMAIN dirs} \cup {0}
      BY <1>2, <2>1
    <3> HIDE DEF S
    <3> QED BY <3>1 DEF MaxOf
  <2> HIDE DEF f
  <2>3. Max(S) \in S /\ \A x \in S : Max(S) >= x
    BY <1>2, <2>1, MaxOfRange
  <2>4. Max(S) \in Nat /\ Max(S) >= f[i]
    BY <2>1, <2>3
  <2> QED BY <2>1, <2>2, <2>4
<1>4. MaxOf(PrecLength) \in Nat /\ MaxOf(PrecLength) >= PrecLength(dirs[i].dir)
  <2> DEFINE f == [k \in 1..Len(dirs) |-> PrecLength(dirs[k].dir)]
             S == {f[k] : k \in 1..Len(dirs)} \cup {0}
  <2>1. \A k \in 1..Len(dirs) : f[k] = PrecLength(dirs[k].dir) /\ f[k] \in Nat
    BY <1>1, PartLengths
  <2>2. MaxOf(PrecLength) = Max(S)
    <3>1. S = {PrecLength(dirs[k].dir) : k \in DOMAIN dirs} \cup {0}
      BY <1>2, <2>1
    <3> HIDE DEF S
    <3> QED BY <3>1 DEF MaxOf
  <2> HIDE DEF f
  <2>3. Max(S) \in S /\ \A x \in S : Max(S) >= x
    BY <1>2, <2>1, MaxOfRange
  <2>4. Max(S) \in Nat /\ Max(S) >= f[i]
    BY <2>1, <2>3
  <2> QED BY <2>1, <2>2, <2>4
<1> QED BY <1>3, <1>4

LEMMA DirectivesFit == FormatInv => DirectiveFits
<1> SUFFICES ASSUME FormatInv, stage = "attempt"
             PROVE  Built(dirs[i].dir) <= NeededLength
  BY DEF DirectiveFits
<1>1. i \in 1..Len(dirs) /\ dirs[i].dir \in Directive /\ dirs \in Seq(ParsedDirective)
  BY DirectiveParts DEF FormatInv, PrintfTypeOK, PlaceInv
<1> DEFINE p == dirs[i].dir
           letters == SizeLetters(ArgType(p.conv, p.mods))
           mw == MaxOf(WidthLength)
           mp == MaxOf(PrecLength)
<1>2. WidthLength(p) \in Nat /\ PrecLength(p) \in Nat /\ p.flags \in 0..6 /\ letters \in 0..2
  BY <1>1, PartLengths
<1>3. mw \in Nat /\ mw >= WidthLength(p) /\ mp \in Nat /\ mp >= PrecLength(p)
  BY <1>1, LargestParts, Zenon
<1>4. Built(p) = 1 + p.flags + WidthLength(p) + PrecLength(p) + letters + 1 + 2 + 1
  BY DEF Built
<1>5. NeededLength = 7 + mw + mp + 6
  BY Zenon DEF NeededLength
<1> HIDE DEF p, letters, mw, mp
<1>6. Built(p) <= NeededLength
  BY <1>2, <1>3, <1>4, <1>5
<1> QED BY <1>6 DEF p

-----------------------------------------------------------------------------
(* Every step of the formatter keeps its invariant.                          *)
LEMMA FormatStep == FormatInv /\ [PrintfNext]_printfVars => FormatInv'
<1> SUFFICES ASSUME FormatInv, [PrintfNext]_printfVars PROVE FormatInv'
  OBVIOUS
<1>1. CASE PrintfNext
  BY <1>1, ParsingKeeps, CopyTextKeeps, PercentKeeps, StoreCountKeeps, PrepareKeeps,
     AttemptKeeps, FinalNulKeeps, ShrinkKeeps, BackKeeps DEF PrintfNext
<1>2. CASE UNCHANGED printfVars
  <2> USE <1>2 DEF printfVars, callVars, parseVars, outVars, FormatInv
  <2>1. PrintfTypeOK'
    BY DEF PrintfTypeOK
  <2>2. MemoryInv' /\ PlaceInv' /\ RoomInv' /\ OverflowInv'
    BY DEF MemoryInv, NothingIsLeaked, PlaceInv, RoomInv, Running, OverflowInv, Need
  <2>3. CountInv'
    BY DEF CountInv, Places, Passed
  <2> QED BY <2>1, <2>2, <2>3
<1> QED BY <1>1, <1>2

THEOREM FormattingInvariant == PrintfSpec => []FormatInv
BY FormatStart, FormatStep, PTL DEF PrintfSpec

(* Whatever fails, a call of vasnprintf and its caller free all they have    *)
(* allocated but the string that vasprintf hands out.                        *)
THEOREM FormattingLeaksNothing == PrintfSpec => []NothingIsLeaked
<1>1. FormatInv => NothingIsLeaked
  BY DEF FormatInv, MemoryInv
<1> QED BY <1>1, FormattingInvariant, PTL

(* The result lies in its buffer with every argument in it once and whole,   *)
(* and the text of a directive lies in the buffer for it.                    *)
THEOREM FormattingStaysInside == PrintfSpec => []BuffersSuffice
<1>1. ASSUME FormatInv PROVE OutputFits
  <2> USE <1>1 DEF FormatInv
  <2>1. length <= allocated
    BY DEF RoomInv
  <2>2. length > 0 => result # "null" \/ stage \in {"back", "done"}
    BY DEF PrintfTypeOK, RoomInv, Running
  <2>3. ASSUME stage \in {"back", "done"}, result # "null"
        PROVE  /\ length < allocated
               /\ \A k \in DOMAIN dirs : dirs[k].arg # -1 /\ dirs[k].dir.conv # "n" =>
                    Cardinality({m \in DOMAIN text : text[m] = <<"arg", dirs[k].arg>>})
                      = Cardinality({j \in DOMAIN dirs : dirs[j].arg = dirs[k].arg
                                                      /\ dirs[j].dir.conv # "n"})
    <3>1. length < allocated /\ i = Len(dirs) + 1
      BY <2>3 DEF RoomInv, Running, PlaceInv
    <3>2. ASSUME NEW k \in DOMAIN dirs, dirs[k].arg # -1
          PROVE  Cardinality({m \in DOMAIN text : text[m] = <<"arg", dirs[k].arg>>})
                   = Cardinality({j \in DOMAIN dirs : dirs[j].arg = dirs[k].arg
                                                   /\ dirs[j].dir.conv # "n"})
      <4> DEFINE a == dirs[k].arg
      <4>1. dirs \in Seq(ParsedDirective) /\ DOMAIN dirs = 1..Len(dirs) /\ Len(dirs) \in Nat
        BY DEF PrintfTypeOK
      <4>2. a \in Int \ {-1}
        <5>1. dirs[k] \in ParsedDirective
          BY <3>2, <4>1
        <5> QED BY <3>2, <5>1 DEF ParsedDirective
      <4> HIDE DEF a
      <4>3. Cardinality(Places(text, a)) = Cardinality(Passed(i, a))
        BY <4>2 DEF CountInv
      <4>4. Passed(i, a) = {j \in DOMAIN dirs : dirs[j].arg = a /\ dirs[j].dir.conv # "n"}
        BY <3>1, <4>1 DEF Passed
      <4> QED BY <4>3, <4>4 DEF Places, a
    <3> QED BY <3>1, <3>2
  <2>4. retval # "aborted" /\ (retval = "crashed" => caller = "vsnprintf" /\ result = "null")
    BY DEF OverflowInv
  <2> QED BY <2>1, <2>2, <2>3, <2>4, Zenon DEF OutputFits
<1>2. FormatInv => BuffersSuffice
  BY <1>1, DirectivesFit DEF BuffersSuffice
<1> QED BY <1>2, FormattingInvariant, PTL

-----------------------------------------------------------------------------
(* What the parser has made of the directives so far: each has the indices a *)
(* reader would number, and its arguments have places of their types.        *)
Types == {<<NONE>>, INT} \cup {ArgType(p.conv, p.mods) : p \in Directive}

ArgsInv ==
  /\ args \in Seq(Types) /\ a_allocated \in Nat /\ d_allocated \in Nat
  /\ Len(args) <= a_allocated /\ Len(dirs) < d_allocated
  /\ Len(dirs) <= Len(format.dirs)
  /\ arg_posn = Unnumbered(Len(dirs))
  /\ \A k \in DOMAIN dirs :
       LET d == dirs[k]
           p == format.dirs[k]
       IN  /\ Legal(p)
           /\ {d.width, d.prec, d.arg} \ {-1} \subseteq 0..(Len(args) - 1)
           /\ p.conv # "%" =>
                /\ d.arg # -1
                /\ d.arg = IF p.n # -1 THEN p.n - 1 ELSE Unnumbered(k) - 1
                /\ args[d.arg + 1] = ArgType(p.conv, p.mods)
           /\ \A n \in {d.width, d.prec} \ {-1} : args[n + 1] = INT

(* Whether use m of directive j takes the next argument in order; the uses   *)
(* of the first k directives, and of the next one the first m.               *)
InOrder(j, m) ==
  LET uses == Uses(format.dirs[j]) IN m \in DOMAIN uses /\ uses[m] = -1
UpTo(k, m) == {u \in (1..(k + 1)) \X (1..3) : InOrder(u[1], u[2]) /\ (u[1] <= k \/ u[2] <= m)}

LEMMA UpToGrows ==
  ASSUME NEW k \in Nat, NEW m \in 1..3
  PROVE  /\ IsFiniteSet(UpTo(k, m - 1)) /\ Cardinality(UpTo(k, m - 1)) \in Nat
         /\ Cardinality(UpTo(k, m)) =
              Cardinality(UpTo(k, m - 1)) + IF InOrder(k + 1, m) THEN 1 ELSE 0
<1>1. IsFiniteSet(UpTo(k, m - 1)) /\ Cardinality(UpTo(k, m - 1)) \in Nat
  <2>1. IsFiniteSet(1..(k + 1)) /\ IsFiniteSet(1..3)
    <3>1. k + 1 \in Int /\ 1 \in Int /\ 3 \in Int
      OBVIOUS
    <3> QED BY <3>1, FS_Interval
  <2>2. IsFiniteSet((1..(k + 1)) \X (1..3))
    BY <2>1, FS_Product
  <2>3. UpTo(k, m - 1) \subseteq (1..(k + 1)) \X (1..3)
    BY DEF UpTo
  <2>4. IsFiniteSet(UpTo(k, m - 1))
    BY <2>2, <2>3, FS_Subset
  <2> QED BY <2>4, FS_CardinalityType
<1>2. CASE InOrder(k + 1, m)
  <2>1. UpTo(k, m) = UpTo(k, m - 1) \cup {<<k + 1, m>>}
    BY <1>2 DEF UpTo
  <2>2. <<k + 1, m>> \notin UpTo(k, m - 1)
    BY DEF UpTo
  <2> QED BY <1>1, <1>2, <2>1, <2>2, FS_AddElement
<1>3. CASE ~ InOrder(k + 1, m)
  <2>1. UpTo(k, m) = UpTo(k, m - 1)
    BY <1>3 DEF UpTo
  <2> QED BY <1>1, <1>3, <2>1
<1> QED BY <1>1, <1>2, <1>3

(* What a directive takes in order.                                          *)
Takes(p) == (IF Star(p.width) THEN Bump(p.width.n) ELSE 0)
            + (IF Star(p.prec) THEN Bump(p.prec.n) ELSE 0)
            + (IF p.conv = "%" THEN 0 ELSE Bump(p.n))

LEMMA Concatenated ==
  ASSUME NEW a, NEW b, NEW c
  PROVE  /\ <<a>> \o <<b>> = <<a, b>>
         /\ <<a, b>> \o <<c>> = <<a, b, c>>
         /\ <<a>> \o <<>> = <<a>> /\ <<>> \o <<a>> = <<a>> /\ <<>> \o <<>> = <<>>
         /\ <<a, b>> \o <<>> = <<a, b>>
<1> DEFINE S == {a, b, c}
<1>1. <<a>> \in Seq(S) /\ <<b>> \in Seq(S) /\ <<c>> \in Seq(S) /\ <<>> \in Seq(S)
      /\ <<a, b>> \in Seq(S) /\ <<a, b, c>> \in Seq(S)
  OBVIOUS
<1> HIDE DEF S
<1>2. <<a>> \o <<b>> = <<a, b>>
  <2> DEFINE s == <<a>> \o <<b>>
             t == <<a, b>>
  <2>1. s \in Seq(S) /\ Len(s) = 2 /\ s[1] = a /\ s[2] = b
    BY <1>1
  <2>2. t \in Seq(S) /\ Len(t) = 2 /\ t[1] = a /\ t[2] = b
    BY <1>1
  <2> HIDE DEF s, t
  <2>3. \A k \in 1..Len(s) : s[k] = t[k]
    BY <2>1, <2>2
  <2>4. s = t
    BY <2>1, <2>2, <2>3, SeqEqual
  <2> QED BY <2>4 DEF s, t
<1>3. <<a, b>> \o <<c>> = <<a, b, c>>
  <2> DEFINE s == <<a, b>> \o <<c>>
             t == <<a, b, c>>
  <2>1. s \in Seq(S) /\ Len(s) = 3 /\ s[1] = a /\ s[2] = b /\ s[3] = c
    BY <1>1
  <2>2. t \in Seq(S) /\ Len(t) = 3 /\ t[1] = a /\ t[2] = b /\ t[3] = c
    BY <1>1
  <2> HIDE DEF s, t
  <2>3. \A k \in 1..Len(s) : s[k] = t[k]
    BY <2>1, <2>2
  <2>4. s = t
    BY <2>1, <2>2, <2>3, SeqEqual
  <2> QED BY <2>4 DEF s, t
<1>4. <<a>> \o <<>> = <<a>> /\ <<>> \o <<a>> = <<a>> /\ <<>> \o <<>> = <<>>
         /\ <<a, b>> \o <<>> = <<a, b>>
  BY <1>1
<1> QED BY <1>2, <1>3, <1>4

LEMMA UsesTaken ==
  ASSUME NEW j
  PROVE  (IF InOrder(j, 1) THEN 1 ELSE 0) + (IF InOrder(j, 2) THEN 1 ELSE 0)
           + (IF InOrder(j, 3) THEN 1 ELSE 0) = Takes(format.dirs[j])
<1> DEFINE p    == format.dirs[j]
           wn   == p.width.n
           pn   == p.prec.n
           an   == p.n
           uses == Uses(p)
<1>1. /\ uses = (IF Star(p.width) THEN <<wn>> ELSE <<>>)
                  \o (IF Star(p.prec) THEN <<pn>> ELSE <<>>)
                  \o (IF p.conv = "%" THEN <<>> ELSE <<an>>)
      /\ Takes(p) = (IF Star(p.width) THEN IF wn = -1 THEN 1 ELSE 0 ELSE 0)
            + (IF Star(p.prec) THEN IF pn = -1 THEN 1 ELSE 0 ELSE 0)
            + (IF p.conv = "%" THEN 0 ELSE IF an = -1 THEN 1 ELSE 0)
      /\ \A m : InOrder(j, m) <=> m \in DOMAIN uses /\ uses[m] = -1
  BY DEF Uses, Takes, Bump, InOrder
<1> HIDE DEF uses, wn, pn, an, p
<1>2. CASE Star(p.width) /\ Star(p.prec) /\ p.conv # "%"
  <2>1. uses = <<wn, pn, an>>
    BY <1>1, <1>2, Concatenated
  <2>2. (InOrder(j, 1) <=> wn = -1) /\ (InOrder(j, 2) <=> pn = -1) /\ (InOrder(j, 3) <=> an = -1)
    <3>1. DOMAIN uses = 1..3 /\ uses[1] = wn /\ uses[2] = pn /\ uses[3] = an
      BY <2>1
    <3>2. ASSUME NEW m \in 1..3 PROVE InOrder(j, m) <=> uses[m] = -1
      BY <1>1, <3>1
    <3>3. 1 \in 1..3 /\ 2 \in 1..3 /\ 3 \in 1..3
      OBVIOUS
    <3> QED BY <3>1, <3>2, <3>3
  <2> QED BY <1>1, <1>2, <2>2 DEF p
<1>3. CASE Star(p.width) /\ Star(p.prec) /\ p.conv = "%"
  <2>1. uses = <<wn, pn>>
    BY <1>1, <1>3, Concatenated
  <2> QED BY <1>1, <1>3, <2>1 DEF p
<1>4. CASE Star(p.width) /\ ~ Star(p.prec) /\ p.conv # "%"
  <2>1. uses = <<wn, an>>
    BY <1>1, <1>4, Concatenated
  <2> QED BY <1>1, <1>4, <2>1 DEF p
<1>5. CASE Star(p.width) /\ ~ Star(p.prec) /\ p.conv = "%"
  <2>1. uses = <<wn>>
    BY <1>1, <1>5, Concatenated
  <2> QED BY <1>1, <1>5, <2>1 DEF p
<1>6. CASE ~ Star(p.width) /\ Star(p.prec) /\ p.conv # "%"
  <2>1. uses = <<pn, an>>
    BY <1>1, <1>6, Concatenated
  <2> QED BY <1>1, <1>6, <2>1 DEF p
<1>7. CASE ~ Star(p.width) /\ Star(p.prec) /\ p.conv = "%"
  <2>1. uses = <<pn>>
    BY <1>1, <1>7, Concatenated
  <2> QED BY <1>1, <1>7, <2>1 DEF p
<1>8. CASE ~ Star(p.width) /\ ~ Star(p.prec) /\ p.conv # "%"
  <2>1. uses = <<an>>
    BY <1>1, <1>8, Concatenated
  <2> QED BY <1>1, <1>8, <2>1 DEF p
<1>9. CASE ~ Star(p.width) /\ ~ Star(p.prec) /\ p.conv = "%"
  <2>1. uses = <<>>
    BY <1>1, <1>9, Concatenated
  <2> QED BY <1>1, <1>9, <2>1 DEF p
<1> QED BY <1>2, <1>3, <1>4, <1>5, <1>6, <1>7, <1>8, <1>9

LEMMA UnnumberedGrows ==
  ASSUME NEW k \in Nat
  PROVE  Unnumbered(k) \in Nat /\ Unnumbered(k + 1) = Unnumbered(k) + Takes(format.dirs[k + 1])
<1>1. \A n \in Nat : Unnumbered(n) =
        Cardinality({u \in (1..n) \X (1..3) : InOrder(u[1], u[2])})
  BY DEF Unnumbered, InOrder
<1>2. Unnumbered(k) = Cardinality(UpTo(k, 0))
  <2>1. UpTo(k, 0) = {u \in (1..k) \X (1..3) : InOrder(u[1], u[2])}
    BY DEF UpTo
  <2> QED BY <1>1, <2>1
<1>3. Unnumbered(k + 1) = Cardinality(UpTo(k, 3))
  <2>1. UpTo(k, 3) = {u \in (1..(k + 1)) \X (1..3) : InOrder(u[1], u[2])}
    BY DEF UpTo
  <2> QED BY <1>1, <2>1
<1> DEFINE c(m) == IF InOrder(k + 1, m) THEN 1 ELSE 0
<1>4. /\ Cardinality(UpTo(k, 0)) \in Nat /\ Cardinality(UpTo(k, 1)) = Cardinality(UpTo(k, 0)) + c(1)
      /\ Cardinality(UpTo(k, 2)) = Cardinality(UpTo(k, 1)) + c(2)
      /\ Cardinality(UpTo(k, 3)) = Cardinality(UpTo(k, 2)) + c(3)
  <2>1. 1 - 1 = 0 /\ 2 - 1 = 1 /\ 3 - 1 = 2 /\ 1 \in 1..3 /\ 2 \in 1..3 /\ 3 \in 1..3
    OBVIOUS
  <2>2. \A m \in 1..3 : /\ Cardinality(UpTo(k, m - 1)) \in Nat
                        /\ Cardinality(UpTo(k, m)) = Cardinality(UpTo(k, m - 1)) + c(m)
    BY UpToGrows
  <2> HIDE DEF c
  <2> QED BY <2>1, <2>2
<1>5. c(1) + c(2) + c(3) = Takes(format.dirs[k + 1])
  BY UsesTaken
<1>6. c(1) \in Int /\ c(2) \in Int /\ c(3) \in Int
  OBVIOUS
<1> HIDE DEF c
<1> QED BY <1>2, <1>3, <1>4, <1>5, <1>6

LEMMA ArgsStart == PrintfInit => ArgsInv
<1> SUFFICES ASSUME PrintfInit PROVE ArgsInv
  OBVIOUS
<1> USE DEF PrintfInit
<1>1. format.dirs \in Seq(Directive)
  BY PrintfConstants
<1>2. Unnumbered(0) = 0
  <2>1. {u \in (1..0) \X (1..3) : InOrder(u[1], u[2])} = {}
    OBVIOUS
  <2>2. Unnumbered(0) = Cardinality({u \in (1..0) \X (1..3) : InOrder(u[1], u[2])})
    BY DEF Unnumbered, InOrder
  <2> QED BY <2>1, <2>2, FS_EmptySet
<1> QED BY <1>1, <1>2 DEF ArgsInv

(* Only the parser of a directive touches what it has parsed.                *)
LEMMA OthersDoNotParse ==
  ASSUME [PrintfNext]_printfVars, ~ ParseDirective
  PROVE  UNCHANGED <<format, dirs, d_allocated, args, a_allocated, arg_posn>>
<1> USE DEF callVars, parseVars, printfVars, GiveUp, Ensure
<1>1. CASE ParseError
  BY <1>1 DEF ParseError
<1>2. CASE ParseEnd
  BY <1>2 DEF ParseEnd
<1>3. CASE Fetch
  BY <1>3 DEF Fetch
<1>4. CASE CopyText
  BY <1>4 DEF CopyText
<1>5. CASE Percent
  BY <1>5 DEF Percent
<1>6. CASE StoreCount
  BY <1>6 DEF StoreCount
<1>7. CASE Prepare
  BY <1>7 DEF Prepare
<1>8. CASE Attempt
  BY <1>8 DEF Attempt
<1>9. CASE FinalNul
  BY <1>9 DEF FinalNul
<1>10. CASE Shrink
  BY <1>10 DEF Shrink
<1>11. CASE Back
  BY <1>11 DEF Back
<1>12. CASE UNCHANGED printfVars
  BY <1>12
<1> QED BY <1>1, <1>2, <1>3, <1>4, <1>5, <1>6, <1>7, <1>8, <1>9, <1>10, <1>11, <1>12
        DEF PrintfNext

LEMMA ArgsRest ==
  ASSUME ArgsInv, UNCHANGED <<format, dirs, d_allocated, args, a_allocated, arg_posn>>
  PROVE  ArgsInv'
<1>1. \A k : Unnumbered(k)' = Unnumbered(k)
  BY DEF Unnumbered
<1> QED BY <1>1 DEF ArgsInv

(* The places of a directive's width, precision and argument.                *)
LEMMA IndicesOf ==
  ASSUME NEW p \in Directive, Legal(p), arg_posn \in Nat
  PROVE  LET d == Parsed(p)
         IN  /\ d.width \in Nat \cup {-1} /\ d.prec \in Nat \cup {-1}
             /\ d.arg \in Nat \cup {-1} /\ (p.conv # "%" => d.arg # -1)
             /\ d.next = arg_posn + Takes(p)
             /\ p.conv # "%" => d.arg = IF p.n # -1 THEN p.n - 1 ELSE d.next - 1
<1> DEFINE w  == Star(p.width)
           pr == Star(p.prec)
           b1 == IF w THEN Bump(p.width.n) ELSE 0
           b2 == IF pr THEN Bump(p.prec.n) ELSE 0
           b3 == IF p.conv = "%" THEN 0 ELSE Bump(p.n)
           n1 == arg_posn + b1
           n2 == n1 + b2
<1>1. /\ p.n \in Nat \cup {-1} /\ p.n # 0
      /\ w => p.width.n \in Nat \cup {-1} /\ p.width.n # 0
      /\ pr => p.prec.n \in Nat \cup {-1} /\ p.prec.n # 0
  <2>1. p.n \in ArgNumber /\ p.width \in Extent /\ p.prec \in Extent
    BY DEF Directive
  <2>2. ASSUME NEW e \in Extent PROVE e.n \in ArgNumber
    BY DEF Extent, ArgNumber
  <2>3. p.width.n \in ArgNumber /\ p.prec.n \in ArgNumber
    BY <2>1, <2>2
  <2> QED BY <2>1, <2>3 DEF Legal, ArgNumber
<1>2. ASSUME NEW n \in Nat \cup {-1}, n # 0, NEW m \in Nat
      PROVE  /\ Bump(n) \in 0..1 /\ IndexOf(n, m) \in Nat
             /\ IndexOf(n, m) = IF n # -1 THEN n - 1 ELSE m
             /\ n = -1 => Bump(n) = 1
  BY <1>2 DEF Bump, IndexOf
<1>3. b1 \in 0..1 /\ b2 \in 0..1 /\ b3 \in 0..1 /\ (p.conv # "%" /\ p.n = -1 => b3 = 1)
  <2>1. b1 \in 0..1
    <3>1. CASE w
      <4>1. Bump(p.width.n) \in 0..1
        BY <1>1, <1>2, <3>1
      <4> QED BY <3>1, <4>1
    <3> QED BY <3>1
  <2>2. b2 \in 0..1
    <3>1. CASE pr
      <4>1. Bump(p.prec.n) \in 0..1
        BY <1>1, <1>2, <3>1
      <4> QED BY <3>1, <4>1
    <3> QED BY <3>1
  <2>3. Bump(p.n) \in 0..1 /\ (p.n = -1 => Bump(p.n) = 1)
    BY <1>1, <1>2
  <2> QED BY <2>1, <2>2, <2>3
<1>4. n1 \in Nat /\ n2 \in Nat
  <2> HIDE DEF b1, b2
  <2> QED BY <1>3
<1> DEFINE iw == IF w THEN IndexOf(p.width.n, arg_posn) ELSE -1
           ip == IF pr THEN IndexOf(p.prec.n, n1) ELSE -1
           ia == IF p.conv = "%" THEN -1 ELSE IndexOf(p.n, n2)
<1>5. Parsed(p) = [dir |-> p, width |-> iw, prec |-> ip, arg |-> ia, next |-> n2 + b3]
  BY DEF Parsed
<1>6. Takes(p) = b1 + b2 + b3
  BY DEF Takes
<1>7. /\ w => IndexOf(p.width.n, arg_posn) \in Nat
      /\ pr => IndexOf(p.prec.n, n1) \in Nat
      /\ IndexOf(p.n, n2) \in Nat /\ IndexOf(p.n, n2) = IF p.n # -1 THEN p.n - 1 ELSE n2
  <2> HIDE DEF w, pr, n1, n2
  <2> QED BY <1>1, <1>2, <1>4
<1>8. n2 + b3 = arg_posn + Takes(p)
  <2> HIDE DEF b1, b2, b3
  <2> QED BY <1>3, <1>6
<1>9. /\ iw \in Nat \cup {-1} /\ ip \in Nat \cup {-1} /\ ia \in Nat \cup {-1}
      /\ p.conv # "%" => ia # -1 /\ ia = IF p.n # -1 THEN p.n - 1 ELSE (n2 + b3) - 1
  <2>1. n2 + 1 - 1 = n2
    BY <1>4
  <2> HIDE DEF w, pr, n1, n2, b3
  <2> QED BY <1>1, <1>3, <1>4, <1>7, <2>1
<1> DEFINE nx == n2 + b3
<1>10. nx = arg_posn + Takes(p) /\ (p.conv # "%" => ia = IF p.n # -1 THEN p.n - 1 ELSE nx - 1)
  <2> HIDE DEF ia, n2, b3
  <2> QED BY <1>8, <1>9
<1>11. Parsed(p) = [dir |-> p, width |-> iw, prec |-> ip, arg |-> ia, next |-> nx]
  BY <1>5
<1> HIDE DEF iw, ip, ia, nx
<1> QED BY <1>9, <1>10, <1>11

LEMMA MaxOfFour ==
  ASSUME NEW a \in Int, NEW b \in Int, NEW c \in Int, NEW d \in Int
  PROVE  LET S == {a, b, c, d}
         IN  Max(S) \in S /\ Max(S) >= a /\ Max(S) >= b /\ Max(S) >= c /\ Max(S) >= d
<1> DEFINE S == {a, b, c, d}
<1>1. \E x \in S : \A y \in S : x >= y
  OBVIOUS
<1>2. a \in S /\ b \in S /\ c \in S /\ d \in S
  OBVIOUS
<1> HIDE DEF S
<1>3. Max(S) \in S /\ \A y \in S : Max(S) >= y
  BY <1>1 DEF Max
<1> QED BY <1>2, <1>3 DEF S

(* The argument array after the registrations of a directive.                *)
LEMMA RegisteredArgs ==
  ASSUME NEW p \in Directive, args \in Seq(Types), a_allocated \in Nat,
         Len(args) <= a_allocated,
         Parsed(p).width \in Nat \cup {-1}, Parsed(p).prec \in Nat \cup {-1},
         Parsed(p).arg \in Nat \cup {-1}
  PROVE  LET d == Parsed(p)
             r == Registered(p)
         IN  /\ r.arg \in Seq(Types) /\ Len(r.arg) >= Len(args)
             /\ r.alloc \in Nat /\ Len(r.arg) <= r.alloc
             /\ \A k \in 1..Len(args) : args[k] # <<NONE>> => r.arg[k] = args[k]
             /\ {d.width, d.prec, d.arg} \ {-1} \subseteq 0..(Len(r.arg) - 1)
             /\ r.ok => /\ \A n \in {d.width, d.prec} \ {-1} : r.arg[n + 1] = INT
                        /\ d.arg # -1 => r.arg[d.arg + 1] = ArgType(p.conv, p.mods)
<1> DEFINE d == Parsed(p)
           r == Registered(p)
           regs == Registrations(p)
           Wanted(k) == {x \in 1..3 : regs[x].n = k - 1}
           Typed(k) == IF k <= Len(args) /\ args[k] # <<NONE>> THEN args[k]
                       ELSE IF Wanted(k) = {} THEN <<NONE>>
                            ELSE regs[Min(Wanted(k))].type
           Grow(alloc, x) == IF regs[x].n < alloc THEN alloc
                             ELSE Max({2 * alloc, regs[x].n + 1})
           count == Max({Len(args)} \cup {regs[x].n + 1 : x \in 1..3})
<1>1. r = [ arg   |-> [k \in 1..count |-> Typed(k)],
            alloc |-> Grow(Grow(Grow(a_allocated, 1), 2), 3),
            ok    |-> \A x \in 1..3 : regs[x].n # -1 => Typed(regs[x].n + 1) = regs[x].type ]
  BY DEF Registered
<1>2. /\ regs[1].n = d.width /\ regs[2].n = d.prec /\ regs[3].n = d.arg
      /\ regs[1].type = INT /\ regs[2].type = INT /\ regs[3].type = ArgType(p.conv, p.mods)
  BY DEF Registrations
<1>3. d.width \in Int /\ d.prec \in Int /\ d.arg \in Int /\ Len(args) \in Nat
      /\ d.width >= -1 /\ d.prec >= -1 /\ d.arg >= -1
  OBVIOUS
<1> HIDE DEF d, regs, r
<1>4. /\ \A x \in 1..3 : regs[x].n \in Int /\ regs[x].n >= -1
      /\ \A x \in 1..3 : regs[x].type \in Types
  BY <1>2, <1>3 DEF Types
<1>0. 1 \in 1..3 /\ 2 \in 1..3 /\ 3 \in 1..3
  OBVIOUS
<1>5. /\ count \in Nat /\ count >= Len(args)
      /\ \A x \in 1..3 : count >= regs[x].n + 1
      /\ count \in {Len(args)} \cup {regs[x].n + 1 : x \in 1..3}
  <2> DEFINE L == Len(args)
             m1 == regs[1].n + 1
             m2 == regs[2].n + 1
             m3 == regs[3].n + 1
  <2>1. {Len(args)} \cup {regs[x].n + 1 : x \in 1..3} = {L, m1, m2, m3}
    OBVIOUS
  <2>2. L \in Nat /\ m1 \in Nat /\ m2 \in Nat /\ m3 \in Nat
    <3>1. /\ regs[1].n \in Int /\ regs[1].n >= -1 /\ regs[2].n \in Int /\ regs[2].n >= -1
          /\ regs[3].n \in Int /\ regs[3].n >= -1
      BY <1>0, <1>4
    <3>2. L \in Nat
      BY <1>3
    <3>3. m1 \in Nat
      BY <3>1
    <3>4. m2 \in Nat
      BY <3>1
    <3>5. m3 \in Nat
      BY <3>1
    <3> QED BY <3>2, <3>3, <3>4, <3>5
  <2>3. count = Max({L, m1, m2, m3})
    BY <2>1
  <2> HIDE DEF L, m1, m2, m3, count
  <2>4. count \in {L, m1, m2, m3} /\ count >= L /\ count >= m1 /\ count >= m2 /\ count >= m3
    <3>1. L \in Int /\ m1 \in Int /\ m2 \in Int /\ m3 \in Int
      BY <2>2
    <3> QED BY <2>3, <3>1, MaxOfFour
  <2>5. count \in Nat
    BY <2>2, <2>4
  <2> QED BY <2>1, <2>4, <2>5 DEF L, m1, m2, m3
<1>6. ASSUME NEW alloc \in Nat, NEW x \in 1..3
      PROVE  Grow(alloc, x) \in Nat /\ Grow(alloc, x) >= alloc /\ Grow(alloc, x) >= regs[x].n + 1
  <2> DEFINE a == 2 * alloc
             b == regs[x].n + 1
  <2>0. regs[x].n \in Int /\ regs[x].n >= -1
    BY <1>4
  <2>1. a \in Nat /\ a >= alloc /\ b \in Nat
    BY <2>0
  <2>2. (regs[x].n < alloc) <=> (b <= alloc)
    BY <2>0
  <2>3. Grow(alloc, x) = IF regs[x].n < alloc THEN alloc ELSE Max({a, b})
    OBVIOUS
  <2> HIDE DEF a, b, Grow
  <2>4. Max({a, b}) \in {a, b} /\ Max({a, b}) >= a /\ Max({a, b}) >= b
    <3>1. a \in Int /\ b \in Int
      BY <2>1
    <3> QED BY <3>1, MaxOfTwo
  <2>5. Grow(alloc, x) \in Nat /\ Grow(alloc, x) >= alloc /\ Grow(alloc, x) >= b
    BY <2>1, <2>2, <2>3, <2>4
  <2> QED BY <2>5 DEF b
<1>7. r.alloc \in Nat /\ count <= r.alloc
  <2> DEFINE g1 == Grow(a_allocated, 1)
             g2 == Grow(g1, 2)
             g3 == Grow(g2, 3)
  <2>1. r.alloc = g3
    BY <1>1
  <2> HIDE DEF Grow, count
  <2>2. g1 \in Nat /\ g1 >= a_allocated /\ g1 >= regs[1].n + 1
    BY <1>0, <1>6
  <2> HIDE DEF g1
  <2>3. g2 \in Nat /\ g2 >= g1 /\ g2 >= regs[2].n + 1
    BY <1>0, <1>6, <2>2
  <2> HIDE DEF g2
  <2>4. g3 \in Nat /\ g3 >= g2 /\ g3 >= regs[3].n + 1
    BY <1>0, <1>6, <2>3
  <2> HIDE DEF g3
  <2>5. count = Len(args) \/ count = regs[1].n + 1 \/ count = regs[2].n + 1
        \/ count = regs[3].n + 1
    BY <1>5
  <2>6. regs[1].n \in Int /\ regs[2].n \in Int /\ regs[3].n \in Int
    BY <1>0, <1>4
  <2>7. Len(args) <= g3
    BY <1>3, <2>2, <2>3, <2>4
  <2>8. regs[1].n + 1 <= g3
    BY <2>2, <2>3, <2>4, <2>6
  <2>9. regs[2].n + 1 <= g3
    BY <2>3, <2>4, <2>6
  <2> QED BY <2>1, <2>4, <2>5, <2>7, <2>8, <2>9
<1>8. ASSUME NEW k \in 1..count PROVE Typed(k) \in Types
  <2>1. CASE k <= Len(args) /\ args[k] # <<NONE>>
    <3>1. args[k] \in Types
      BY <1>3, <2>1
    <3> QED BY <2>1, <3>1
  <2>2. CASE Wanted(k) = {} /\ ~ (k <= Len(args) /\ args[k] # <<NONE>>)
    BY <2>2 DEF Types
  <2>3. CASE Wanted(k) # {} /\ ~ (k <= Len(args) /\ args[k] # <<NONE>>)
    <3> DEFINE W == Wanted(k)
    <3>1. W \subseteq 1..3 /\ W # {}
      BY <2>3
    <3> HIDE DEF W
    <3>2. \E x \in W : \A y \in W : x <= y
      <4>1. CASE 1 \in W
        <5>1. \A y \in W : 1 <= y
          BY <3>1
        <5> QED BY <4>1, <5>1
      <4>2. CASE 1 \notin W /\ 2 \in W
        <5>1. \A y \in W : 2 <= y
          BY <3>1, <4>2
        <5> QED BY <4>2, <5>1
      <4>3. CASE 1 \notin W /\ 2 \notin W
        <5>1. \A y \in W : y = 3
          BY <3>1, <4>3
        <5>2. PICK x \in W : TRUE
          BY <3>1
        <5>3. \A y \in W : x <= y
          BY <5>1, <5>2
        <5> QED BY <5>2, <5>3
      <4> QED BY <4>1, <4>2, <4>3
    <3>3. Min(W) \in W
      BY <3>2 DEF Min
    <3>4. regs[Min(W)].type \in Types
      BY <1>4, <3>1, <3>3
    <3> QED BY <2>3, <3>4 DEF W
  <2> QED BY <2>1, <2>2, <2>3
<1>9. r.arg = [k \in 1..count |-> Typed(k)] /\ r.arg \in Seq(Types) /\ Len(r.arg) = count
  <2>1. r.arg = [k \in 1..count |-> Typed(k)]
    BY <1>1
  <2>2. count \in Nat
    BY <1>5
  <2> HIDE DEF Typed, count
  <2>3. [k \in 1..count |-> Typed(k)] \in Seq(Types)
    BY <1>8, <2>2
  <2> QED BY <2>1, <2>2, <2>3
<1>10. \A k \in 1..Len(args) : args[k] # <<NONE>> => r.arg[k] = args[k]
  <2>1. ASSUME NEW k \in 1..Len(args), args[k] # <<NONE>> PROVE r.arg[k] = args[k]
    <3>1. k \in 1..count /\ Typed(k) = args[k]
      BY <1>3, <1>5, <2>1
    <3> HIDE DEF Typed, count
    <3> QED BY <1>9, <3>1
  <2> QED BY <2>1
<1>11. r.ok => \A x \in 1..3 : regs[x].n # -1 => r.arg[regs[x].n + 1] = regs[x].type
  <2>1. r.ok = (\A x \in 1..3 : regs[x].n # -1 => Typed(regs[x].n + 1) = regs[x].type)
    BY <1>1
  <2> HIDE DEF Typed, count
  <2>2. ASSUME NEW x \in 1..3, regs[x].n # -1, r.ok
        PROVE  r.arg[regs[x].n + 1] = regs[x].type
    <3>1. regs[x].n + 1 \in 1..count
      <4>1. regs[x].n \in Int /\ regs[x].n >= -1 /\ count \in Nat /\ count >= regs[x].n + 1
        BY <1>4, <1>5
      <4> HIDE DEF count
      <4> QED BY <2>2, <4>1
    <3>2. r.arg[regs[x].n + 1] = Typed(regs[x].n + 1)
      BY <1>9, <3>1
    <3> QED BY <2>1, <2>2, <3>2
  <2> QED BY <2>2
<1>12. r.ok => /\ \A n \in {d.width, d.prec} \ {-1} : r.arg[n + 1] = INT
               /\ d.arg # -1 => r.arg[d.arg + 1] = ArgType(p.conv, p.mods)
  <2>1. 1 \in 1..3 /\ 2 \in 1..3 /\ 3 \in 1..3
    OBVIOUS
  <2> QED BY <1>2, <1>11, <2>1
<1>13. {d.width, d.prec, d.arg} \ {-1} \subseteq 0..(Len(r.arg) - 1)
  <2>1. d.width + 1 <= count /\ d.prec + 1 <= count /\ d.arg + 1 <= count /\ count \in Nat
    BY <1>2, <1>5
  <2> HIDE DEF count
  <2> QED BY <1>3, <1>9, <2>1
<1>14. Len(r.arg) >= Len(args) /\ Len(r.arg) <= r.alloc
  BY <1>5, <1>7, <1>9
<1> HIDE DEF count, Typed
<1> QED BY <1>7, <1>9, <1>10, <1>12, <1>13, <1>14 DEF d, r

(* A conversion of an argument gives it a type.                              *)
LEMMA ConversionsFit ==
  ASSUME NEW p \in Directive, Legal(p), p.conv # "%"
  PROVE  ArgType(p.conv, p.mods) # <<NONE>>
<1>1. p.conv \in {"d", "u", "n", "f", "c", "s", "p"}
  BY DEF Legal, Known
<1>2. ASSUME NEW base PROVE Len(Sized(p.mods, base)) = 2
  BY DEF Sized
<1>3. Len(<<NONE>>) = 1 /\ NONE = "none"
  BY DEF NONE
<1>4. CASE p.conv = "d"
  <2>1. ArgType(p.conv, p.mods) = Sized(p.mods, "signed")
    BY <1>4 DEF ArgType
  <2> QED BY <1>2, <1>3, <2>1
<1>5. CASE p.conv = "u"
  <2>1. ArgType(p.conv, p.mods) = Sized(p.mods, "unsigned")
    BY <1>5 DEF ArgType
  <2> QED BY <1>2, <1>3, <2>1
<1>6. CASE p.conv = "n"
  <2>1. ArgType(p.conv, p.mods) = Sized(p.mods, "count")
    BY <1>6 DEF ArgType
  <2> QED BY <1>2, <1>3, <2>1
<1>7. CASE p.conv = "f"
  <2>1. ArgType(p.conv, p.mods) \in {<<"longdouble">>, <<"double">>}
    BY <1>7 DEF ArgType
  <2> QED BY <1>3, <2>1
<1>8. CASE p.conv \in {"c", "s"}
  <2>1. Len(ArgType(p.conv, p.mods)) = 2
    BY <1>8 DEF ArgType
  <2> QED BY <1>3, <2>1
<1>9. CASE p.conv = "p"
  <2>1. ArgType(p.conv, p.mods) = <<"pointer">>
    BY <1>9 DEF ArgType
  <2> QED BY <1>3, <2>1
<1> QED BY <1>1, <1>4, <1>5, <1>6, <1>7, <1>8, <1>9

LEMMA ParsingInOrder ==
  ASSUME FormatInv, ArgsInv, ParseDirective
  PROVE  ArgsInv'
<1> DEFINE k0 == Len(dirs) + 1
           p  == format.dirs[k0]
           d  == Parsed(p)
           r  == Registered(p)
<1>1. /\ Len(dirs) < Len(format.dirs) /\ Legal(p) /\ r.ok
      /\ dirs' = Append(dirs, d) /\ args' = r.arg /\ a_allocated' = r.alloc
      /\ arg_posn' = d.next /\ format' = format
      /\ d_allocated' = IF Len(dirs') >= d_allocated THEN 2 * d_allocated ELSE d_allocated
  BY DEF ParseDirective, callVars
<1>2. /\ format.dirs \in Seq(Directive) /\ dirs \in Seq(ParsedDirective) /\ Len(dirs) \in Nat
      /\ Len(format.dirs) \in Nat
  BY DEF FormatInv, PrintfTypeOK
<1>3. k0 \in 1..Len(format.dirs) /\ k0 \in Nat
  BY <1>1, <1>2
<1>4. p \in Directive
  BY <1>2, <1>3
<1>5. /\ args \in Seq(Types) /\ a_allocated \in Nat /\ Len(args) <= a_allocated
      /\ Len(args) \in Nat /\ arg_posn = Unnumbered(Len(dirs)) /\ d_allocated \in Nat
      /\ Len(dirs) < d_allocated
  BY DEF ArgsInv
<1>6. arg_posn \in Nat /\ Unnumbered(k0) = arg_posn + Takes(p)
  BY <1>2, <1>5, UnnumberedGrows
<1> HIDE DEF p, r, d, k0
<1>7. /\ d.width \in Nat \cup {-1} /\ d.prec \in Nat \cup {-1}
      /\ d.arg \in Nat \cup {-1} /\ (p.conv # "%" => d.arg # -1)
      /\ d.next = Unnumbered(k0)
      /\ p.conv # "%" => d.arg = IF p.n # -1 THEN p.n - 1 ELSE Unnumbered(k0) - 1
  BY <1>1, <1>4, <1>6, IndicesOf DEF d
<1>8. /\ r.arg \in Seq(Types) /\ Len(r.arg) >= Len(args)
      /\ r.alloc \in Nat /\ Len(r.arg) <= r.alloc
      /\ \A k \in 1..Len(args) : args[k] # <<NONE>> => r.arg[k] = args[k]
      /\ {d.width, d.prec, d.arg} \ {-1} \subseteq 0..(Len(r.arg) - 1)
      /\ r.ok => /\ \A n \in {d.width, d.prec} \ {-1} : r.arg[n + 1] = INT
                 /\ d.arg # -1 => r.arg[d.arg + 1] = ArgType(p.conv, p.mods)
  BY <1>4, <1>5, <1>7, RegisteredArgs DEF d, r
<1>9. \A k : Unnumbered(k)' = Unnumbered(k)
  BY <1>1 DEF Unnumbered
<1>10. /\ Len(dirs') = k0 /\ DOMAIN dirs' = 1..k0 /\ DOMAIN dirs = 1..Len(dirs)
       /\ dirs'[k0] = d /\ \A k \in 1..Len(dirs) : dirs'[k] = dirs[k]
  <2>1. Parsed(p) \in ParsedDirective
    <3>1. arg_posn \in Int
      BY <1>6
    <3> QED BY <1>4, <3>1, ParsedType
  <2> QED BY <1>1, <1>2, <2>1 DEF d, k0
<1>11. INT # <<NONE>>
  <2>1. Len(INT) = 2 /\ Len(<<NONE>>) = 1
    BY DEF INT
  <2> QED BY <2>1
<1> DEFINE Fine(k, e, as, f) ==
             LET q == f.dirs[k]
             IN  /\ Legal(q)
                 /\ {e.width, e.prec, e.arg} \ {-1} \subseteq 0..(Len(as) - 1)
                 /\ q.conv # "%" =>
                      /\ e.arg # -1
                      /\ e.arg = IF q.n # -1 THEN q.n - 1 ELSE Unnumbered(k) - 1
                      /\ as[e.arg + 1] = ArgType(q.conv, q.mods)
                 /\ \A n \in {e.width, e.prec} \ {-1} : as[n + 1] = INT
<1>12. \A k \in 1..Len(dirs) : Fine(k, dirs[k], args, format)
  BY <1>10 DEF ArgsInv
<1>13. ASSUME NEW k \in 1..k0 PROVE Fine(k, dirs'[k], args', format')
  <2>1. CASE k = k0
    BY <1>1, <1>7, <1>8, <1>10, <2>1 DEF p
  <2>2. CASE k # k0
    <3> DEFINE e == dirs[k]
               q == format.dirs[k]
    <3>1. k \in 1..Len(dirs) /\ dirs'[k] = e
      BY <1>2, <1>10, <2>2 DEF k0
    <3>2. /\ Legal(q) /\ {e.width, e.prec, e.arg} \ {-1} \subseteq 0..(Len(args) - 1)
          /\ q.conv # "%" =>
                      /\ e.arg # -1
                      /\ e.arg = IF q.n # -1 THEN q.n - 1 ELSE Unnumbered(k) - 1
                      /\ args[e.arg + 1] = ArgType(q.conv, q.mods)
          /\ \A n \in {e.width, e.prec} \ {-1} : args[n + 1] = INT
      BY <1>12, <3>1
    <3>3. q \in Directive
      <4>1. k \in 1..Len(format.dirs)
        BY <1>1, <1>2, <3>1
      <4> QED BY <1>2, <4>1
    <3> HIDE DEF e, q
    <3>4. ASSUME NEW n \in {e.width, e.prec, e.arg} \ {-1}
          PROVE  n \in 0..(Len(args) - 1) /\ n + 1 \in 1..Len(args)
      <4>1. n \in 0..(Len(args) - 1)
        BY <3>2
      <4> QED BY <1>5, <4>1
    <3>5. q.conv # "%" => args'[e.arg + 1] = ArgType(q.conv, q.mods)
      <4>1. q.conv # "%" => ArgType(q.conv, q.mods) # <<NONE>>
        BY <3>2, <3>3, ConversionsFit
      <4> QED BY <1>1, <1>8, <3>2, <3>4, <4>1
    <3>6. \A n \in {e.width, e.prec} \ {-1} : args'[n + 1] = INT
      BY <1>1, <1>8, <1>11, <3>2, <3>4
    <3>7. {e.width, e.prec, e.arg} \ {-1} \subseteq 0..(Len(args') - 1)
      <4>1. Len(args') \in Nat /\ Len(args) <= Len(args')
        BY <1>1, <1>8
      <4>2. ASSUME NEW n \in {e.width, e.prec, e.arg} \ {-1} PROVE n \in 0..(Len(args') - 1)
        <5>1. n \in 0..(Len(args) - 1)
          BY <3>4
        <5> QED BY <1>5, <4>1, <5>1
      <4> QED BY <4>2
    <3>8. format'.dirs[k] = q
      BY <1>1 DEF q
    <3>9. Fine(k, e, args', format')
      BY <3>2, <3>5, <3>6, <3>7, <3>8
    <3> QED BY <3>1, <3>9
  <2> QED BY <2>1, <2>2
<1>14. \A k \in DOMAIN dirs' :
         LET e == dirs'[k]
             q == format'.dirs[k]
         IN  /\ Legal(q)
             /\ {e.width, e.prec, e.arg} \ {-1} \subseteq 0..(Len(args') - 1)
             /\ q.conv # "%" =>
                  /\ e.arg # -1
                  /\ e.arg = IF q.n # -1 THEN q.n - 1 ELSE Unnumbered(k)' - 1
                  /\ args'[e.arg + 1] = ArgType(q.conv, q.mods)
             /\ \A n \in {e.width, e.prec} \ {-1} : args'[n + 1] = INT
  BY <1>9, <1>10, <1>13
<1> HIDE DEF Fine
<1>15. Len(dirs') < d_allocated' /\ d_allocated' \in Nat
  <2>1. k0 \in Nat /\ k0 <= d_allocated
    BY <1>2, <1>5 DEF k0
  <2> QED BY <1>1, <1>5, <1>10, <2>1
<1>16. arg_posn' = Unnumbered(Len(dirs))'
  BY <1>1, <1>7, <1>9, <1>10
<1>17. Len(dirs') <= Len(format'.dirs)
  BY <1>1, <1>3, <1>10
<1> QED BY <1>1, <1>8, <1>14, <1>15, <1>16, <1>17 DEF ArgsInv

(* Every directive takes the argument that a reader of the format would give *)
(* it, and all who use an argument agree on its type.                        *)
THEOREM ArgumentsAreAssigned == PrintfSpec => []ArgumentsAreTheirOwn
<1>1. FormatInv /\ ArgsInv /\ [PrintfNext]_printfVars => ArgsInv'
  BY ParsingInOrder, OthersDoNotParse, ArgsRest
<1>2. ArgsInv => ArgumentsAreTheirOwn
  BY DEF ArgsInv, ArgumentsAreTheirOwn
<1>3. PrintfSpec => []ArgsInv
  BY ArgsStart, <1>1, FormattingInvariant, PTL DEF PrintfSpec
<1> QED BY <1>2, <1>3, PTL

-----------------------------------------------------------------------------
(* Locale aliases: the table and the pool that its pointers point into.      *)
Word     == DOMAIN WordLength
FileLine == [alias : Word \cup {NoAlias}, value : Word \cup {NoAlias}, more : Nat,
             ended : BOOLEAN]
Entry    == [alias : Nat \X Nat, value : Nat \X Nat]
Space    == [block : Nat, act : Nat, max : Nat, words : UNION {[D -> Word] : D \in SUBSET Nat}]

AliasTypeOK ==
  /\ lines \in Seq(FileLine)
  /\ map \in Seq(Entry) /\ maxmap \in Nat /\ string_space \in Space

(* Each pointer is into the block, to a name that ends before the free part; *)
(* no two are equal or into the same name.                                   *)
PointersOf(table) ==
  {table[k].alias : k \in DOMAIN table} \cup {table[k].value : k \in DOMAIN table}
LengthAt(space, p) == WordLength[space.words[p[2]]]
Points(space, ps) ==
  \A p \in ps : /\ p[1] = space.block /\ p[2] \in DOMAIN space.words
                /\ p[2] + LengthAt(space, p) <= space.act
Apart(space, ps) ==
  \A p, q \in ps : p # q => ~ (p[2] <= q[2] /\ q[2] < p[2] + LengthAt(space, p))
IntactIn(space, table) ==
  LET ps == PointersOf(table)
  IN  /\ IsFiniteSet(ps) /\ Cardinality(ps) = 2 * Len(table)
      /\ Points(space, ps) /\ Apart(space, ps)
      /\ space.act <= space.max

AliasInv == AliasTypeOK /\ Len(map) <= maxmap /\ IntactIn(string_space, map)

LEMMA PointersAreTyped ==
  ASSUME NEW table \in Seq(Entry), NEW p \in PointersOf(table)
  PROVE  p \in Nat \X Nat /\ p = <<p[1], p[2]>> /\ p[1] \in Nat /\ p[2] \in Nat
<1>1. PICK k \in DOMAIN table : p = table[k].alias \/ p = table[k].value
  BY DEF PointersOf
<1>2. table[k] \in Entry
  OBVIOUS
<1>3. p \in Nat \X Nat
  BY <1>1, <1>2 DEF Entry
<1> QED BY <1>3

LEMMA WordsAreTyped ==
  ASSUME NEW space \in Space
  PROVE  /\ DOMAIN space.words \subseteq Nat
         /\ \A o \in DOMAIN space.words :
              space.words[o] \in Word /\ WordLength[space.words[o]] \in Nat \ {0}
         /\ space.block \in Nat /\ space.act \in Nat /\ space.max \in Nat
<1>1. space.words \in UNION {[D -> Word] : D \in SUBSET Nat}
      /\ space.block \in Nat /\ space.act \in Nat /\ space.max \in Nat
  BY DEF Space
<1>2. PICK D \in SUBSET Nat : space.words \in [D -> Word]
  BY <1>1
<1>3. \A w \in Word : WordLength[w] \in Nat \ {0}
  BY AliasConstants DEF Word
<1> QED BY <1>1, <1>2, <1>3

(* The pool moves or grows, and the pointers with it.                        *)
LEMMA MovingKeeps ==
  ASSUME NEW space \in Space, NEW table \in Seq(Entry), IntactIn(space, table),
         NEW size \in Nat, space.max <= size, NEW block \in Nat
  PROVE  LET space2 == [space EXCEPT !.max = size, !.block = block]
             table2 == [k \in DOMAIN table |-> Rebased(table[k], block)]
         IN  /\ space2 \in Space /\ table2 \in Seq(Entry) /\ Len(table2) = Len(table)
             /\ IntactIn(space2, table2)
<1> DEFINE space2 == [space EXCEPT !.max = size, !.block = block]
           table2 == [k \in DOMAIN table |-> Rebased(table[k], block)]
           ps  == PointersOf(table)
           ps2 == PointersOf(table2)
           moved(p) == <<block, p[2]>>
<1>1. space2 \in Space /\ space2.block = block /\ space2.act = space.act
      /\ space2.max = size /\ space2.words = space.words
  BY DEF Space
<1>2. /\ \A k \in DOMAIN table : table[k] \in Entry
      /\ DOMAIN table = 1..Len(table) /\ Len(table) \in Nat
  OBVIOUS
<1>3. ASSUME NEW k \in DOMAIN table
      PROVE  /\ table2[k].alias = moved(table[k].alias)
             /\ table2[k].value = moved(table[k].value)
             /\ table2[k] \in Entry
  <2>1. table[k].alias \in Nat \X Nat /\ table[k].value \in Nat \X Nat
    BY <1>2, <1>3 DEF Entry
  <2> QED BY <2>1 DEF Rebased, Entry
<1>4. table2 \in Seq(Entry) /\ Len(table2) = Len(table) /\ DOMAIN table2 = DOMAIN table
  BY <1>2, <1>3
<1>5. ps2 = {moved(p) : p \in ps}
  <2> HIDE DEF table2, moved
  <2>1. \A k \in DOMAIN table : table2[k].alias = moved(table[k].alias)
                             /\ table2[k].value = moved(table[k].value)
    BY <1>3
  <2> QED BY <1>4, <2>1 DEF PointersOf
<1>6. /\ IsFiniteSet(ps) /\ Cardinality(ps) = 2 * Len(table)
      /\ Points(space, ps) /\ Apart(space, ps) /\ space.act <= space.max
  BY DEF IntactIn
<1>7. \A p \in ps : p = <<space.block, p[2]>> /\ p[2] \in Nat
  <2>1. \A p \in ps : p = <<p[1], p[2]>> /\ p[2] \in Nat
    BY PointersAreTyped
  <2> QED BY <1>6, <2>1 DEF Points
<1> HIDE DEF space2, table2, ps, ps2
<1>8. IsFiniteSet(ps2) /\ Cardinality(ps2) = Cardinality(ps)
  <2> DEFINE f == [p \in ps |-> moved(p)]
  <2>1. \A p, q \in ps : f[p] = f[q] => p = q
    BY <1>7
  <2>2. f \in Bijection(ps, ps2)
    BY <1>5, <2>1 DEF Bijection, Injection, Surjection, IsInjective
  <2>3. ExistsBijection(ps, ps2)
    BY <2>2 DEF ExistsBijection
  <2> QED BY <1>6, <2>3, FS_Bijection
<1>9. \A p \in ps : moved(p)[1] = block /\ moved(p)[2] = p[2]
                    /\ LengthAt(space2, moved(p)) = LengthAt(space, p)
  BY <1>1 DEF LengthAt
<1>10. Points(space2, ps2) /\ Apart(space2, ps2)
  <2> HIDE DEF moved
  <2>1. Points(space2, ps2)
    BY <1>1, <1>5, <1>6, <1>9 DEF Points
  <2>2. Apart(space2, ps2)
    BY <1>5, <1>6, <1>9 DEF Apart
  <2> QED BY <2>1, <2>2
<1>11. space2.act <= space2.max
  <2>1. space.act \in Nat /\ space.max \in Nat
    BY WordsAreTyped
  <2> QED BY <1>1, <1>6, <2>1
<1>12. IntactIn(space2, table2)
  BY <1>4, <1>6, <1>8, <1>10, <1>11 DEF IntactIn, ps2
<1> QED BY <1>1, <1>4, <1>12 DEF space2, table2

(* Two names are put behind the others, where there is room for them.        *)
LEMMA PuttingKeeps ==
  ASSUME NEW space \in Space, NEW table \in Seq(Entry), IntactIn(space, table),
         NEW line \in FileLine, line.alias # NoAlias, line.value # NoAlias,
         space.act + Needed(line) <= space.max, PutNames(line, space, table)
  PROVE  /\ string_space' \in Space /\ map' \in Seq(Entry) /\ Len(map') = Len(table) + 1
         /\ IntactIn(string_space, map)'
<1> DEFINE la == WordLength[line.alias]
           lv == WordLength[line.value]
           at == space.act
           av == space.act + la
           pa == <<space.block, at>>
           pv == <<space.block, av>>
           words == [o \in DOMAIN space.words \cup {at, av} |->
                       IF o = at THEN line.alias
                       ELSE IF o = av THEN line.value ELSE space.words[o]]
           ps == PointersOf(table)
           s2 == string_space'
           m2 == map'
           ps2 == PointersOf(m2)
<1>1. line.alias \in Word /\ line.value \in Word /\ la \in Nat \ {0} /\ lv \in Nat \ {0}
  <2>1. line.alias \in Word /\ line.value \in Word
    BY DEF FileLine
  <2> QED BY <2>1, AliasConstants DEF Word
<1>2. /\ DOMAIN space.words \subseteq Nat
      /\ \A o \in DOMAIN space.words :
           space.words[o] \in Word /\ WordLength[space.words[o]] \in Nat \ {0}
      /\ space.block \in Nat /\ at \in Nat /\ space.max \in Nat
  BY WordsAreTyped
<1>3. /\ s2 = [space EXCEPT !.act = at + Needed(line), !.words = words]
      /\ m2 = Append(table, [alias |-> pa, value |-> pv])
  BY DEF PutNames
<1> HIDE DEF la, lv, s2, m2
<1>4. at \in Nat /\ av \in Nat /\ at < av /\ Needed(line) = la + lv /\ av + lv = at + Needed(line)
  BY <1>1, <1>2 DEF Needed, la, lv
<1> HIDE DEF at, av
<1>5. words \in [DOMAIN space.words \cup {at, av} -> Word]
  BY <1>1, <1>2
<1>6. /\ DOMAIN words = DOMAIN space.words \cup {at, av}
      /\ words[at] = line.alias /\ words[av] = line.value
      /\ \A o \in DOMAIN space.words : o < at => words[o] = space.words[o]
  BY <1>2, <1>4
<1> HIDE DEF words
<1>7. /\ s2 \in Space /\ s2.block = space.block /\ s2.act = at + Needed(line)
      /\ s2.max = space.max /\ s2.words = words
  <2>1. DOMAIN space.words \cup {at, av} \in SUBSET Nat
    BY <1>2, <1>4
  <2>2. words \in UNION {[D -> Word] : D \in SUBSET Nat}
    BY <1>5, <2>1
  <2>3. at + Needed(line) \in Nat
    BY <1>1, <1>4
  <2> QED BY <1>3, <2>2, <2>3 DEF Space
<1>8. pa \in Nat \X Nat /\ pv \in Nat \X Nat
  BY <1>2, <1>4
<1>9. /\ m2 \in Seq(Entry) /\ Len(m2) = Len(table) + 1
      /\ ps2 = (ps \cup {pa}) \cup {pv}
  <2> DEFINE new == [alias |-> pa, value |-> pv]
  <2>1. new \in Entry /\ new.alias = pa /\ new.value = pv
    BY <1>8 DEF Entry
  <2> HIDE DEF new, pa, pv
  <2>2. /\ m2 \in Seq(Entry) /\ Len(m2) = Len(table) + 1
        /\ DOMAIN m2 = DOMAIN table \cup {Len(table) + 1}
        /\ m2[Len(table) + 1] = new /\ \A k \in DOMAIN table : m2[k] = table[k]
    BY <1>3, <2>1 DEF new
  <2> QED BY <2>1, <2>2 DEF PointersOf
<1>10. /\ IsFiniteSet(ps) /\ Cardinality(ps) = 2 * Len(table)
       /\ Points(space, ps) /\ Apart(space, ps)
  BY DEF IntactIn
<1>11. ASSUME NEW p \in ps
       PROVE  /\ p[2] \in Nat /\ p[2] < at /\ p[2] \in DOMAIN space.words
              /\ p[1] = space.block
              /\ LengthAt(s2, p) = LengthAt(space, p) /\ LengthAt(space, p) \in Nat
              /\ p[2] + LengthAt(space, p) <= at
  <2>1. p[1] = space.block /\ p[2] \in DOMAIN space.words
        /\ p[2] + LengthAt(space, p) <= at
    BY <1>10, <1>11 DEF Points, at
  <2>2. p[2] \in Nat /\ LengthAt(space, p) \in Nat \ {0}
    BY <1>2, <2>1 DEF LengthAt
  <2>3. p[2] < at
    BY <1>4, <2>1, <2>2
  <2> QED BY <1>6, <1>7, <2>1, <2>2, <2>3 DEF LengthAt
<1>12. pa[2] = at /\ pv[2] = av /\ pa[1] = space.block /\ pv[1] = space.block
       /\ LengthAt(s2, pa) = la /\ LengthAt(s2, pv) = lv
  BY <1>6, <1>7 DEF LengthAt, la, lv
<1>13. pa \notin ps /\ pv \notin ps /\ pa # pv
  BY <1>4, <1>11, <1>12
<1> HIDE DEF pa, pv, ps, ps2
<1>14. IsFiniteSet(ps2) /\ Cardinality(ps2) = 2 * Len(m2)
  <2>1. IsFiniteSet(ps \cup {pa}) /\ Cardinality(ps \cup {pa}) = Cardinality(ps) + 1
    BY <1>10, <1>13, FS_AddElement
  <2>2. pv \notin ps \cup {pa}
    BY <1>13
  <2>3. IsFiniteSet(ps2) /\ Cardinality(ps2) = Cardinality(ps) + 1 + 1
    BY <1>9, <2>1, <2>2, FS_AddElement
  <2>4. Len(table) \in Nat
    OBVIOUS
  <2> QED BY <1>9, <1>10, <2>3, <2>4
<1>15. Points(s2, ps2)
  <2>1. ASSUME NEW p \in ps
        PROVE  p[1] = s2.block /\ p[2] \in DOMAIN s2.words /\ p[2] + LengthAt(s2, p) <= s2.act
    BY <1>1, <1>4, <1>6, <1>7, <1>11
  <2>2. /\ pa[1] = s2.block /\ pa[2] \in DOMAIN s2.words /\ pa[2] + LengthAt(s2, pa) <= s2.act
        /\ pv[1] = s2.block /\ pv[2] \in DOMAIN s2.words /\ pv[2] + LengthAt(s2, pv) <= s2.act
    BY <1>1, <1>4, <1>6, <1>7, <1>12
  <2> QED BY <1>9, <2>1, <2>2 DEF Points
<1>16. Apart(s2, ps2)
  <2> DEFINE Clear(p, q) == ~ (p[2] <= q[2] /\ q[2] < p[2] + LengthAt(s2, p))
  <2>1. ASSUME NEW p \in ps, NEW q \in ps, p # q PROVE Clear(p, q)
    BY <1>10, <1>11, <2>1 DEF Apart
  <2>2. ASSUME NEW p \in ps PROVE Clear(p, pa) /\ Clear(p, pv) /\ Clear(pa, p) /\ Clear(pv, p)
    BY <1>1, <1>4, <1>11, <1>12
  <2>3. Clear(pa, pv) /\ Clear(pv, pa)
    BY <1>1, <1>4, <1>12 DEF av
  <2> HIDE DEF Clear
  <2>4. \A p, q \in ps2 : p # q => Clear(p, q)
    BY <1>9, <2>1, <2>2, <2>3
  <2> QED BY <2>4 DEF Apart, Clear
<1>17. s2.act <= s2.max
  BY <1>4, <1>7 DEF at
<1>18. IntactIn(s2, m2)
  BY <1>14, <1>15, <1>16, <1>17 DEF IntactIn, ps2
<1> QED BY <1>7, <1>9, <1>18 DEF s2, m2, IntactIn, PointersOf, Points, Apart, LengthAt

-----------------------------------------------------------------------------
LEMMA AliasStart == AliasInit => AliasInv
<1> SUFFICES ASSUME AliasInit PROVE AliasInv
  OBVIOUS
<1> USE DEF AliasInit
<1>1. AliasTypeOK
  <2>1. << >> \in [{} -> Word] /\ {} \in SUBSET Nat
    OBVIOUS
  <2>2. string_space \in Space
    BY <2>1 DEF Space
  <2> QED BY <2>2 DEF AliasTypeOK
<1>2. PointersOf(map) = {}
  BY DEF PointersOf
<1>3. IntactIn(string_space, map)
  BY <1>2, FS_EmptySet DEF IntactIn, Points, Apart
<1> QED BY <1>1, <1>3 DEF AliasInv

LEMMA AddingKeeps ==
  ASSUME AliasTypeOK, IntactIn(string_space, map), NEW line \in FileLine,
         line.alias # NoAlias, line.value # NoAlias, AddNames(line)
  PROVE  /\ string_space' \in Space /\ map' \in Seq(Entry) /\ Len(map') = Len(map) + 1
         /\ IntactIn(string_space, map)'
<1>1. Needed(line) \in Nat
  <2>1. line.alias \in Word /\ line.value \in Word
    BY DEF FileLine
  <2>2. WordLength[line.alias] \in Nat /\ WordLength[line.value] \in Nat
    BY <2>1, AliasConstants DEF Word
  <2> QED BY <2>2 DEF Needed
<1>2. string_space \in Space /\ map \in Seq(Entry)
  BY DEF AliasTypeOK
<1>3. string_space.act \in Nat /\ string_space.max \in Nat /\ string_space.block \in Nat
      /\ string_space.act <= string_space.max
  BY <1>2, WordsAreTyped DEF IntactIn
<1>4. CASE string_space.act + Needed(line) <= string_space.max
  <2>1. PutNames(line, string_space, map)
    BY <1>4 DEF AddNames
  <2> QED BY <1>2, <1>4, <2>1, PuttingKeeps
<1>5. CASE ~ (string_space.act + Needed(line) <= string_space.max)
  <2> DEFINE n == Needed(line)
             more == Max({n, PoolStep})
             size == string_space.max + more
  <2>1. PICK block \in string_space.block..(string_space.block + 1) :
          PutNames(line, GrownPool(size, block), [k \in DOMAIN map |-> Rebased(map[k], block)])
    BY <1>5 DEF AddNames
  <2>2. more \in Nat /\ more >= n
    <3> HIDE DEF n
    <3>1. n \in Int /\ PoolStep \in Int
      BY <1>1, AliasConstants DEF n
    <3>2. \E x \in {n, PoolStep} : \A y \in {n, PoolStep} : x >= y
      BY <3>1
    <3>3. more \in {n, PoolStep} /\ \A y \in {n, PoolStep} : more >= y
      BY <3>2 DEF Max
    <3> HIDE DEF more
    <3>4. more >= n /\ n \in Nat /\ PoolStep \in Nat
      BY <1>1, <3>3, AliasConstants DEF n
    <3> QED BY <3>3, <3>4
  <2> HIDE DEF more
  <2>3. size \in Nat /\ string_space.max <= size /\ string_space.act + n <= size
        /\ block \in Nat
    BY <1>1, <1>3, <2>2
  <2> HIDE DEF size
  <2> DEFINE space2 == [string_space EXCEPT !.max = size, !.block = block]
             table2 == [k \in DOMAIN map |-> Rebased(map[k], block)]
  <2>4. /\ space2 \in Space /\ table2 \in Seq(Entry) /\ Len(table2) = Len(map)
        /\ IntactIn(space2, table2)
    BY <1>2, <2>3, MovingKeeps
  <2>5. GrownPool(size, block) = space2
    BY DEF GrownPool
  <2>6. space2.act = string_space.act /\ space2.max = size
    BY <1>2 DEF Space
  <2>7. PutNames(line, space2, table2)
    BY <2>1, <2>5
  <2> HIDE DEF space2, table2
  <2>8. space2.act + Needed(line) <= space2.max
    BY <2>3, <2>6
  <2>9. /\ string_space' \in Space /\ map' \in Seq(Entry) /\ Len(map') = Len(table2) + 1
        /\ IntactIn(string_space, map)'
    BY <2>4, <2>7, <2>8, PuttingKeeps
  <2> QED BY <2>4, <2>9
<1> QED BY <1>4, <1>5

(* The order of the table does not matter to its pointers.                   *)
LEMMA SortingKeeps ==
  ASSUME map \in Seq(Entry), NEW table \in Sorted
  PROVE  /\ table \in Seq(Entry) /\ Len(table) = Len(map)
         /\ PointersOf(table) = PointersOf(map)
<1>1. PICK order \in Bijection(DOMAIN map, DOMAIN map) :
        table = [k \in DOMAIN map |-> map[order[k]]]
  BY DEF Sorted
<1>2. /\ \A k \in DOMAIN map : order[k] \in DOMAIN map
      /\ \A j \in DOMAIN map : \E k \in DOMAIN map : order[k] = j
  BY DEF Bijection, Injection, Surjection
<1>3. DOMAIN map = 1..Len(map) /\ Len(map) \in Nat /\ \A k \in DOMAIN map : map[k] \in Entry
  OBVIOUS
<1>4. table \in Seq(Entry) /\ Len(table) = Len(map) /\ DOMAIN table = DOMAIN map
  BY <1>1, <1>2, <1>3
<1>5. \A k \in DOMAIN map : table[k] = map[order[k]]
  BY <1>1
<1>6. PointersOf(table) \subseteq PointersOf(map)
  <2>1. ASSUME NEW k \in DOMAIN table PROVE \E j \in DOMAIN map : table[k] = map[j]
    BY <1>2, <1>4, <1>5
  <2> QED BY <2>1 DEF PointersOf
<1>7. PointersOf(map) \subseteq PointersOf(table)
  <2>1. ASSUME NEW j \in DOMAIN map PROVE \E k \in DOMAIN table : table[k] = map[j]
    BY <1>2, <1>4, <1>5
  <2> QED BY <2>1 DEF PointersOf
<1> QED BY <1>4, <1>6, <1>7

LEMMA AliasRest ==
  ASSUME AliasInv, UNCHANGED <<map, maxmap, string_space>>, lines' \in Seq(FileLine)
  PROVE  AliasInv'
BY DEF AliasInv, AliasTypeOK, IntactIn, PointersOf, Points, Apart, LengthAt

LEMMA AliasStepKeeps == AliasInv /\ [AliasNext]_aliasVars => AliasInv'
<1> SUFFICES ASSUME AliasInv, [AliasNext]_aliasVars PROVE AliasInv'
  OBVIOUS
<1>0. /\ AliasTypeOK /\ Len(map) <= maxmap /\ IntactIn(string_space, map)
      /\ lines \in Seq(FileLine) /\ map \in Seq(Entry) /\ Len(map) \in Nat
      /\ maxmap \in Nat /\ string_space \in Space
  BY DEF AliasInv, AliasTypeOK
<1> USE DEF tableState, readState
<1>1. ASSUME NEW name \in LookedUp, Expand(name) PROVE AliasInv'
  BY <1>0, <1>1, AliasRest DEF Expand
<1>2. CASE Look
  BY <1>0, <1>2, AliasRest DEF Look
<1>3. CASE NextFile
  <2>1. lines' \in Seq(FileLine)
    <3>1. ASSUME NEW d \in DOMAIN AliasFiles PROVE AliasFiles[d] \in Seq(FileLine)
      BY AliasConstants DEF FileLine, Word
    <3>2. \/ lines' = lines
          \/ Head(left) \in DOMAIN AliasFiles /\ lines' = AliasFiles[Head(left)]
      BY <1>3 DEF NextFile
    <3> QED BY <1>0, <3>1, <3>2
  <2> QED BY <1>3, <2>1, AliasRest DEF NextFile
<1>4. CASE ReadAliasLine
  <2> DEFINE line == Head(lines)
  <2>1. lines # <<>> /\ lines' = Tail(lines)
    BY <1>4 DEF ReadAliasLine
  <2>2. line \in FileLine /\ lines' \in Seq(FileLine)
    BY <1>0, <2>1
  <2>3. CASE NoAlias \in {line.alias, line.value}
    BY <1>4, <2>2, <2>3, AliasRest DEF ReadAliasLine
  <2>4. CASE NoAlias \notin {line.alias, line.value}
    <3>1. AddNames(line) /\ maxmap' = IF Len(map) >= maxmap THEN ExtendedMap ELSE maxmap
      BY <1>4, <2>4 DEF ReadAliasLine
    <3>2. line.alias # NoAlias /\ line.value # NoAlias
      BY <2>4
    <3> HIDE DEF line
    <3>3. /\ string_space' \in Space /\ map' \in Seq(Entry) /\ Len(map') = Len(map) + 1
          /\ IntactIn(string_space, map)'
      BY <1>0, <2>2, <3>1, <3>2, AddingKeeps
    <3>4. maxmap' \in Nat /\ Len(map') <= maxmap'
      BY <1>0, <3>1, <3>3, AliasConstants DEF ExtendedMap
    <3> QED BY <2>2, <3>3, <3>4 DEF AliasInv, AliasTypeOK
  <2> QED BY <2>3, <2>4
<1>5. CASE NoCore
  <2>1. maxmap' = maxmap \/ (Len(map) >= maxmap /\ maxmap' = ExtendedMap)
    BY <1>5 DEF NoCore
  <2>2. maxmap' \in Nat /\ Len(map) <= maxmap'
    BY <1>0, <2>1, AliasConstants DEF ExtendedMap
  <2>3. UNCHANGED <<map, string_space, lines>>
    BY <1>5 DEF NoCore
  <2>4. IntactIn(string_space, map)'
    BY <1>0, <2>3 DEF IntactIn, PointersOf, Points, Apart, LengthAt
  <2> QED BY <1>0, <2>2, <2>3, <2>4 DEF AliasInv, AliasTypeOK
<1>6. CASE SkipPiece
  <2>1. lines' = lines \/ (lines # <<>> /\ lines' = Tail(lines))
    BY <1>6 DEF SkipPiece
  <2>2. lines' \in Seq(FileLine)
    <3>1. lines \in Seq(FileLine) /\ (lines # <<>> => Tail(lines) \in Seq(FileLine))
      BY <1>0
    <3> QED BY <2>1, <3>1
  <2> QED BY <1>6, <2>2, AliasRest DEF SkipPiece
<1>7. CASE CloseFile
  <2>1. UNCHANGED <<maxmap, string_space, lines>> /\ (map' = map \/ map' \in Sorted)
    BY <1>7 DEF CloseFile
  <2>2. map' \in Seq(Entry) /\ Len(map') = Len(map) /\ PointersOf(map') = PointersOf(map)
    BY <1>0, <2>1, SortingKeeps
  <2>3. IntactIn(string_space', map')
    BY <1>0, <2>1, <2>2 DEF IntactIn
  <2>4. IntactIn(string_space, map)'
    BY <2>3 DEF IntactIn, PointersOf, Points, Apart, LengthAt
  <2> QED BY <1>0, <2>1, <2>2, <2>4 DEF AliasInv, AliasTypeOK
<1>8. CASE UNCHANGED aliasVars
  BY <1>0, <1>8, AliasRest DEF aliasVars
<1> QED BY <1>1, <1>2, <1>3, <1>4, <1>5, <1>6, <1>7, <1>8 DEF AliasNext, AliasStep

(* However the pool has moved and the table has grown and been sorted, each  *)
(* pointer is to a name of its own in the block that is in use.              *)
THEOREM AliasTableIsIntact == AliasSpec => []TableIsIntact
<1>1. ASSUME AliasInv PROVE TableIsIntact
  <2>1. /\ Len(map) <= maxmap /\ IntactIn(string_space, map) /\ string_space \in Space
    BY <1>1 DEF AliasInv, AliasTypeOK
  <2>2. Pointers = PointersOf(map)
    BY DEF Pointers, PointersOf
  <2>3. /\ Cardinality(Pointers) = 2 * Len(map) /\ string_space.act <= string_space.max
        /\ Points(string_space, Pointers) /\ Apart(string_space, Pointers)
    BY <2>1, <2>2 DEF IntactIn
  <2>4. ASSUME NEW p \in Pointers
        PROVE  /\ Pointed(p) = string_space.words[p[2]] /\ Pointed(p) # Dangling
               /\ WordLength[Pointed(p)] = LengthAt(string_space, p)
               /\ p[2] + LengthAt(string_space, p) <= string_space.act
    <3>1. p[1] = string_space.block /\ p[2] \in DOMAIN string_space.words
          /\ p[2] + LengthAt(string_space, p) <= string_space.act
      BY <2>3 DEF Points
    <3>2. Pointed(p) = string_space.words[p[2]]
      BY <3>1 DEF Pointed
    <3>3. string_space.words[p[2]] \in Word /\ Dangling \notin Word
      BY <2>1, <3>1, WordsAreTyped, AliasConstants DEF Word
    <3> QED BY <3>1, <3>2, <3>3 DEF LengthAt
  <2>5. ASSUME NEW p \in Pointers, NEW q \in Pointers \ {p}
        PROVE  ~ (p[2] <= q[2] /\ q[2] < p[2] + WordLength[Pointed(p)])
    <3>1. ~ (p[2] <= q[2] /\ q[2] < p[2] + LengthAt(string_space, p))
      BY <2>3 DEF Apart
    <3> QED BY <2>4, <3>1
  <2> QED BY <2>1, <2>3, <2>4, <2>5 DEF TableIsIntact
<1>2. AliasSpec => []AliasInv
  BY AliasStart, AliasStepKeeps, PTL DEF AliasSpec
<1> QED BY <1>1, <1>2, PTL

-----------------------------------------------------------------------------
(* The lists of Gettext.tla. First what its operators on sequences and names *)
(* return: the order of names is total, what is selected from a sequence is  *)
(* what is in the set, the fallbacks of a mask are the masks below it, and   *)
(* every file name is made of words and separators of TokenOrder. Then each  *)
(* operator on the lists keeps them in order and complete, and so do the     *)
(* calls.                                                                    *)

(* The least of some numbers.                                                *)
LEMMA LeastIs ==
  ASSUME NEW S \in SUBSET Nat, S # {}
  PROVE  Min(S) \in S /\ \A x \in S : Min(S) <= x
<1> DEFINE R == OpToRel(<, Nat)
<1>1. IsWellFoundedOn(R, Nat)
  BY NatLessThanWellFounded
<1>2. PICK m \in S : \A k \in S : ~ (<<k, m>> \in R)
  <2> HIDE DEF R
  <2> QED BY <1>1, WFMin
<1>3. \A k \in S : m <= k
  <2>1. ASSUME NEW k \in S PROVE m <= k
    <3>1. k \in Nat /\ m \in Nat /\ ~ (k < m)
      BY <1>2 DEF OpToRel
    <3> QED BY <3>1
  <2> QED BY <2>1
<1> QED BY <1>3 DEF Min

(* What holds for 0, and with each number below b for the next, holds for    *)
(* all numbers up to b.                                                      *)
LEMMA UpToInduction ==
  ASSUME NEW b \in Nat, NEW S, 0 \in S, \A k \in 0..(b - 1) : k \in S => k + 1 \in S
  PROVE  \A k \in 0..b : k \in S
<1> DEFINE T == {k \in 0..b : k \notin S}
           m == Min(T)
<1> SUFFICES ASSUME T # {} PROVE FALSE
  OBVIOUS
<1>1. m \in T /\ \A k \in T : m <= k
  <2>1. T \in SUBSET Nat
    OBVIOUS
  <2> HIDE DEF T
  <2> QED BY <2>1, LeastIs
<1> HIDE DEF m
<1>2. m \in 0..b /\ m \notin S /\ m # 0
  BY <1>1
<1>3. m - 1 \in 0..(b - 1) /\ (m - 1) + 1 = m /\ m - 1 \in 0..b /\ m - 1 < m
  BY <1>2
<1>4. m - 1 \in S
  BY <1>1, <1>3
<1>5. (m - 1) + 1 \in S
  BY <1>3, <1>4
<1> QED BY <1>2, <1>3, <1>5

(* A function on 0..N by its first value and a step from each value to the   *)
(* next.                                                                     *)
Stepwise(f, N, v, h) ==
  f = [k \in 0..N |-> IF k = 0 THEN v ELSE h[k][f[k - 1]]]
LEMMA StepwiseExists ==
  ASSUME NEW N \in Nat, NEW v, NEW h
  PROVE  \E f : Stepwise(f, N, v, h)
<1> DEFINE S == {m \in 0..N : \E f : Stepwise(f, m, v, h)}
<1>1. 0 \in S
  <2> DEFINE f == [k \in 0..0 |-> v]
  <2>1. Stepwise(f, 0, v, h)
    BY DEF Stepwise
  <2> HIDE DEF f
  <2> QED BY <2>1
<1>2. ASSUME NEW m \in 0..(N - 1), m \in S PROVE m + 1 \in S
  <2>1. PICK f : Stepwise(f, m, v, h)
    BY <1>2
  <2> DEFINE g == [k \in 0..(m + 1) |-> IF k <= m THEN f[k] ELSE h[m + 1][f[m]]]
  <2>2. ASSUME NEW k \in 0..(m + 1)
        PROVE  g[k] = IF k = 0 THEN v ELSE h[k][g[k - 1]]
    <3>1. CASE k = m + 1
      <4>1. k # 0 /\ k - 1 = m /\ ~ (k <= m) /\ k - 1 \in 0..(m + 1) /\ m \in 0..(m + 1)
            /\ m <= m
        BY <3>1
      <4>2. g[m] = f[m] /\ g[k] = h[m + 1][f[m]]
        BY <4>1
      <4> HIDE DEF g
      <4> QED BY <3>1, <4>1, <4>2
    <3>2. CASE k # m + 1
      <4>1. k \in 0..m /\ k <= m
        BY <3>2
      <4>2. g[k] = f[k] /\ (k # 0 => k - 1 \in 0..(m + 1) /\ k - 1 <= m)
        BY <4>1
      <4>3. k # 0 => g[k - 1] = f[k - 1]
        BY <4>2
      <4> HIDE DEF g
      <4>4. f[k] = IF k = 0 THEN v ELSE h[k][f[k - 1]]
        BY <2>1, <4>1 DEF Stepwise
      <4> QED BY <4>2, <4>3, <4>4
    <3> QED BY <3>1, <3>2
  <2>3. DOMAIN g = 0..(m + 1) /\ g = [k \in 0..(m + 1) |-> g[k]]
    OBVIOUS
  <2> HIDE DEF g
  <2>4. Stepwise(g, m + 1, v, h)
    BY <2>2, <2>3 DEF Stepwise
  <2>5. m + 1 \in 0..N
    OBVIOUS
  <2> QED BY <2>4, <2>5
<1>3. \A k \in 0..N : k \in S
  <2>1. \A k \in 0..(N - 1) : k \in S => k + 1 \in S
    BY <1>2
  <2> HIDE DEF S
  <2> QED BY <1>1, <2>1, UpToInduction
<1> QED BY <1>3

(* Of two different names one precedes the other.                            *)
LEMMA PrecedesIsTotal ==
  ASSUME NEW a \in Name, NEW b \in Name, a # b
  PROVE  Precedes(a, b) \/ Precedes(b, a)
<1> DEFINE short == Min({Len(a), Len(b)})
           differ == {k \in 1..short : a[k] # b[k]}
           first == Min(differ)
<1>1. /\ Len(a) \in Nat /\ Len(b) \in Nat /\ short \in Nat
      /\ short <= Len(a) /\ short <= Len(b) /\ (short = Len(a) \/ short = Len(b))
  <2>1. {Len(a), Len(b)} \in SUBSET Nat /\ {Len(a), Len(b)} # {}
    BY DEF Name
  <2> QED BY <2>1, LeastIs
<1>2. Min({Len(b), Len(a)}) = short
  <2>1. {Len(b), Len(a)} = {Len(a), Len(b)}
    OBVIOUS
  <2> QED BY <2>1
<1> HIDE DEF short
<1>3. {k \in 1..short : b[k] # a[k]} = differ
  OBVIOUS
<1>4. CASE differ = {}
  <2>1. Len(a) # Len(b)
    <3>1. SUFFICES ASSUME Len(a) = Len(b) PROVE a = b
      OBVIOUS
    <3>2. \A k \in 1..Len(a) : a[k] = b[k]
      BY <1>1, <1>4, <3>1
    <3> QED BY <3>1, <3>2 DEF Name
  <2>2. Len(a) < Len(b) \/ Len(b) < Len(a)
    BY <1>1, <2>1
  <2> QED BY <1>2, <1>3, <1>4, <2>2 DEF Precedes, short
<1>5. CASE differ # {}
  <2>1. differ \in SUBSET Nat
    BY <1>1
  <2>2. first \in differ /\ \A j \in differ : first <= j
    <3> HIDE DEF differ
    <3> QED BY <1>5, <2>1, LeastIs
  <2> HIDE DEF first
  <2>3. a[first] \in NamePart /\ b[first] \in NamePart /\ a[first] # b[first]
    BY <1>1, <2>2 DEF Name
  <2>4. ASSUME NEW t \in NamePart
        PROVE  TokenRank[t] \in DOMAIN TokenOrder /\ TokenOrder[TokenRank[t]] = t
    BY <2>4 DEF TokenRank, NamePart, Range
  <2>5. /\ TokenRank[a[first]] \in Nat /\ TokenRank[b[first]] \in Nat
        /\ TokenRank[a[first]] # TokenRank[b[first]]
    <3>1. TokenOrder \in Seq(STRING)
      BY MessageDomainConstants
    <3> QED BY <2>3, <2>4, <3>1
  <2>6. TokenRank[a[first]] < TokenRank[b[first]] \/ TokenRank[b[first]] < TokenRank[a[first]]
    BY <2>5
  <2>7. CASE TokenRank[a[first]] < TokenRank[b[first]]
    <3>1. Precedes(a, b)
      BY <1>5, <2>2, <2>7 DEF Precedes, short
    <3> QED BY <3>1
  <2>8. CASE TokenRank[b[first]] < TokenRank[a[first]]
    <3>1. Precedes(b, a)
      BY <1>2, <1>3, <1>5, <2>2, <2>8 DEF Precedes, short
    <3> QED BY <3>1
  <2> QED BY <2>6, <2>7, <2>8
<1> QED BY <1>4, <1>5

(* What is selected is what is in the set.                                   *)
SelectedUpTo(seq, S) ==
  CHOOSE upto : upto = [k \in 0..Len(seq) |->
                  IF k = 0 THEN <<>>
                  ELSE IF seq[k] \in S THEN Append(upto[k - 1], seq[k]) ELSE upto[k - 1]]
LEMMA SelectedIs ==
  ASSUME NEW T, NEW seq \in Seq(T), NEW S
  PROVE  /\ Selected(seq, S) \in Seq(T)
         /\ \A x : (\E j \in 1..Len(Selected(seq, S)) : Selected(seq, S)[j] = x)
                     <=> x \in S /\ \E k \in 1..Len(seq) : seq[k] = x
<1> DEFINE N == Len(seq)
           h == [k \in 1..N |-> [s \in Seq(T) |->
                   IF seq[k] \in S THEN Append(s, seq[k]) ELSE s]]
           Holds(s, k) == /\ s \in Seq(T)
                          /\ \A x : (\E j \in 1..Len(s) : s[j] = x)
                                      <=> x \in S /\ \E q \in 1..k : seq[q] = x
<1>0. N \in Nat /\ \A k \in 1..N : seq[k] \in T
  OBVIOUS
<1>1. PICK f : Stepwise(f, N, <<>>, h)
  BY <1>0, StepwiseExists
<1>2. Holds(f[0], 0)
  <2>1. f[0] = <<>>
    BY <1>0, <1>1 DEF Stepwise
  <2> QED BY <2>1
<1>3. ASSUME NEW k \in 0..(N - 1), Holds(f[k], k)
      PROVE  /\ f[k + 1] = IF seq[k + 1] \in S THEN Append(f[k], seq[k + 1]) ELSE f[k]
             /\ Holds(f[k + 1], k + 1)
  <2>1. k + 1 \in 0..N /\ k + 1 # 0 /\ (k + 1) - 1 = k /\ k + 1 \in 1..N /\ k \in Nat
    BY <1>0
  <2>2. f[k + 1] = h[k + 1][f[k]]
    BY <1>1, <2>1 DEF Stepwise
  <2>3. f[k + 1] = IF seq[k + 1] \in S THEN Append(f[k], seq[k + 1]) ELSE f[k]
    BY <1>3, <2>1, <2>2
  <2>4. CASE seq[k + 1] \notin S
    <3>1. \A q \in 1..(k + 1) : q \in 1..k \/ q = k + 1
      BY <2>1
    <3>2. \A q \in 1..k : q \in 1..(k + 1)
      BY <2>1
    <3>3. f[k + 1] = f[k]
      BY <2>3, <2>4
    <3>4. ASSUME NEW x PROVE (x \in S /\ \E q \in 1..k : seq[q] = x)
                               <=> (x \in S /\ \E q \in 1..(k + 1) : seq[q] = x)
      BY <2>4, <3>1, <3>2
    <3> QED BY <1>3, <2>3, <3>3, <3>4
  <2>5. CASE seq[k + 1] \in S
    <3> DEFINE s == f[k]
               e == seq[k + 1]
               n == Len(s)
    <3>1. f[k + 1] = Append(s, e) /\ e \in T /\ s \in Seq(T) /\ n \in Nat
      BY <1>0, <1>3, <2>1, <2>3, <2>5
    <3>2. /\ Append(s, e) \in Seq(T) /\ Len(Append(s, e)) = n + 1
          /\ \A j \in 1..n : Append(s, e)[j] = s[j]
          /\ Append(s, e)[n + 1] = e
      BY <3>1
    <3>3. \A x : (\E j \in 1..n : s[j] = x) <=> x \in S /\ \E q \in 1..k : seq[q] = x
      BY <1>3
    <3>4. /\ \A q \in 1..(k + 1) : q \in 1..k \/ q = k + 1
          /\ \A q \in 1..(n + 1) : q \in 1..n \/ q = n + 1
          /\ k + 1 \in 1..(k + 1) /\ n + 1 \in 1..(n + 1)
          /\ \A q \in 1..k : q \in 1..(k + 1)
          /\ \A q \in 1..n : q \in 1..(n + 1)
      BY <2>1, <3>1
    <3> DEFINE t == Append(s, e)
    <3>5. t \in Seq(T) /\ Len(t) = n + 1 /\ (\A j \in 1..n : t[j] = s[j]) /\ t[n + 1] = e
          /\ f[k + 1] = t
      BY <3>1, <3>2
    <3> HIDE DEF t, s, n
    <3>6. ASSUME NEW x PROVE (\E j \in 1..(n + 1) : t[j] = x)
                               <=> (x \in S /\ \E q \in 1..(k + 1) : seq[q] = x)
      BY <2>5, <3>3, <3>4, <3>5
    <3> QED BY <2>3, <3>5, <3>6
  <2> QED BY <2>3, <2>4, <2>5
<1>4. \A k \in 0..N : Holds(f[k], k)
  <2> DEFINE P == {k \in 0..N : Holds(f[k], k)}
  <2>0. 0 \in 0..N
    BY <1>0
  <2> HIDE DEF Holds
  <2>1. 0 \in P
    BY <1>2, <2>0
  <2>2. \A k \in 0..(N - 1) : k \in P => k + 1 \in P
    <3>1. ASSUME NEW k \in 0..(N - 1), k \in P PROVE k + 1 \in P
      <4>1. k + 1 \in 0..N
        BY <1>0
      <4> QED BY <1>3, <3>1, <4>1
    <3> QED BY <3>1
  <2> HIDE DEF P
  <2>3. \A k \in 0..N : k \in P
    BY <1>0, <2>1, <2>2, UpToInduction
  <2> USE DEF P
  <2> QED BY <2>3
<1> HIDE DEF Holds
<1>5. f = [k \in 0..N |-> IF k = 0 THEN <<>>
             ELSE IF seq[k] \in S THEN Append(f[k - 1], seq[k]) ELSE f[k - 1]]
  <2>1. f = [k \in 0..N |-> f[k]] /\ f[0] = <<>>
    BY <1>0, <1>1 DEF Stepwise
  <2>2. ASSUME NEW k \in 0..N, k # 0
        PROVE  f[k] = IF seq[k] \in S THEN Append(f[k - 1], seq[k]) ELSE f[k - 1]
    <3>1. k - 1 \in 0..(N - 1) /\ k - 1 \in 0..N /\ (k - 1) + 1 = k
      BY <1>0, <2>2
    <3>2. Holds(f[k - 1], k - 1)
      BY <1>4, <3>1
    <3> QED BY <1>3, <3>1, <3>2
  <2> QED BY <2>1, <2>2
<1>6. SelectedUpTo(seq, S) = [k \in 0..N |->
         IF k = 0 THEN <<>>
         ELSE IF seq[k] \in S THEN Append(SelectedUpTo(seq, S)[k - 1], seq[k])
              ELSE SelectedUpTo(seq, S)[k - 1]]
  BY <1>5 DEF SelectedUpTo
<1> DEFINE g == SelectedUpTo(seq, S)
<1>7. \A k \in 0..N : g[k] = f[k]
  <2> DEFINE P == {k \in 0..N : g[k] = f[k]}
  <2> HIDE DEF g, h
  <2>1. g = [k \in 0..N |-> IF k = 0 THEN <<>>
             ELSE IF seq[k] \in S THEN Append(g[k - 1], seq[k]) ELSE g[k - 1]]
    BY <1>6 DEF g
  <2>2. 0 \in P
    BY <1>0, <1>5, <2>1
  <2>3. \A k \in 0..(N - 1) : k \in P => k + 1 \in P
    <3>1. ASSUME NEW k \in 0..(N - 1), k \in P PROVE k + 1 \in P
      <4>1. k + 1 \in 0..N /\ (k + 1) - 1 = k /\ k + 1 # 0
        BY <1>0
      <4>2. f[k + 1] = IF seq[k + 1] \in S THEN Append(f[k], seq[k + 1]) ELSE f[k]
        BY <1>5, <4>1
      <4>3. g[k + 1] = IF seq[k + 1] \in S THEN Append(g[k], seq[k + 1]) ELSE g[k]
        BY <2>1, <4>1
      <4>4. g[k] = f[k]
        BY <3>1
      <4> QED BY <4>1, <4>2, <4>3, <4>4
    <3> QED BY <3>1
  <2> HIDE DEF P
  <2>4. \A k \in 0..N : k \in P
    BY <1>0, <2>2, <2>3, UpToInduction
  <2> USE DEF P
  <2> QED BY <2>4
<1>8. Selected(seq, S) = g[N]
  BY DEF Selected, SelectedUpTo
<1>9. Selected(seq, S) = f[N] /\ Holds(f[N], N)
  BY <1>0, <1>4, <1>7, <1>8
<1> QED BY <1>9 DEF Holds

(* The parts a mask may have, and the first of them.                         *)
Bits == Range(MaskBits)
BitsUpTo(n) == {MaskBits[j] : j \in 1..n}
LEMMA MaskBitsAre ==
  /\ BitsUpTo(8) = Bits /\ BitsUpTo(0) = {}
  /\ \A j \in 1..8 : MaskBits[j] \in Bits
<1>1. DOMAIN MaskBits = 1..8
  BY DEF MaskBits
<1> QED BY <1>1 DEF Bits, BitsUpTo, Range

(* Counted down are all masks of some of the parts.                          *)
SubmasksUpTo(mask) ==
  CHOOSE down : down = [j \in 0..8 |->
                  IF j = 0 THEN <<{}>>
                  ELSE IF MaskBits[j] \in mask
                         THEN [k \in DOMAIN down[j - 1] |-> down[j - 1][k] \cup {MaskBits[j]}]
                                \o down[j - 1]
                         ELSE down[j - 1]]
LEMMA SubmasksAre ==
  ASSUME NEW mask \in SUBSET Bits
  PROVE  /\ SubmasksDown(mask) \in Seq(SUBSET Bits)
         /\ \A x : (\E j \in 1..Len(SubmasksDown(mask)) : SubmasksDown(mask)[j] = x)
                     <=> x \in SUBSET mask
<1> DEFINE With(s, j) == [k \in DOMAIN s |-> s[k] \cup {MaskBits[j]}]
           h == [j \in 1..8 |-> [s \in Seq(SUBSET Bits) |->
                   IF MaskBits[j] \in mask THEN With(s, j) \o s ELSE s]]
           Holds(s, n) == /\ s \in Seq(SUBSET Bits)
                          /\ \A x : (\E j \in 1..Len(s) : s[j] = x)
                                      <=> x \in SUBSET (mask \cap BitsUpTo(n))
<1>1. PICK f : Stepwise(f, 8, <<{}>>, h)
  BY StepwiseExists
<1>2. Holds(f[0], 0)
  <2>1. f[0] = <<{}>>
    BY <1>1 DEF Stepwise
  <2>2. mask \cap BitsUpTo(0) = {}
    BY MaskBitsAre
  <2> DEFINE s == <<{}>>
  <2>3. s \in Seq(SUBSET Bits) /\ Len(s) = 1 /\ s[1] = {}
    OBVIOUS
  <2> HIDE DEF s
  <2>4. 1..Len(s) = {1}
    BY <2>3
  <2>5. \A x : (\E j \in 1..Len(s) : s[j] = x) <=> x \in SUBSET {}
    <3>1. \A x : (\E j \in 1..Len(s) : s[j] = x) <=> x = {}
      BY <2>3, <2>4
    <3>2. \A x : x \in SUBSET {} <=> x = {}
      OBVIOUS
    <3> QED BY <3>1, <3>2
  <2>6. Holds(s, 0)
    BY <2>2, <2>3, <2>5
  <2> QED BY <2>1, <2>6 DEF s
<1>3. ASSUME NEW n \in 0..7, Holds(f[n], n)
      PROVE  /\ f[n + 1] = IF MaskBits[n + 1] \in mask THEN With(f[n], n + 1) \o f[n] ELSE f[n]
             /\ Holds(f[n + 1], n + 1)
  <2> DEFINE s == f[n]
             b == MaskBits[n + 1]
             w == With(s, n + 1)
             l == Len(s)
  <2>1. n + 1 \in 0..8 /\ n + 1 # 0 /\ (n + 1) - 1 = n /\ n + 1 \in 1..8
    OBVIOUS
  <2>2. f[n + 1] = h[n + 1][s]
    BY <1>1, <2>1 DEF Stepwise
  <2>3. f[n + 1] = IF b \in mask THEN w \o s ELSE s
    BY <1>3, <2>1, <2>2
  <2>4. BitsUpTo(n + 1) = BitsUpTo(n) \cup {b} /\ b \in Bits
    <3>1. \A j : j \in 1..(n + 1) <=> j \in 1..n \/ j = n + 1
      OBVIOUS
    <3> QED BY <2>1, <3>1, MaskBitsAre DEF BitsUpTo
  <2>5. CASE b \notin mask
    <3>1. mask \cap BitsUpTo(n + 1) = mask \cap BitsUpTo(n)
      BY <2>4, <2>5
    <3> QED BY <1>3, <2>3, <2>5, <3>1
  <2>6. CASE b \in mask
    <3>1. s \in Seq(SUBSET Bits) /\ l \in Nat /\ DOMAIN s = 1..l
      BY <1>3
    <3>2. /\ w \in Seq(SUBSET Bits) /\ Len(w) = l
          /\ \A j \in 1..l : w[j] = s[j] \cup {b} /\ s[j] \in SUBSET Bits
      BY <2>4, <3>1
    <3> DEFINE t == w \o s
    <3> HIDE DEF w, s, l
    <3>3. /\ t \in Seq(SUBSET Bits) /\ Len(t) = l + l
          /\ \A j \in 1..l : t[j] = w[j] /\ t[l + j] = s[j]
      BY <3>1, <3>2
    <3>4. /\ \A j \in 1..(l + l) : j \in 1..l \/ (j - l \in 1..l /\ l + (j - l) = j)
          /\ \A j \in 1..l : j \in 1..(l + l) /\ l + j \in 1..(l + l)
      BY <3>1
    <3> HIDE DEF t, b
    <3>5. \A x : (\E j \in 1..l : s[j] = x) <=> x \in SUBSET (mask \cap BitsUpTo(n))
      BY <1>3 DEF s, l
    <3>6. ASSUME NEW x
          PROVE  (\E j \in 1..Len(t) : t[j] = x)
                   <=> x \in SUBSET (mask \cap BitsUpTo(n + 1))
      <4>1. ASSUME NEW j \in 1..Len(t), t[j] = x
            PROVE  x \in SUBSET (mask \cap BitsUpTo(n + 1))
        <5>1. PICK q \in 1..l : t[j] = w[q] \/ t[j] = s[q]
          BY <3>3, <3>4, <4>1
        <5>2. s[q] \in SUBSET (mask \cap BitsUpTo(n))
          BY <3>5
        <5> QED BY <2>4, <2>6, <3>2, <4>1, <5>1, <5>2
      <4>2. ASSUME x \in SUBSET (mask \cap BitsUpTo(n + 1))
            PROVE  \E j \in 1..Len(t) : t[j] = x
        <5>1. x \ {b} \in SUBSET (mask \cap BitsUpTo(n))
          BY <2>4, <4>2
        <5>2. PICK q \in 1..l : s[q] = x \ {b}
          BY <3>5, <5>1
        <5>3. CASE b \in x
          <6>1. w[q] = x
            BY <3>2, <5>2, <5>3
          <6> QED BY <3>3, <3>4, <6>1
        <5>4. CASE b \notin x
          <6>1. s[q] = x
            BY <5>2, <5>4
          <6> QED BY <3>3, <3>4, <6>1
        <5> QED BY <5>3, <5>4
      <4> QED BY <4>1, <4>2
    <3>7. f[n + 1] = t
      BY <2>3, <2>6 DEF t, b, w, s
    <3>8. Holds(f[n + 1], n + 1)
      BY <3>3, <3>6, <3>7
    <3> QED BY <2>3, <3>8 DEF b, w, s
  <2> QED BY <2>5, <2>6
<1>4. \A n \in 0..8 : Holds(f[n], n)
  <2> DEFINE P == {n \in 0..8 : Holds(f[n], n)}
  <2> HIDE DEF Holds
  <2>1. 0 \in P
    BY <1>2
  <2>2. \A n \in 0..(8 - 1) : n \in P => n + 1 \in P
    <3>1. ASSUME NEW n \in 0..7, n \in P PROVE n + 1 \in P
      <4>1. n + 1 \in 0..8
        OBVIOUS
      <4> QED BY <1>3, <3>1, <4>1
    <3> QED BY <3>1
  <2> HIDE DEF P
  <2>3. \A n \in 0..8 : n \in P
    BY <2>1, <2>2, UpToInduction
  <2> USE DEF P
  <2> QED BY <2>3
<1> HIDE DEF Holds
<1>5. f = [n \in 0..8 |-> IF n = 0 THEN <<{}>>
             ELSE IF MaskBits[n] \in mask THEN With(f[n - 1], n) \o f[n - 1] ELSE f[n - 1]]
  <2>1. f = [n \in 0..8 |-> f[n]] /\ f[0] = <<{}>>
    BY <1>1 DEF Stepwise
  <2>2. ASSUME NEW n \in 0..8, n # 0
        PROVE  f[n] = IF MaskBits[n] \in mask THEN With(f[n - 1], n) \o f[n - 1]
                      ELSE f[n - 1]
    <3>1. n - 1 \in 0..7 /\ n - 1 \in 0..8 /\ (n - 1) + 1 = n
      BY <2>2
    <3>2. Holds(f[n - 1], n - 1)
      BY <1>4, <3>1
    <3> QED BY <1>3, <3>1, <3>2
  <2> HIDE DEF With
  <2> QED BY <2>1, <2>2
<1> DEFINE g == SubmasksUpTo(mask)
<1>6. g = [n \in 0..8 |->
         IF n = 0 THEN <<{}>>
         ELSE IF MaskBits[n] \in mask THEN With(g[n - 1], n) \o g[n - 1] ELSE g[n - 1]]
  BY <1>5 DEF SubmasksUpTo
<1>7. \A n \in 0..8 : g[n] = f[n]
  <2> DEFINE P == {n \in 0..8 : g[n] = f[n]}
  <2> HIDE DEF g, h, With
  <2>1. 0 \in P
    BY <1>5, <1>6
  <2>2. \A n \in 0..(8 - 1) : n \in P => n + 1 \in P
    <3>1. ASSUME NEW n \in 0..7, n \in P PROVE n + 1 \in P
      <4>1. n + 1 \in 0..8 /\ (n + 1) - 1 = n /\ n + 1 # 0
        OBVIOUS
      <4>2. f[n + 1] = IF MaskBits[n + 1] \in mask THEN With(f[n], n + 1) \o f[n] ELSE f[n]
        BY <1>5, <4>1
      <4>3. g[n + 1] = IF MaskBits[n + 1] \in mask THEN With(g[n], n + 1) \o g[n] ELSE g[n]
        BY <1>6, <4>1
      <4>4. g[n] = f[n]
        BY <3>1
      <4> QED BY <4>1, <4>2, <4>3, <4>4
    <3> QED BY <3>1
  <2> HIDE DEF P
  <2>3. \A n \in 0..8 : n \in P
    BY <2>1, <2>2, UpToInduction
  <2> USE DEF P
  <2> QED BY <2>3
<1>8. SubmasksDown(mask) = g[8]
  BY DEF SubmasksDown, SubmasksUpTo
<1>9. SubmasksDown(mask) = f[8] /\ Holds(f[8], 8)
  BY <1>4, <1>7, <1>8
<1>10. mask \cap BitsUpTo(8) = mask
  BY MaskBitsAre
<1> QED BY <1>9, <1>10 DEF Holds

(* What a mask falls back to: every smaller mask of one syntax.              *)
LEMMA FallbacksAre ==
  ASSUME NEW mask \in SUBSET Bits
  PROVE  /\ Fallbacks(mask) \in Seq(SUBSET Bits)
         /\ \A x : (\E j \in 1..Len(Fallbacks(mask)) : Fallbacks(mask)[j] = x)
                     <=> x \in SUBSET mask /\ x # mask /\ OneSyntax(x)
<1>1. /\ SubmasksDown(mask) \in Seq(SUBSET Bits)
      /\ \A x : (\E j \in 1..Len(SubmasksDown(mask)) : SubmasksDown(mask)[j] = x)
                     <=> x \in SUBSET mask
  BY SubmasksAre
<1> DEFINE S == {sub \in (SUBSET mask) \ {mask} : OneSyntax(sub)}
<1>2. /\ Selected(SubmasksDown(mask), S) \in Seq(SUBSET Bits)
      /\ \A x : (\E j \in 1..Len(Selected(SubmasksDown(mask), S)) :
                    Selected(SubmasksDown(mask), S)[j] = x)
                  <=> x \in S /\ \E k \in 1..Len(SubmasksDown(mask)) : SubmasksDown(mask)[k] = x
  <2> DEFINE all == SubmasksDown(mask)
             T == SUBSET Bits
  <2>1. all \in Seq(T)
    BY <1>1
  <2> HIDE DEF S, all, T
  <2>2. Selected(all, S) \in Seq(T)
    BY <2>1, SelectedIs
  <2>3. ASSUME NEW x
        PROVE  (\E j \in 1..Len(Selected(all, S)) : Selected(all, S)[j] = x)
                    <=> x \in S /\ \E k \in 1..Len(all) : all[k] = x
    BY <2>1, SelectedIs
  <2> QED BY <2>2, <2>3 DEF all, T
<1>3. \A x : x \in S <=> x \in SUBSET mask /\ x # mask /\ OneSyntax(x)
  OBVIOUS
<1>4. Fallbacks(mask) = Selected(SubmasksDown(mask), S)
  BY DEF Fallbacks
<1> HIDE DEF S
<1> QED BY <1>1, <1>2, <1>3, <1>4

(* Names that are put together.                                              *)
LEMMA JoinedIsName ==
  ASSUME NEW a \in Name, NEW b \in Name
  PROVE  a \o b \in Name
BY DEF Name

(* The words and separators that the code itself puts into a name.           *)
LEMMA SeparatorsAreNames ==
  /\ <<>> \in Name
  /\ <<"/">> \in Name /\ <<"_">> \in Name /\ <<".">> \in Name /\ <<"@">> \in Name
  /\ <<"+">> \in Name /\ <<",">> \in Name /\ <<"iso">> \in Name
<1>1. <<>> \in Name /\ \A x \in NamePart : <<x>> \in Name
  BY DEF Name
<1>2. {"/", "_", ".", "@", "+", ",", "iso"} \subseteq NamePart
  BY MessageDomainConstants
<1> QED BY <1>1, <1>2

(* The parts of a locale name are names.                                     *)
PartsAreNames(parts) ==
  /\ parts.language \in Name /\ parts.territory \in Name /\ parts.codeset \in Name
  /\ parts.normalized_codeset \in Name /\ parts.modifier \in Name
  /\ parts.special \in Name /\ parts.sponsor \in Name /\ parts.revision \in Name

(* The name of a catalog is one.                                             *)
LEMMA FileNameIs ==
  ASSUME NEW dir \in Name, NEW domain \in Name, NEW mask, NEW parts, PartsAreNames(parts)
  PROVE  FileName(dir, mask, parts, domain) \in Name
<1> DEFINE Or(bit, part) == IF bit \in mask THEN part ELSE <<>>
           both == mask \cap {"modifier", "audience"} # {}
           cen  == mask \cap {"sponsor", "revision"} # {}
           a == IF Sign(parts.language, 1) = "/" THEN <<>> ELSE dir \o <<"/">>
           b == Or("territory", <<"_">> \o parts.territory)
           c == Or("codeset", <<".">> \o parts.codeset)
           d == Or("normalized_codeset", <<".">> \o parts.normalized_codeset)
           e == IF both THEN <<IF "audience" \in mask THEN "+" ELSE "@">> \o parts.modifier
                ELSE <<>>
           f == Or("special", <<"+">> \o parts.special)
           g == IF cen THEN <<",">> \o Or("sponsor", parts.sponsor)
                              \o Or("revision", <<"_">> \o parts.revision) ELSE <<>>
<1>1. a \in Name
  BY JoinedIsName, SeparatorsAreNames
<1>2. b \in Name
  BY JoinedIsName, SeparatorsAreNames DEF PartsAreNames
<1>3. c \in Name
  BY JoinedIsName, SeparatorsAreNames DEF PartsAreNames
<1>4. d \in Name
  BY JoinedIsName, SeparatorsAreNames DEF PartsAreNames
<1>5. e \in Name
  <2>1. <<IF "audience" \in mask THEN "+" ELSE "@">> \in Name
    BY SeparatorsAreNames
  <2> QED BY <2>1, JoinedIsName, SeparatorsAreNames DEF PartsAreNames
<1>6. f \in Name
  BY JoinedIsName, SeparatorsAreNames DEF PartsAreNames
<1>7. g \in Name
  <2>1. Or("sponsor", parts.sponsor) \in Name
    BY SeparatorsAreNames DEF PartsAreNames
  <2>2. Or("revision", <<"_">> \o parts.revision) \in Name
    BY JoinedIsName, SeparatorsAreNames DEF PartsAreNames
  <2>3. <<",">> \o Or("sponsor", parts.sponsor) \in Name
    <3> HIDE DEF Or
    <3> QED BY <2>1, JoinedIsName, SeparatorsAreNames
  <2>4. (<<",">> \o Or("sponsor", parts.sponsor)) \o Or("revision", <<"_">> \o parts.revision)
          \in Name
    <3> HIDE DEF Or
    <3> QED BY <2>2, <2>3, JoinedIsName
  <2> QED BY <2>4, SeparatorsAreNames
<1>8. parts.language \in Name
  BY DEF PartsAreNames
<1>9. FileName(dir, mask, parts, domain) =
        ((((((((a \o parts.language) \o b) \o c) \o d) \o e) \o f) \o g) \o <<"/">>)
           \o domain
  BY DEF FileName
<1> HIDE DEF a, b, c, d, e, f, g, Or, both, cen
<1>10. ((a \o parts.language) \o b) \o c \in Name
  BY <1>1, <1>2, <1>3, <1>8, JoinedIsName
<1>11. (((((a \o parts.language) \o b) \o c) \o d) \o e) \o f \in Name
  BY <1>4, <1>5, <1>6, <1>10, JoinedIsName
<1>12. (((((((a \o parts.language) \o b) \o c) \o d) \o e) \o f) \o g) \o <<"/">> \in Name
  BY <1>7, <1>11, JoinedIsName, SeparatorsAreNames
<1> QED BY <1>9, <1>12, JoinedIsName

(* A cursor stays in the name or stops right behind it.                      *)
LEMMA StopAtIs ==
  ASSUME NEW name \in Name, NEW n \in 1..(Len(name) + 2), NEW separators
  PROVE  StopAt(name, n, separators) \in 1..(Len(name) + 1)
<1> DEFINE S == {k \in n..Len(name) : name[k] \in separators} \cup {Len(name) + 1}
<1>1. Len(name) \in Nat
  BY DEF Name
<1>2. S \in SUBSET (1..(Len(name) + 1)) /\ S # {}
  BY <1>1
<1>3. StopAt(name, n, separators) = Min(S)
  BY DEF StopAt
<1> HIDE DEF S
<1>4. S \in SUBSET Nat
  BY <1>1, <1>2
<1> QED BY <1>2, <1>3, <1>4, LeastIs

(* What is between two cursors is a name.                                    *)
LEMMA SliceIs ==
  ASSUME NEW name \in Name, NEW is, NEW from \in 0..(Len(name) + 1),
         NEW to \in 1..(Len(name) + 1)
  PROVE  Slice(name, is, from, to) \in Name
<1>1. name \in Seq(NamePart) /\ Len(name) \in Nat
  BY DEF Name
<1>2. SubSeq(name, from + 1, to - 1) \in Seq(NamePart)
  <2>1. CASE from + 1 <= to - 1
    BY <1>1, <2>1, SubSeqProperties
  <2>2. CASE ~ (from + 1 <= to - 1)
    <3>1. SubSeq(name, from + 1, to - 1) = <<>>
      BY <1>1, <2>2, SubSeqEmpty
    <3> QED BY <3>1
  <2> QED BY <2>1, <2>2
<1> QED BY <1>2, SeparatorsAreNames DEF Slice, Name

(* The normalized form of a codeset is a name.                               *)
LEMMA NormalizeIs ==
  ASSUME NEW codeset \in Name
  PROVE  Normalize(codeset) \in Name
<1> DEFINE S == DOMAIN Lower \cup Numerals
           alnum == Selected(codeset, S)
           low == [k \in DOMAIN alnum |->
                     IF alnum[k] \in Numerals THEN alnum[k] ELSE Lower[alnum[k]]]
<1>1. codeset \in Seq(NamePart)
  BY DEF Name
<1>2. alnum \in Seq(NamePart)
  BY <1>1, SelectedIs
<1>3. \A k \in 1..Len(alnum) : alnum[k] \in S
  <2>1. ASSUME NEW x
        PROVE  (\E j \in 1..Len(alnum) : alnum[j] = x) => x \in S
    BY <1>1, SelectedIs
  <2> HIDE DEF alnum, S
  <2> QED BY <2>1
<1> HIDE DEF alnum
<1>4. DOMAIN alnum = 1..Len(alnum) /\ Len(alnum) \in Nat
  BY <1>2
<1>5. \A k \in 1..Len(alnum) : low[k] \in NamePart
  BY <1>2, <1>3, <1>4, MessageDomainConstants
<1>6. low \in Seq(NamePart)
  <2>1. low = [k \in 1..Len(alnum) |-> low[k]]
    BY <1>4
  <2> HIDE DEF low
  <2> QED BY <1>4, <1>5, <2>1
<1>7. <<"iso">> \o low \in Name
  BY <1>6, JoinedIsName, SeparatorsAreNames DEF Name
<1> HIDE DEF low
<1> QED BY <1>6, <1>7 DEF Normalize, Name, low, alnum

(* A name that is taken apart has parts that are names, and a mask of bits.  *)
LEMMA PartsFromIs ==
  ASSUME NEW name \in Name, NEW l \in 1..(Len(name) + 1), NEW t \in 1..(Len(name) + 1),
         NEW c \in 1..(Len(name) + 1), NEW terr, NEW cs,
         NEW codeset \in Name, NEW norm \in Name
  PROVE  /\ PartsFrom(name, l, t, c, terr, cs, codeset, norm).mask \in SUBSET Bits
         /\ PartsAreNames(PartsFrom(name, l, t, c, terr, cs, codeset, norm).parts)
<1> DEFINE L == Len(name) + 1
           mod   == Sign(name, c) = "@" \/ (~ cs /\ Sign(name, c) = "+")
           xpg   == cs \/ Sign(name, c) = "@"
           m     == IF ~ mod THEN c
                    ELSE IF xpg THEN Len(name) + 1 ELSE StopAt(name, c + 1, {"+", ",", "_"})
           spec  == ~ xpg /\ Sign(name, m) = "+"
           s     == IF spec THEN StopAt(name, m + 1, {",", "_"}) ELSE m
           spons == ~ xpg /\ Sign(name, s) = ","
           p     == IF spons THEN StopAt(name, s + 1, {"_"}) ELSE s
           rev   == ~ xpg /\ Sign(name, p) = "_"
           bits    == [ territory |-> terr, codeset |-> cs, modifier |-> mod,
                        audience |-> mod, special |-> spec, sponsor |-> spons,
                        revision |-> rev, normalized_codeset |-> norm # codeset ]
           empty   == {b \in {"territory", "codeset", "modifier"} :
                         CASE b = "territory" -> t = l + 1 [] b = "codeset" -> codeset = <<>>
                           [] b = "modifier"  -> m = c + 1}
           parts   == [ language |-> SubSeq(name, 1, l - 1),
                        territory |-> Slice(name, terr, l, t), codeset |-> codeset,
                        normalized_codeset |-> norm, modifier |-> Slice(name, mod, c, m),
                        special |-> Slice(name, spec, m, s),
                        sponsor |-> Slice(name, spons, s, p),
                        revision |-> Slice(name, rev, p, Len(name) + 1) ]
           mask    == {b \in DOMAIN bits : bits[b]} \ (IF xpg THEN empty ELSE {})
<1>1. Len(name) \in Nat
  BY DEF Name
<1>2. \A n \in 1..L : n + 1 \in 1..(Len(name) + 2) /\ n \in 0..L
  BY <1>1
<1>3. m \in 1..L
  <2>1. c + 1 \in 1..(Len(name) + 2) /\ L \in 1..L
    BY <1>1, <1>2
  <2> QED BY <2>1, StopAtIs
<1> HIDE DEF m
<1>4. s \in 1..L
  <2>1. m + 1 \in 1..(Len(name) + 2)
    BY <1>2, <1>3
  <2> QED BY <1>3, <2>1, StopAtIs
<1> HIDE DEF s
<1>5. p \in 1..L
  <2>1. s + 1 \in 1..(Len(name) + 2)
    BY <1>2, <1>4
  <2> QED BY <1>4, <2>1, StopAtIs
<1> HIDE DEF p
<1>6. SubSeq(name, 1, l - 1) \in Name
  <2>1. 0 \in 0..L /\ 0 + 1 = 1
    BY <1>1
  <2>2. Slice(name, TRUE, 0, l) = SubSeq(name, 1, l - 1)
    BY <2>1 DEF Slice
  <2> QED BY <2>1, <2>2, SliceIs
<1>7. /\ Slice(name, terr, l, t) \in Name /\ Slice(name, mod, c, m) \in Name
      /\ Slice(name, spec, m, s) \in Name /\ Slice(name, spons, s, p) \in Name
      /\ Slice(name, rev, p, Len(name) + 1) \in Name
  <2>1. l \in 0..L /\ c \in 0..L /\ m \in 0..L /\ s \in 0..L /\ p \in 0..L
        /\ Len(name) + 1 \in 1..L
    BY <1>1, <1>2, <1>3, <1>4, <1>5
  <2> HIDE DEF mod, spec, spons, rev
  <2> QED BY <1>3, <1>4, <1>5, <2>1, SliceIs
<1> HIDE DEF mod, xpg, spec, spons, rev
<1>8. PartsAreNames(parts)
  BY <1>6, <1>7 DEF PartsAreNames
<1>9. PartsAreNames([parts EXCEPT !.language = name])
  BY <1>7 DEF PartsAreNames
<1>10. mask \in SUBSET Bits
  <2>1. DOMAIN bits = {"territory", "codeset", "modifier", "audience", "special", "sponsor",
                       "revision", "normalized_codeset"}
    OBVIOUS
  <2>2. mask \in SUBSET (DOMAIN bits)
    <3> HIDE DEF bits, empty
    <3> QED OBVIOUS
  <2>3. {"territory", "codeset", "modifier", "audience", "special", "sponsor",
         "revision", "normalized_codeset"} \subseteq Bits
    <3>1. /\ MaskBits[1] = "revision" /\ MaskBits[2] = "sponsor" /\ MaskBits[3] = "special"
          /\ MaskBits[4] = "normalized_codeset" /\ MaskBits[5] = "codeset"
          /\ MaskBits[6] = "territory" /\ MaskBits[7] = "audience" /\ MaskBits[8] = "modifier"
      BY DEF MaskBits
    <3>2. \A j \in 1..8 : MaskBits[j] \in Bits
      BY MaskBitsAre
    <3> QED BY <3>1, <3>2
  <2> HIDE DEF mask, bits
  <2> QED BY <2>1, <2>2, <2>3
<1>11. PartsFrom(name, l, t, c, terr, cs, codeset, norm) =
         IF l = 1 THEN [mask |-> {}, parts |-> [parts EXCEPT !.language = name]]
         ELSE [mask |-> mask, parts |-> parts]
  BY DEF PartsFrom, mod, xpg, m, spec, s, spons, p, rev
<1> HIDE DEF parts, mask
<1> QED BY <1>8, <1>9, <1>10, <1>11

(* So has any name of a locale.                                               *)
LEMMA ExplodeIs ==
  ASSUME NEW name \in Name
  PROVE  Explode(name).mask \in SUBSET Bits /\ PartsAreNames(Explode(name).parts)
<1> DEFINE l    == StopAt(name, 1, {"_", "@", "+", ","})
           terr == Sign(name, l) = "_"
           t    == IF terr THEN StopAt(name, l + 1, {".", "@", "+", ",", "_"}) ELSE l
           cs   == terr /\ Sign(name, t) = "."
           c    == IF cs THEN StopAt(name, t + 1, {"@"}) ELSE t
           codeset == Slice(name, cs, t, c)
           norm    == IF codeset = <<>> THEN codeset ELSE Normalize(codeset)
           L == Len(name) + 1
<1>1. Len(name) \in Nat
  BY DEF Name
<1>2. \A n \in 1..L : n + 1 \in 1..(Len(name) + 2) /\ n \in 0..L
  BY <1>1
<1>3. l \in 1..L
  <2>1. 1 \in 1..(Len(name) + 2)
    BY <1>1
  <2> QED BY <2>1, StopAtIs
<1> HIDE DEF l
<1>4. t \in 1..L
  <2>1. l + 1 \in 1..(Len(name) + 2)
    BY <1>2, <1>3
  <2> QED BY <1>3, <2>1, StopAtIs
<1> HIDE DEF t
<1>5. c \in 1..L
  <2>1. t + 1 \in 1..(Len(name) + 2)
    BY <1>2, <1>4
  <2> QED BY <1>4, <2>1, StopAtIs
<1> HIDE DEF c, terr, cs
<1>6. codeset \in Name
  <2>1. t \in 0..L
    BY <1>2, <1>4
  <2> QED BY <1>5, <2>1, SliceIs
<1> HIDE DEF codeset
<1>7. norm \in Name
  BY <1>6, NormalizeIs
<1> HIDE DEF norm
<1>8. Explode(name) = PartsFrom(name, l, t, c, terr, cs, codeset, norm)
  BY DEF Explode, l, t, c, terr, cs, codeset, norm
<1> QED BY <1>3, <1>4, <1>5, <1>6, <1>7, <1>8, PartsFromIs

(* An element is put into a sequence: those from its place on move.          *)
LEMMA InsertAtIs ==
  ASSUME NEW T, NEW s \in Seq(T), NEW x \in T, NEW p \in 1..(Len(s) + 1)
  PROVE  /\ InsertAt(s, p, x) \in Seq(T) /\ Len(InsertAt(s, p, x)) = Len(s) + 1
         /\ \A k \in 1..(Len(s) + 1) :
              InsertAt(s, p, x)[k] = IF k < p THEN s[k] ELSE IF k = p THEN x ELSE s[k - 1]
<1> DEFINE n == Len(s)
           a == SubSeq(s, 1, p - 1)
           b == SubSeq(s, p, n)
<1>1. n \in Nat /\ p \in Nat /\ p >= 1 /\ p <= n + 1
  OBVIOUS
<1>2. a \in Seq(T) /\ Len(a) = p - 1 /\ \A k \in 1..(p - 1) : a[k] = s[k]
  <2>1. \A q \in 1..(p - 1) : s[q] \in T
    BY <1>1
  <2>2. /\ a \in Seq(T) /\ Len(a) = IF 1 <= p - 1 THEN (p - 1) - 1 + 1 ELSE 0
        /\ \A q \in 1..((p - 1) - 1 + 1) : a[q] = s[1 + q - 1]
    BY <1>1, <2>1, SubSeqProperties
  <2> HIDE DEF a
  <2> QED BY <1>1, <2>2
<1>3. b \in Seq(T) /\ Len(b) = (n - p) + 1 /\ \A k \in 1..((n - p) + 1) : b[k] = s[(p + k) - 1]
  <2>1. \A q \in p..n : s[q] \in T
    BY <1>1
  <2>2. /\ b \in Seq(T) /\ Len(b) = IF p <= n THEN n - p + 1 ELSE 0
        /\ \A q \in 1..(n - p + 1) : b[q] = s[p + q - 1]
    BY <1>1, <2>1, SubSeqProperties
  <2> HIDE DEF b
  <2> QED BY <1>1, <2>2
<1>4. InsertAt(s, p, x) = (a \o <<x>>) \o b
  BY DEF InsertAt
<1> HIDE DEF a, b
<1> DEFINE c == a \o <<x>>
<1>5. /\ c \in Seq(T) /\ Len(c) = p
      /\ \A k \in 1..p : c[k] = IF k < p THEN s[k] ELSE x
  <2>1. <<x>> \in Seq(T) /\ Len(<<x>>) = 1 /\ <<x>>[1] = x
    OBVIOUS
  <2>2. c \in Seq(T) /\ Len(c) = p
    BY <1>1, <1>2, <2>1
  <2>3. ASSUME NEW k \in 1..p PROVE c[k] = IF k < p THEN s[k] ELSE x
    <3>1. CASE k < p
      <4>1. k \in 1..(p - 1) /\ k \in 1..Len(a)
        BY <1>1, <1>2, <3>1
      <4>2. c[k] = a[k]
        BY <1>2, <2>1, <4>1
      <4> QED BY <1>2, <3>1, <4>1, <4>2
    <3>2. CASE ~ (k < p)
      <4>1. k = p /\ k = Len(a) + 1
        BY <1>1, <1>2, <3>2
      <4>2. c[k] = x
        BY <1>2, <2>1, <4>1
      <4> QED BY <3>2, <4>2
    <3> QED BY <3>1, <3>2
  <2> QED BY <2>2, <2>3
<1> HIDE DEF c
<1>6. c \o b \in Seq(T) /\ Len(c \o b) = n + 1
  <2>1. c \o b \in Seq(T) /\ Len(c \o b) = Len(c) + Len(b)
    BY <1>3, <1>5, ConcatProperties
  <2>2. Len(c \o b) = p + ((n - p) + 1)
    BY <1>3, <1>5, <2>1
  <2> HIDE DEF n
  <2> QED BY <1>1, <2>1, <2>2
<1>7. ASSUME NEW k \in 1..(n + 1)
      PROVE  (c \o b)[k] = IF k < p THEN s[k] ELSE IF k = p THEN x ELSE s[k - 1]
  <2>1. CASE k <= p
    <3>1. k \in 1..p /\ k \in 1..Len(c)
      BY <1>1, <1>5, <2>1
    <3>2. (c \o b)[k] = c[k]
      BY <1>3, <1>5, <3>1
    <3> QED BY <1>1, <1>5, <2>1, <3>1, <3>2
  <2>2. CASE ~ (k <= p)
    <3>1. k - p \in 1..((n - p) + 1) /\ k = Len(c) + (k - p) /\ (p + (k - p)) - 1 = k - 1
      BY <1>1, <1>5, <2>2
    <3>2. (c \o b)[Len(c) + (k - p)] = b[k - p]
      BY <1>3, <1>5, <3>1
    <3> QED BY <1>1, <1>3, <2>2, <3>1, <3>2
  <2> QED BY <2>1, <2>2
<1> QED BY <1>4, <1>6, <1>7 DEF c

-----------------------------------------------------------------------------
(* The list of catalogs. Its entries have names, whatever is known of them.  *)
IsEntry(e) ==
  /\ {"filename", "successor"} \subseteq DOMAIN e
  /\ e.filename \in Name /\ e.successor \in Seq(Name)
IsList(list) == list \in Seq(Range(list)) /\ \A k \in 1..Len(list) : IsEntry(list[k])

Names(list) == {list[k].filename : k \in 1..Len(list)}
Descends(list) ==
  \A k \in 1..(Len(list) - 1) : Precedes(list[k + 1].filename, list[k].filename)
HasFallbacks(list, e) == \A j \in 1..Len(e.successor) : e.successor[j] \in Names(list)
IsSearchable(list) ==
  IsList(list) /\ Descends(list) /\ \A k \in 1..Len(list) : HasFallbacks(list, list[k])

(* The place that is found for a name has greater names before it.           *)
LEMMA PlaceOfIs ==
  ASSUME NEW list, IsList(list), NEW filename \in Name
  PROVE  /\ PlaceOf(list, filename) \in 1..(Len(list) + 1)
         /\ \A k \in 1..Len(list) :
              k < PlaceOf(list, filename) => Precedes(filename, list[k].filename)
         /\ PlaceOf(list, filename) <= Len(list) =>
              ~ Precedes(filename, list[PlaceOf(list, filename)].filename)
<1> DEFINE S == {k \in DOMAIN list : ~ Precedes(filename, list[k].filename)}
                  \cup {Len(list) + 1}
<1>1. Len(list) \in Nat /\ DOMAIN list = 1..Len(list)
  BY DEF IsList
<1>2. S \in SUBSET Nat /\ S # {} /\ S \subseteq 1..(Len(list) + 1)
  BY <1>1
<1>3. PlaceOf(list, filename) = Min(S)
  BY DEF PlaceOf
<1>4. \A k \in 1..Len(list) : k \in S <=> ~ Precedes(filename, list[k].filename)
  BY <1>1
<1> HIDE DEF S
<1> DEFINE m == Min(S)
<1>5. m \in S /\ \A k \in S : m <= k
  BY <1>2, LeastIs
<1>8. m \in 1..(Len(list) + 1)
  BY <1>2, <1>5
<1> HIDE DEF m
<1>6. ASSUME NEW k \in 1..Len(list), k < m PROVE Precedes(filename, list[k].filename)
  <2>1. k \notin S
    BY <1>1, <1>5, <1>6, <1>8
  <2> QED BY <1>4, <2>1
<1>7. ASSUME m <= Len(list) PROVE ~ Precedes(filename, list[m].filename)
  <2>1. m \in 1..Len(list)
    BY <1>1, <1>7, <1>8
  <2> QED BY <1>4, <1>5, <2>1
<1>9. PlaceOf(list, filename) = m
  BY <1>3 DEF m
<1> QED BY <1>6, <1>7, <1>8, <1>9

(* A new entry comes into its place, unless it is listed.                    *)
LEMMA NewEntryKeeps ==
  ASSUME NEW list, IsList(list), Descends(list), NEW e, IsEntry(e)
  PROVE  /\ IsList(NewEntry(list, e)) /\ Descends(NewEntry(list, e))
         /\ Names(NewEntry(list, e)) = Names(list) \cup {e.filename}
         /\ \A k \in 1..Len(NewEntry(list, e)) :
              NewEntry(list, e)[k] = e \/ \E q \in 1..Len(list) : NewEntry(list, e)[k] = list[q]
<1> DEFINE n == Len(list)
           f == e.filename
           p == PlaceOf(list, f)
           new == InsertAt(list, p, e)
<1>1. n \in Nat /\ f \in Name /\ \A k \in 1..n : list[k].filename \in Name
  <2>1. n \in Nat
    BY DEF IsList
  <2>2. f \in Name /\ \A k \in 1..n : list[k].filename \in Name
    BY DEF IsList, IsEntry
  <2> QED BY <2>1, <2>2
<1>2. /\ p \in 1..(n + 1) /\ \A k \in 1..n : k < p => Precedes(f, list[k].filename)
      /\ p <= n => ~ Precedes(f, list[p].filename)
  BY <1>1, PlaceOfIs
<1> HIDE DEF p
<1>3. CASE p <= n /\ list[p].filename = f
  <2>1. NewEntry(list, e) = list
    BY <1>3 DEF NewEntry, IsListed, p
  <2>2. f \in Names(list)
    BY <1>1, <1>2, <1>3 DEF Names
  <2>3. Names(list) \cup {f} = Names(list)
    BY <2>2
  <2> QED BY <2>1, <2>3
<1>4. CASE ~ (p <= n /\ list[p].filename = f)
  <2>1. NewEntry(list, e) = new
    BY <1>4 DEF NewEntry, IsListed, p
  <2> DEFINE T == Range(list) \cup {e}
  <2>2. list \in Seq(T) /\ e \in T
    <3>1. \A k \in 1..n : list[k] \in T
      BY DEF IsList, Range
    <3>2. list = [k \in 1..n |-> list[k]]
      BY DEF IsList
    <3> HIDE DEF T
    <3>3. list \in Seq(T)
      BY <1>1, <3>1, <3>2
    <3> QED BY <3>3 DEF T
  <2>3. /\ new \in Seq(T) /\ Len(new) = n + 1
        /\ \A k \in 1..(n + 1) :
             new[k] = IF k < p THEN list[k] ELSE IF k = p THEN e ELSE list[k - 1]
    <3> HIDE DEF T
    <3> QED BY <1>2, <2>2, InsertAtIs
  <2> HIDE DEF new, T
  <2>4. \A k \in 1..(n + 1) : \/ k < p /\ k \in 1..n /\ new[k] = list[k]
                              \/ k = p /\ new[k] = e
                              \/ k > p /\ k - 1 \in 1..n /\ new[k] = list[k - 1]
    BY <1>1, <1>2, <2>3
  <2>5. \A k \in 1..Len(new) : new[k] = e \/ \E q \in 1..n : new[k] = list[q]
    BY <2>3, <2>4
  <2>6. IsList(new)
    <3>1. new \in Seq(Range(new))
      <4>1. new = [k \in 1..(n + 1) |-> new[k]] /\ DOMAIN new = 1..(n + 1) /\ n + 1 \in Nat
        BY <1>1, <2>3
      <4>2. \A k \in 1..(n + 1) : new[k] \in Range(new)
        BY <4>1 DEF Range
      <4> QED BY <4>1, <4>2
    <3>2. \A k \in 1..n : IsEntry(list[k])
      BY DEF IsList
    <3> QED BY <2>5, <3>1, <3>2 DEF IsList
  <2>7. Names(new) = Names(list) \cup {f}
    <3>1. ASSUME NEW q \in 1..n PROVE \E k \in 1..(n + 1) : new[k] = list[q]
      <4>1. CASE q < p
        <5>1. q \in 1..(n + 1) /\ new[q] = list[q]
          BY <1>1, <2>3, <4>1
        <5> QED BY <5>1
      <4>2. CASE ~ (q < p)
        <5>1. q + 1 \in 1..(n + 1) /\ ~ (q + 1 < p) /\ q + 1 # p /\ (q + 1) - 1 = q
          BY <1>1, <1>2, <4>2
        <5>2. new[q + 1] = list[q]
          BY <2>3, <5>1
        <5> QED BY <5>1, <5>2
      <4> QED BY <4>1, <4>2
    <3>2. p \in 1..(n + 1) /\ new[p] = e
      BY <1>2, <2>3
    <3>3. ASSUME NEW g \in Names(new) PROVE g \in Names(list) \cup {f}
      <4>1. PICK k \in 1..Len(new) : g = new[k].filename
        BY DEF Names
      <4> QED BY <2>5, <4>1 DEF Names
    <3>4. ASSUME NEW g \in Names(list) PROVE g \in Names(new)
      <4>1. PICK q \in 1..n : g = list[q].filename
        BY DEF Names
      <4>2. PICK k \in 1..(n + 1) : new[k] = list[q]
        BY <3>1
      <4> QED BY <2>3, <4>1, <4>2 DEF Names
    <3>5. f \in Names(new)
      BY <2>3, <3>2 DEF Names
    <3> QED BY <3>3, <3>4, <3>5
  <2>8. Descends(new)
    <3>1. ASSUME NEW k \in 1..((n + 1) - 1)
          PROVE  Precedes(new[k + 1].filename, new[k].filename)
      <4>1. k \in 1..n /\ k \in 1..(n + 1) /\ k + 1 \in 1..(n + 1) /\ (k + 1) - 1 = k
        BY <1>1
      <4>2. CASE k + 1 < p
        <5>1. new[k + 1] = list[k + 1] /\ new[k] = list[k] /\ k \in 1..(n - 1)
          BY <1>1, <1>2, <2>3, <4>1, <4>2
        <5> QED BY <5>1 DEF Descends
      <4>3. CASE k + 1 = p
        <5>1. new[k + 1] = e /\ new[k] = list[k] /\ k < p
          BY <1>1, <1>2, <2>3, <4>1, <4>3
        <5> QED BY <1>2, <4>1, <5>1
      <4>4. CASE k = p
        <5>1. new[k + 1] = list[k] /\ new[k] = e /\ p <= n
          BY <1>1, <1>2, <2>3, <4>1, <4>4
        <5>2. ~ Precedes(f, list[k].filename) /\ list[k].filename # f
          BY <1>2, <1>4, <4>4, <5>1
        <5>3. Precedes(list[k].filename, f)
          BY <1>1, <4>1, <5>2, PrecedesIsTotal
        <5> QED BY <5>1, <5>3
      <4>5. CASE k > p
        <5>1. new[k + 1] = list[k] /\ new[k] = list[k - 1] /\ k - 1 \in 1..(n - 1)
              /\ (k - 1) + 1 = k
          BY <1>1, <1>2, <2>3, <4>1, <4>5
        <5>2. Precedes(list[(k - 1) + 1].filename, list[k - 1].filename)
          BY <5>1 DEF Descends
        <5> QED BY <5>1, <5>2
      <4>6. k + 1 < p \/ k + 1 = p \/ k = p \/ k > p
        BY <1>1, <1>2, <4>1
      <4> QED BY <4>2, <4>3, <4>4, <4>5, <4>6
    <3> QED BY <2>3, <3>1 DEF Descends
  <2> QED BY <2>1, <2>5, <2>6, <2>7, <2>8
<1> QED BY <1>3, <1>4

(* The entries for a name: each falls back to others of them.                *)
AreEntries(entries) ==
  /\ IsList(entries) /\ Len(entries) # 0
  /\ \A k \in 1..Len(entries) : HasFallbacks(entries, entries[k])

(* With the entries for a name the list stays one that can be searched.      *)
LEMMA MakeL10nflistKeeps ==
  ASSUME NEW list, IsSearchable(list), NEW entries, AreEntries(entries)
  PROVE  /\ IsSearchable(MakeL10nflist(list, entries))
         /\ entries[1].filename \in Names(MakeL10nflist(list, entries))
<1> DEFINE N == Len(entries)
           f1 == entries[1].filename
           T == {list[q] : q \in 1..Len(list)} \cup {entries[q] : q \in 1..N}
           Upto(k) == Names(list) \cup {entries[q].filename : q \in 1..k}
           h == [k \in 1..N |-> [l \in Seq(T) |-> NewEntry(l, entries[k])]]
           Holds(l, k) == l \in Seq(T) /\ IsList(l) /\ Descends(l) /\ Names(l) = Upto(k)
<1>0. /\ N \in Nat /\ N # 0 /\ 1 \in 1..N /\ N \in 0..N
      /\ \A k \in 1..N : IsEntry(entries[k]) /\ entries[k].filename \in Name
      /\ \A k \in 1..Len(list) : list[k].filename \in Name
  <2>1. N \in Nat /\ N # 0
    BY DEF AreEntries, IsList
  <2>2. \A k \in 1..N : IsEntry(entries[k]) /\ entries[k].filename \in Name
    BY DEF AreEntries, IsList, IsEntry
  <2>3. \A k \in 1..Len(list) : list[k].filename \in Name
    BY DEF IsSearchable, IsList, IsEntry
  <2> HIDE DEF N
  <2> QED BY <2>1, <2>2, <2>3
<1>1. CASE IsListed(list, f1)
  <2>1. MakeL10nflist(list, entries) = list
    BY <1>1 DEF MakeL10nflist
  <2>2. f1 \in Names(list)
    <3>1. PlaceOf(list, f1) \in 1..(Len(list) + 1) /\ Len(list) \in Nat
      BY <1>0, PlaceOfIs DEF IsSearchable, IsList
    <3>2. PlaceOf(list, f1) \in 1..Len(list) /\ list[PlaceOf(list, f1)].filename = f1
      <4> DEFINE p == PlaceOf(list, f1)
      <4>1. p <= Len(list) /\ list[p].filename = f1
        BY <1>1 DEF IsListed
      <4> HIDE DEF p
      <4>2. p \in 1..(Len(list) + 1) /\ Len(list) \in Nat
        BY <3>1 DEF p
      <4>3. p \in 1..Len(list)
        BY <4>1, <4>2
      <4> QED BY <4>1, <4>3 DEF p
    <3> QED BY <3>2 DEF Names
  <2> QED BY <2>1, <2>2
<1>2. CASE ~ IsListed(list, f1)
  <2>1. PICK made : Stepwise(made, N, list, h)
    BY <1>0, StepwiseExists
  <2>2. Holds(made[0], 0)
    <3>1. made[0] = list
      BY <1>0, <2>1 DEF Stepwise
    <3>2. list \in Seq(T)
      <4>1. \A q \in 1..Len(list) : list[q] \in T
        OBVIOUS
      <4>2. Len(list) \in Nat /\ list = [q \in 1..Len(list) |-> list[q]]
        BY DEF IsSearchable, IsList
      <4> HIDE DEF T
      <4> QED BY <4>1, <4>2
    <3>3. Names(list) = Upto(0)
      OBVIOUS
    <3> QED BY <3>1, <3>2, <3>3 DEF IsSearchable
  <2>3. ASSUME NEW k \in 0..(N - 1), Holds(made[k], k)
        PROVE  made[k + 1] = NewEntry(made[k], entries[k + 1]) /\ Holds(made[k + 1], k + 1)
    <3> DEFINE e == entries[k + 1]
               l == made[k]
               new == NewEntry(l, e)
    <3>1. k + 1 \in 0..N /\ k + 1 # 0 /\ (k + 1) - 1 = k /\ k + 1 \in 1..N /\ k \in Nat
      BY <1>0
    <3>2. made[k + 1] = h[k + 1][l]
      BY <2>1, <3>1 DEF Stepwise
    <3>3. made[k + 1] = new
      BY <2>3, <3>1, <3>2
    <3>4. /\ IsList(new) /\ Descends(new) /\ Names(new) = Names(l) \cup {e.filename}
          /\ \A q \in 1..Len(new) : new[q] = e \/ \E j \in 1..Len(l) : new[q] = l[j]
      <4>1. IsList(l) /\ Descends(l) /\ IsEntry(e)
        BY <1>0, <2>3, <3>1
      <4> HIDE DEF l, e
      <4> QED BY <4>1, NewEntryKeeps
    <3>5. new \in Seq(T)
      <4>1. e \in T /\ \A j \in 1..Len(l) : l[j] \in T
        <5>1. e \in T /\ l \in Seq(T)
          BY <2>3, <3>1
        <5> HIDE DEF l, T
        <5> QED BY <5>1
      <4>2. \A q \in 1..Len(new) : new[q] \in T
        BY <3>4, <4>1
      <4>3. Len(new) \in Nat /\ new = [q \in 1..Len(new) |-> new[q]]
        BY <3>4 DEF IsList
      <4> HIDE DEF T, new
      <4> QED BY <4>2, <4>3
    <3>6. Upto(k) \cup {e.filename} = Upto(k + 1)
      <4>1. \A q \in 1..(k + 1) : q \in 1..k \/ q = k + 1
        BY <3>1
      <4>2. k + 1 \in 1..(k + 1) /\ \A q \in 1..k : q \in 1..(k + 1)
        BY <3>1
      <4> QED BY <4>1, <4>2
    <3>7. Names(new) = Upto(k + 1)
      <4>1. Names(l) = Upto(k)
        BY <2>3
      <4> QED BY <3>4, <3>6, <4>1
    <3>8. Holds(new, k + 1)
      <4> HIDE DEF Upto, T, new, h
      <4> QED BY <3>4, <3>5, <3>7
    <3> HIDE DEF Holds, new
    <3> QED BY <3>3, <3>8 DEF new
  <2>4. \A k \in 0..N : Holds(made[k], k)
    <3> DEFINE P == {k \in 0..N : Holds(made[k], k)}
    <3>0. 0 \in 0..N
      BY <1>0
    <3> HIDE DEF Holds, N
    <3>1. 0 \in P
      BY <2>2, <3>0
    <3>2. ASSUME NEW k \in 0..(N - 1), k \in P PROVE k + 1 \in P
      <4>1. k + 1 \in 0..N
        BY <1>0
      <4> QED BY <2>3, <3>2, <4>1
    <3>3. \A k \in 0..(N - 1) : k \in P => k + 1 \in P
      BY <3>2
    <3> HIDE DEF P
    <3>4. \A k \in 0..N : k \in P
      BY <1>0, <3>1, <3>3, UpToInduction
    <3> QED BY <3>4 DEF P
  <2>5. MakeL10nflist(list, entries) = made[N]
    <3> DEFINE F(g) == [k \in 0..N |-> IF k = 0 THEN list ELSE NewEntry(g[k - 1], entries[k])]
    <3>1. made = F(made)
      <4>1. ASSUME NEW k \in 0..N
            PROVE  made[k] = IF k = 0 THEN list ELSE NewEntry(made[k - 1], entries[k])
        <5>1. CASE k = 0
          BY <1>0, <2>1, <5>1 DEF Stepwise
        <5>2. CASE k # 0
          <6>1. k - 1 \in 0..(N - 1) /\ k - 1 \in 0..N /\ (k - 1) + 1 = k
            BY <1>0, <5>2
          <6> QED BY <2>3, <2>4, <5>2, <6>1
        <5> QED BY <5>1, <5>2
      <4>2. made = [k \in 0..N |-> made[k]]
        BY <2>1 DEF Stepwise
      <4> HIDE DEF N
      <4> QED BY <4>1, <4>2
    <3>2. ASSUME NEW g, g = F(g) PROVE g = made
      <4> DEFINE P == {k \in 0..N : g[k] = made[k]}
      <4>1. 0 \in P
        BY <1>0, <3>1, <3>2
      <4>2. ASSUME NEW k \in 0..(N - 1), k \in P PROVE k + 1 \in P
        <5>1. k + 1 \in 0..N /\ k + 1 # 0 /\ (k + 1) - 1 = k
          BY <1>0
        <5>2. g[k + 1] = NewEntry(g[k], entries[k + 1])
          BY <3>2, <5>1
        <5>3. made[k + 1] = NewEntry(made[k], entries[k + 1])
          BY <3>1, <5>1
        <5> QED BY <4>2, <5>1, <5>2, <5>3
      <4>3. \A k \in 0..(N - 1) : k \in P => k + 1 \in P
        BY <4>2
      <4>4. \A k \in 0..N : k \in P
        <5> HIDE DEF P
        <5> QED BY <1>0, <4>1, <4>3, UpToInduction
      <4>5. g = [k \in 0..N |-> g[k]] /\ made = [k \in 0..N |-> made[k]]
        BY <3>1, <3>2
      <4> HIDE DEF N
      <4> QED BY <4>4, <4>5
    <3>3. (CHOOSE g : g = F(g)) = made
      BY <3>1, <3>2
    <3>4. MakeL10nflist(list, entries) = (CHOOSE g : g = F(g))[N]
      BY <1>2 DEF MakeL10nflist
    <3> QED BY <3>3, <3>4
  <2> DEFINE new == made[N]
  <2>6. Holds(new, N)
    BY <1>0, <2>4
  <2>7. \A q \in 1..Len(new) : new[q] \in T
    BY <2>6
  <2>8. ASSUME NEW q \in 1..Len(new) PROVE HasFallbacks(new, new[q])
    <3>1. Names(list) \subseteq Names(new) /\ Names(entries) \subseteq Names(new)
      BY <2>6 DEF Names
    <3>2. CASE \E j \in 1..Len(list) : new[q] = list[j]
      BY <3>1, <3>2 DEF IsSearchable, HasFallbacks
    <3>3. CASE \E j \in 1..N : new[q] = entries[j]
      BY <3>1, <3>3 DEF AreEntries, HasFallbacks
    <3> QED BY <2>7, <3>2, <3>3
  <2>9. f1 \in Names(new)
    BY <1>0, <2>6
  <2> HIDE DEF new, T, Upto, h
  <2>10. IsSearchable(new)
    BY <2>6, <2>8 DEF IsSearchable
  <2> QED BY <2>5, <2>9, <2>10 DEF new
<1> QED BY <1>1, <1>2

(* A fallback of a fallback is one.                                          *)
LEMMA EntriesOfAre ==
  ASSUME NEW dir \in Name, NEW domain \in Name, NEW name,
         name.mask \in SUBSET Bits, PartsAreNames(name.parts)
  PROVE  AreEntries(EntriesOf(dir, name, domain))
<1> DEFINE mask  == name.mask
           parts == name.parts
           below == Fallbacks(mask)
           masks == <<mask>> \o below
           F(m)  == FileName(dir, m, parts, domain)
           E(m)  == FreshEntry(dir, m, parts, domain)
           es    == EntriesOf(dir, name, domain)
           n     == Len(masks)
<1>1. /\ below \in Seq(SUBSET Bits)
      /\ \A x : (\E j \in 1..Len(below) : below[j] = x)
                  <=> x \in SUBSET mask /\ x # mask /\ OneSyntax(x)
  BY FallbacksAre
<1> HIDE DEF below
<1>2. /\ masks \in Seq(SUBSET Bits) /\ n \in Nat /\ n = Len(below) + 1
      /\ masks[1] = mask /\ \A j \in 1..Len(below) : masks[j + 1] = below[j]
  BY <1>1
<1> HIDE DEF masks
<1>3. \A k \in 1..n : masks[k] = mask \/ \E j \in 1..Len(below) : masks[k] = below[j]
  <2>1. ASSUME NEW k \in 1..n, k # 1
        PROVE  k - 1 \in 1..Len(below) /\ (k - 1) + 1 = k
    BY <1>1, <1>2, <2>1
  <2>2. ASSUME NEW k \in 1..n, k # 1
        PROVE  masks[k] = below[k - 1]
    BY <1>2, <2>1, <2>2
  <2> QED BY <1>2, <2>1, <2>2
<1>4. \A m \in SUBSET Bits : F(m) \in Name
  BY FileNameIs
<1>5. ASSUME NEW m \in SUBSET Bits
      PROVE  /\ IsEntry(E(m)) /\ E(m).filename = F(m)
             /\ E(m).successor \in Seq(Name)
             /\ \A j \in 1..Len(E(m).successor) :
                  \E x : /\ E(m).successor[j] = F(x)
                         /\ x \in SUBSET m /\ x # m /\ OneSyntax(x)
  <2> DEFINE b == Fallbacks(m)
             succ == [k \in DOMAIN b |-> F(b[k])]
  <2>1. /\ b \in Seq(SUBSET Bits)
        /\ \A x : (\E j \in 1..Len(b) : b[j] = x) <=> x \in SUBSET m /\ x # m /\ OneSyntax(x)
    BY FallbacksAre
  <2>2. E(m) = [ filename |-> F(m), decided |-> {"codeset", "normalized_codeset"} \subseteq m,
                 data |-> NULL, successor |-> succ ]
    BY DEF FreshEntry
  <2>3. F(m) \in Name
    BY <1>4
  <2> HIDE DEF F, b
  <2>4. succ \in Seq(Name) /\ Len(succ) = Len(b) /\ \A j \in 1..Len(b) : succ[j] = F(b[j])
    BY <1>4, <2>1
  <2> HIDE DEF succ, E
  <2>5. /\ E(m).filename = F(m) /\ E(m).successor = succ
        /\ {"filename", "successor"} \subseteq DOMAIN E(m)
    BY <2>2
  <2>6. IsEntry(E(m))
    BY <2>3, <2>4, <2>5 DEF IsEntry
  <2>7. ASSUME NEW j \in 1..Len(succ)
        PROVE  \E x : succ[j] = F(x) /\ x \in SUBSET m /\ x # m /\ OneSyntax(x)
    <3>1. j \in 1..Len(b) /\ succ[j] = F(b[j])
      BY <2>4
    <3>2. b[j] \in SUBSET m /\ b[j] # m /\ OneSyntax(b[j])
      BY <2>1, <3>1
    <3> QED BY <3>1, <3>2
  <2> QED BY <2>4, <2>5, <2>6, <2>7
<1>6. es = [k \in 1..n |-> E(masks[k])]
  BY <1>2 DEF EntriesOf, masks, below
<1> HIDE DEF E, F
<1>7. /\ Len(es) = n /\ es \in Seq(Range(es))
      /\ \A k \in 1..n : es[k] = E(masks[k]) /\ masks[k] \in SUBSET Bits
  <2>1. DOMAIN es = 1..n /\ \A k \in 1..n : es[k] \in Range(es)
    BY <1>6 DEF Range
  <2> HIDE DEF es
  <2>2. es = [k \in 1..n |-> es[k]]
    BY <1>6
  <2>3. Len(es) = n /\ es \in Seq(Range(es))
    BY <1>2, <2>1, <2>2
  <2> HIDE DEF n
  <2>4. \A k \in 1..n : es[k] = E(masks[k])
    BY <1>6
  <2>5. \A k \in 1..n : masks[k] \in SUBSET Bits
    BY <1>2 DEF n
  <2> QED BY <2>3, <2>4, <2>5
<1> HIDE DEF es, n
<1>8. IsList(es)
  BY <1>5, <1>7 DEF IsList
<1>9. ASSUME NEW k \in 1..n, NEW j \in 1..Len(es[k].successor)
      PROVE  es[k].successor[j] \in Names(es)
  <2>1. PICK x : /\ es[k].successor[j] = F(x)
                 /\ x \in SUBSET masks[k] /\ x # masks[k] /\ OneSyntax(x)
    BY <1>5, <1>7
  <2>2. x \in SUBSET mask /\ x # mask
    BY <1>1, <1>3, <2>1
  <2>3. PICK q \in 1..Len(below) : below[q] = x
    BY <1>1, <2>1, <2>2
  <2>4. q + 1 \in 1..n /\ masks[q + 1] = x
    BY <1>1, <1>2, <2>3
  <2>5. es[q + 1].filename = F(x)
    BY <1>5, <1>7, <2>4
  <2> QED BY <1>7, <2>1, <2>4, <2>5 DEF Names
<1>10. Len(es) # 0
  BY <1>1, <1>2, <1>7
<1>11. AreEntries(es)
  BY <1>7, <1>8, <1>9, <1>10 DEF AreEntries, HasFallbacks
<1> QED BY <1>11 DEF es

-----------------------------------------------------------------------------
(* A list with the same names, whatever else has become known of them.       *)
Updates(new, list) ==
  /\ new = [k \in 1..Len(list) |-> new[k]]
  /\ \A k \in 1..Len(list) : /\ IsEntry(new[k]) /\ new[k].filename = list[k].filename
                             /\ new[k].successor = list[k].successor
LEMMA UpdatesKeep ==
  ASSUME NEW list, IsSearchable(list), NEW new, Updates(new, list)
  PROVE  IsSearchable(new)
<1>1. Len(list) \in Nat /\ Len(new) = Len(list) /\ DOMAIN new = 1..Len(list)
  BY DEF IsSearchable, IsList, Updates
<1>2. IsList(new)
  <2>1. \A k \in 1..Len(list) : new[k] \in Range(new)
    BY <1>1 DEF Range
  <2>2. new = [k \in 1..Len(list) |-> new[k]] /\ \A k \in 1..Len(list) : IsEntry(new[k])
    BY DEF Updates
  <2>3. new \in Seq(Range(new))
    BY <1>1, <2>1, <2>2
  <2> QED BY <1>1, <2>2, <2>3 DEF IsList
<1>3. \A k \in 1..Len(list) : /\ new[k].filename = list[k].filename
                              /\ new[k].successor = list[k].successor
  BY DEF Updates
<1>4. Descends(new)
  <2>1. ASSUME NEW k \in 1..(Len(new) - 1)
        PROVE  Precedes(new[k + 1].filename, new[k].filename)
    <3>1. k \in 1..Len(list) /\ k + 1 \in 1..Len(list) /\ k \in 1..(Len(list) - 1)
      BY <1>1
    <3> QED BY <1>3, <3>1 DEF IsSearchable, Descends
  <2> QED BY <2>1 DEF Descends
<1>5. Names(new) = Names(list)
  BY <1>1, <1>3 DEF Names
<1>6. ASSUME NEW k \in 1..Len(new) PROVE HasFallbacks(new, new[k])
  BY <1>1, <1>3, <1>5 DEF IsSearchable, HasFallbacks
<1> QED BY <1>2, <1>4, <1>6 DEF IsSearchable

LEMMA LoadUntilKeeps ==
  ASSUME NEW list, IsSearchable(list), NEW chain, NEW needed, NEW binding
  PROVE  IsSearchable(LoadUntil(list, chain, needed, binding))
<1> DEFINE new == LoadUntil(list, chain, needed, binding)
<1>1. DOMAIN list = 1..Len(list) /\ \A k \in 1..Len(list) : IsEntry(list[k])
  BY DEF IsSearchable, IsList
<1>2. ASSUME NEW e, IsEntry(e)
      PROVE  /\ IsEntry(LoadDomain(e, binding)) /\ LoadDomain(e, binding).filename = e.filename
             /\ LoadDomain(e, binding).successor = e.successor
  <2> DEFINE data == IF e.filename \in DOMAIN OnDisk
                       THEN InitDomainConv(e.filename, binding) ELSE NULL
             l == [e EXCEPT !.decided = TRUE, !.data = data]
  <2> HIDE DEF data
  <2>1. {"filename", "successor"} \subseteq DOMAIN e
    BY <1>2 DEF IsEntry
  <2>2. /\ {"filename", "successor"} \subseteq DOMAIN l
        /\ l.filename = e.filename /\ l.successor = e.successor
    BY <2>1
  <2> HIDE DEF l
  <2>3. IsEntry(l)
    BY <1>2, <2>2 DEF IsEntry
  <2>4. LoadDomain(e, binding) = IF e.decided THEN e ELSE l
    BY DEF LoadDomain, l, data
  <2> QED BY <1>2, <2>2, <2>3, <2>4
<1>3. PICK tried : new = [k \in DOMAIN list |-> IF list[k].filename \in tried
                               THEN LoadDomain(list[k], binding) ELSE list[k]]
  BY DEF LoadUntil
<1> HIDE DEF new
<1>4. ASSUME NEW k \in 1..Len(list)
      PROVE  /\ IsEntry(new[k]) /\ new[k].filename = list[k].filename
             /\ new[k].successor = list[k].successor
  <2>1. new[k] = LoadDomain(list[k], binding) \/ new[k] = list[k]
    BY <1>1, <1>3
  <2>2. IsEntry(list[k])
    BY <1>1
  <2> QED BY <1>2, <2>1, <2>2
<1>5. new = [k \in 1..Len(list) |-> new[k]]
  BY <1>1, <1>3
<1>6. Updates(new, list)
  BY <1>4, <1>5 DEF Updates
<1> QED BY <1>6, UpdatesKeep DEF new

LEMMA TextOfKeeps ==
  ASSUME NEW list, IsSearchable(list), NEW k, NEW data, NEW filename, NEW msgid
  PROVE  IsSearchable(TextOf(list, k, data, filename, msgid).list)
<1> DEFINE new == [list EXCEPT ![k].data = data]
           e == [list[k] EXCEPT !.data = data]
<1>1. /\ list = [q \in 1..Len(list) |-> list[q]] /\ DOMAIN list = 1..Len(list)
      /\ \A q \in 1..Len(list) : IsEntry(list[q])
  BY DEF IsSearchable, IsList
<1>2. new = [q \in 1..Len(list) |-> IF q = k THEN e ELSE list[q]]
  BY <1>1
<1>3. ASSUME k \in 1..Len(list)
      PROVE  /\ IsEntry(e) /\ e.filename = list[k].filename
             /\ e.successor = list[k].successor
  <2> DEFINE o == list[k]
  <2>1. {"filename", "successor"} \subseteq DOMAIN o /\ IsEntry(o)
    BY <1>1, <1>3 DEF IsEntry
  <2> HIDE DEF o
  <2>2. /\ {"filename", "successor"} \subseteq DOMAIN e
        /\ e.filename = o.filename /\ e.successor = o.successor
    BY <2>1 DEF o
  <2> HIDE DEF e
  <2>3. IsEntry(e)
    BY <2>1, <2>2 DEF IsEntry
  <2> QED BY <2>2, <2>3 DEF o
<1>4. TextOf(list, k, data, filename, msgid).list = new
  BY DEF TextOf
<1> HIDE DEF new, e
<1>5. ASSUME NEW q \in 1..Len(list)
      PROVE  /\ IsEntry(new[q]) /\ new[q].filename = list[q].filename
             /\ new[q].successor = list[q].successor
  BY <1>1, <1>2, <1>3
<1>6. new = [q \in 1..Len(list) |-> new[q]]
  BY <1>2
<1>7. Updates(new, list)
  BY <1>5, <1>6 DEF Updates
<1> QED BY <1>4, <1>7, UpdatesKeep

(* So a search for a message in a catalog keeps the names.                   *)
LEMMA FindInDomainKeeps ==
  ASSUME NEW d, IsSearchable(d.list), NEW binding, NEW msgid, NEW short
  PROVE  IsSearchable(FindInDomain(d, binding, msgid, short).list)
<1> DEFINE chain  == Chain(d.list, d.entry)
           having == {f \in WithData(d.list) : msgid \in DOMAIN OnDisk[f].messages}
           opened == LoadUntil(d.list, chain, having, binding)
           n      == FirstIn(chain, having)
<1>1. IsSearchable(opened)
  BY LoadUntilKeeps
<1>2. FindInDomain(d, binding, msgid, short) =
        IF n = 0 THEN [list |-> opened, text |-> NULL]
        ELSE FindMsg(opened, chain[n], binding, msgid, short)
  BY DEF FindInDomain, FindInChain
<1> HIDE DEF opened, n, chain
<1>3. IsSearchable(FindMsg(opened, chain[n], binding, msgid, short).list)
  BY <1>1, TextOfKeeps DEF FindMsg
<1> QED BY <1>1, <1>2, <1>3

(* Also what _nl_find_domain makes of a name.                                *)
LEMMA FindDomainKeeps ==
  ASSUME NEW list, IsSearchable(list), NEW dir \in Name, NEW locale \in Name,
         NEW domain \in Name, NEW binding
  PROVE  IsSearchable(FindDomain(list, dir, locale, domain, binding).list)
<1> DEFINE whole == FileName(dir, {}, [language |-> locale], domain)
           full == IF locale \in DOMAIN Aliases THEN Aliases[locale] ELSE locale
           name == Explode(full)
           es == EntriesOf(dir, name, domain)
<1>1. full \in Name
  BY MessageDomainConstants DEF Aliases
<1> HIDE DEF full
<1>2. name.mask \in SUBSET Bits /\ PartsAreNames(name.parts)
  BY <1>1, ExplodeIs
<1>3. AreEntries(es)
  <2> HIDE DEF name
  <2> QED BY <1>2, EntriesOfAre
<1>4. FindDomain(list, dir, locale, domain, binding) =
        IF IsListed(list, whole) THEN LoadFirst(list, whole, binding)
        ELSE MakeAndLoad(list, es, binding)
  BY DEF FindDomain, full
<1> HIDE DEF es, whole, name
<1>5. ASSUME NEW l, IsSearchable(l), NEW f PROVE IsSearchable(LoadFirst(l, f, binding).list)
  BY <1>5, LoadUntilKeeps DEF LoadFirst
<1>6. IsSearchable(MakeL10nflist(list, es))
  BY <1>3, MakeL10nflistKeeps
<1> QED BY <1>4, <1>5, <1>6 DEF MakeAndLoad

(* An environment has names to try.                                          *)
IsEnvironment(e) == e.LANGUAGE \in Seq(Name) /\ e.LC_ALL \in Name
                    /\ e.LC_MESSAGES \in Name /\ e.LANG \in Name

(* One language after the other.                                             *)
LEMMA TryLocaleKeeps ==
  ASSUME NEW s, IsSearchable(s.list), NEW locale \in Name, NEW binding,
         binding.dirname \in Name, NEW domain \in AllDomains, NEW msgid, NEW short
  PROVE  IsSearchable(TryLocale(s, locale, binding, domain, msgid, short).list)
<1>1. domain \in Name /\ Cwd \in Name /\ <<"LC_MESSAGES", "/">> \in Name /\ <<".mo">> \in Name
  <2>1. <<"messages">> \in Name
    BY GettextConstants DEF Name
  <2>2. domain \in Name
    BY <2>1, GettextConstants DEF AllDomains, Default
  <2>3. "LC_MESSAGES" \in NamePart /\ "/" \in NamePart /\ ".mo" \in NamePart
    BY GettextConstants, MessageDomainConstants
  <2> QED BY <2>2, <2>3, GettextConstants DEF Name
<1>2. AbsoluteDir(binding) \in Name
  BY <1>1, JoinedIsName, SeparatorsAreNames DEF AbsoluteDir
<1>3. MoFileName(domain) \in Name
  BY <1>1, JoinedIsName DEF MoFileName
<1> DEFINE d == FindDomain(s.list, AbsoluteDir(binding), locale, MoFileName(domain), binding)
<1>4. IsSearchable(d.list)
  BY <1>2, <1>3, FindDomainKeeps
<1>5. TryLocale(s, locale, binding, domain, msgid, short) =
        IF s.text # NULL THEN s ELSE FindInDomain(d, binding, msgid, short)
  BY DEF TryLocale
<1> HIDE DEF d
<1>6. IsSearchable(FindInDomain(d, binding, msgid, short).list)
  BY <1>4, FindInDomainKeeps
<1> QED BY <1>5, <1>6

(* The languages to try are names.                                           *)
LEMMA UsableAreNames ==
  ASSUME NEW e, IsEnvironment(e)
  PROVE  Usable(e) \in Seq(Name)
<1> DEFINE asked == <<e.LC_ALL, e.LC_MESSAGES, e.LANG, <<"C">>>>
           given == Selected(asked, Name \ {<<>>})
           posix == given[1]
           S == Seq(IF e.secure THEN NamePart \ {"/"} ELSE NamePart) \ {<<>>}
           tried == Selected(Languages(e), S)
           stops == {k \in DOMAIN tried : tried[k] \in {<<"C">>, <<"POSIX">>}}
           m == Min(stops \cup {Len(tried) + 1})
<1>1. asked \in Seq(Name) /\ <<"C">> \in Name \ {<<>>} /\ Len(asked) = 4 /\ asked[4] = <<"C">>
  <2>1. <<"C">> \in Name
    BY GettextConstants DEF Name
  <2> QED BY <2>1 DEF IsEnvironment
<1> HIDE DEF asked
<1>2. /\ given \in Seq(Name)
      /\ \A x : (\E j \in 1..Len(given) : given[j] = x)
                  <=> x \in Name \ {<<>>} /\ \E k \in 1..Len(asked) : asked[k] = x
  <2> DEFINE T == Name \ {<<>>}
  <2> HIDE DEF T
  <2>0. asked \in Seq(Name)
    BY <1>1
  <2>1. Selected(asked, T) \in Seq(Name)
    BY <2>0, SelectedIs
  <2>2. ASSUME NEW x PROVE (\E j \in 1..Len(Selected(asked, T)) : Selected(asked, T)[j] = x)
                             <=> x \in T /\ \E k \in 1..Len(asked) : asked[k] = x
    BY <2>0, SelectedIs
  <2> QED BY <2>1, <2>2 DEF T
<1> HIDE DEF given
<1>3. posix \in Name
  <2>1. \E j \in 1..Len(given) : given[j] = <<"C">>
    <3>1. 4 \in 1..Len(asked)
      BY <1>1
    <3> QED BY <1>1, <1>2, <3>1
  <2>2. 1 \in 1..Len(given)
    BY <1>2, <2>1
  <2> QED BY <1>2, <2>2
<1>4. Languages(e) \in Seq(Name)
  <2>1. Languages(e) = IF e.LANGUAGE # <<>> /\ posix # <<"C">> THEN e.LANGUAGE ELSE <<posix>>
    BY DEF Languages, given, asked
  <2> HIDE DEF posix
  <2> QED BY <1>3, <2>1 DEF IsEnvironment
<1>5. tried \in Seq(Name)
  <2> DEFINE all == Languages(e)
  <2> HIDE DEF S, all
  <2>1. all \in Seq(Name)
    BY <1>4 DEF all
  <2>2. Selected(all, S) \in Seq(Name)
    BY <2>1, SelectedIs
  <2> QED BY <2>2 DEF all
<1>6. Usable(e) = SubSeq(tried, 1, m - 1)
  BY DEF Usable
<1> HIDE DEF tried
<1>7. m \in 1..(Len(tried) + 1)
  <2> DEFINE M == stops \cup {Len(tried) + 1}
  <2>1. Len(tried) \in Nat /\ DOMAIN tried = 1..Len(tried)
    BY <1>5
  <2>2. M \in SUBSET Nat /\ M # {} /\ M \subseteq 1..(Len(tried) + 1)
    BY <2>1
  <2> HIDE DEF M
  <2>3. Min(M) \in M
    BY <2>2, LeastIs
  <2>4. Min(M) \in 1..(Len(tried) + 1)
    BY <2>2, <2>3
  <2> QED BY <2>4 DEF M
<1> HIDE DEF m
<1>8. \A q \in 1..(m - 1) : tried[q] \in Name
  <2>1. \A q \in 1..(m - 1) : q \in 1..Len(tried)
    BY <1>5, <1>7
  <2> QED BY <1>5, <2>1
<1>9. SubSeq(tried, 1, m - 1) \in Seq(Name)
  BY <1>7, <1>8, SubSeqProperties
<1> QED BY <1>6, <1>9

(* A whole search.                                                           *)
LEMMA SearchForKeeps ==
  ASSUME IsSearchable(loaded), IsEnvironment(env), NEW binding, binding.dirname \in Name,
         NEW domain \in AllDomains, NEW msgid, NEW short
  PROVE  IsSearchable(SearchFor(binding, domain, msgid, short).list)
<1> DEFINE U == Usable(env)
           N == Len(U)
           start == [list |-> loaded, text |-> NULL]
           AfterTry(s, k) == TryLocale(s, U[k], binding, domain, msgid, short)
           F(g, n) == [k \in 0..n |-> IF k = 0 THEN start ELSE AfterTry(g[k - 1], k)]
<1>1. U \in Seq(Name) /\ N \in Nat /\ \A k \in 1..N : U[k] \in Name
  <2>1. U \in Seq(Name)
    BY UsableAreNames
  <2> HIDE DEF U
  <2> QED BY <2>1
<1>2. ASSUME NEW s, IsSearchable(s.list), NEW k \in 1..N PROVE IsSearchable(AfterTry(s, k).list)
  <2> DEFINE l == U[k]
  <2>1. l \in Name
    BY <1>1
  <2> HIDE DEF l
  <2>2. IsSearchable(TryLocale(s, l, binding, domain, msgid, short).list)
    BY <1>2, <2>1, TryLocaleKeeps
  <2> QED BY <2>2 DEF l
<1>3. SearchFor(binding, domain, msgid, short) = (CHOOSE g : g = F(g, N))[N]
  BY DEF SearchFor
<1> HIDE DEF N, U, AfterTry, start
<1>4. \E g : g = F(g, N)
  <2> DEFINE P == {n \in 0..N : \E g : g = F(g, n)}
  <2>1. 0 \in P
    <3> DEFINE g == [k \in 0..0 |-> start]
    <3>1. g = F(g, 0)
      OBVIOUS
    <3>2. 0 \in 0..N
      BY <1>1
    <3> HIDE DEF g, F
    <3> QED BY <3>1, <3>2
  <2>2. ASSUME NEW n \in 0..(N - 1), n \in P PROVE n + 1 \in P
    <3>1. PICK f : f = F(f, n)
      BY <2>2
    <3>2. n + 1 \in 0..N /\ n \in Nat /\ n + 1 \in Nat
      BY <1>1
    <3> DEFINE g == [k \in 0..(n + 1) |-> IF k <= n THEN f[k] ELSE AfterTry(f[n], n + 1)]
    <3>3. ASSUME NEW k \in 0..(n + 1)
          PROVE  g[k] = IF k = 0 THEN start ELSE AfterTry(g[k - 1], k)
      <4>1. CASE k = n + 1
        <5>1. k # 0 /\ k - 1 = n /\ ~ (k <= n) /\ n \in 0..(n + 1) /\ n <= n
          BY <3>2, <4>1
        <5>2. g[n] = f[n] /\ g[k] = AfterTry(f[n], n + 1)
          BY <5>1
        <5> HIDE DEF g
        <5> QED BY <4>1, <5>1, <5>2
      <4>2. CASE k # n + 1
        <5>1. k \in 0..n /\ k <= n
          BY <3>2, <4>2
        <5>2. g[k] = f[k] /\ (k # 0 => k - 1 \in 0..(n + 1) /\ k - 1 <= n)
          BY <3>2, <5>1
        <5>3. k # 0 => g[k - 1] = f[k - 1]
          BY <5>2
        <5> HIDE DEF g
        <5>4. f[k] = IF k = 0 THEN start ELSE AfterTry(f[k - 1], k)
          BY <3>1, <5>1
        <5> QED BY <5>2, <5>3, <5>4
      <4> QED BY <4>1, <4>2
    <3>4. g = [k \in 0..(n + 1) |-> g[k]]
      OBVIOUS
    <3> HIDE DEF g
    <3>5. g = F(g, n + 1)
      BY <3>3, <3>4
    <3> QED BY <3>2, <3>5
  <2>3. \A n \in 0..(N - 1) : n \in P => n + 1 \in P
    BY <2>2
  <2> HIDE DEF P
  <2>4. \A n \in 0..N : n \in P
    BY <1>1, <2>1, <2>3, UpToInduction
  <2>5. N \in P
    BY <1>1, <2>4
  <2> QED BY <2>5 DEF P
<1> DEFINE g == CHOOSE h : h = F(h, N)
<1>5. g = F(g, N)
  BY <1>4
<1> HIDE DEF g
<1>6. \A k \in 0..N : IsSearchable(g[k].list)
  <2> DEFINE P == {k \in 0..N : IsSearchable(g[k].list)}
  <2>1. 0 \in P
    <3>1. 0 \in 0..N /\ g[0] = start
      BY <1>1, <1>5
    <3> QED BY <3>1 DEF start
  <2>2. ASSUME NEW k \in 0..(N - 1), k \in P PROVE k + 1 \in P
    <3>1. k + 1 \in 0..N /\ k + 1 # 0 /\ (k + 1) - 1 = k /\ k + 1 \in 1..N
      BY <1>1
    <3>2. g[k + 1] = AfterTry(g[k], k + 1)
      BY <1>5, <3>1
    <3> QED BY <1>2, <2>2, <3>1, <3>2
  <2>3. \A k \in 0..(N - 1) : k \in P => k + 1 \in P
    BY <2>2
  <2> HIDE DEF P
  <2>4. \A k \in 0..N : k \in P
    BY <1>1, <2>1, <2>3, UpToInduction
  <2> QED BY <2>4 DEF P
<1>7. N \in 0..N
  BY <1>1
<1> QED BY <1>3, <1>6, <1>7 DEF g

(* The bindings of text domains, each with a directory.                      *)
IsBinding(b) ==
  {"domainname", "dirname"} \subseteq DOMAIN b /\ b.domainname \in Name /\ b.dirname \in Name
AreBindings(list) ==
  /\ list \in Seq(Range(list)) /\ \A k \in 1..Len(list) : IsBinding(list[k])
  /\ \A k \in 1..(Len(list) - 1) : Precedes(list[k].domainname, list[k + 1].domainname)

ListsInv ==
  /\ env \in Environments /\ current \in AllDomains
  /\ AreBindings(bindings) /\ IsSearchable(loaded)

LEMMA DomainsAreNames == AllDomains \subseteq Name /\ DefaultDirname \in Name
<1>1. <<"messages">> \in Name
  BY GettextConstants DEF Name
<1> QED BY <1>1, GettextConstants DEF AllDomains, Default

(* The place that is found for a domain has smaller names before it.         *)
LEMMA BindingPlaceIs ==
  ASSUME AreBindings(bindings), NEW domain \in AllDomains
  PROVE  /\ BindingPlace(domain) \in 1..(Len(bindings) + 1)
         /\ \A k \in 1..Len(bindings) :
              k < BindingPlace(domain) => Precedes(bindings[k].domainname, domain)
         /\ BindingPlace(domain) <= Len(bindings) =>
              ~ Precedes(bindings[BindingPlace(domain)].domainname, domain)
<1> DEFINE S == {k \in DOMAIN bindings : ~ Precedes(bindings[k].domainname, domain)}
                  \cup {Len(bindings) + 1}
<1>1. Len(bindings) \in Nat /\ DOMAIN bindings = 1..Len(bindings)
  BY DEF AreBindings
<1>2. S \in SUBSET Nat /\ S # {} /\ S \subseteq 1..(Len(bindings) + 1)
  BY <1>1
<1>3. BindingPlace(domain) = Min(S)
  BY DEF BindingPlace
<1>4. \A k \in 1..Len(bindings) : k \in S <=> ~ Precedes(bindings[k].domainname, domain)
  BY <1>1
<1> HIDE DEF S
<1> DEFINE m == Min(S)
<1>5. m \in S /\ \A k \in S : m <= k
  BY <1>2, LeastIs
<1>8. m \in 1..(Len(bindings) + 1)
  BY <1>2, <1>5
<1> HIDE DEF m
<1>6. ASSUME NEW k \in 1..Len(bindings), k < m PROVE Precedes(bindings[k].domainname, domain)
  <2>1. k \notin S
    BY <1>1, <1>5, <1>6, <1>8
  <2> QED BY <1>4, <2>1
<1>7. ASSUME m <= Len(bindings) PROVE ~ Precedes(bindings[m].domainname, domain)
  <2>1. m \in 1..Len(bindings)
    BY <1>1, <1>7, <1>8
  <2> QED BY <1>4, <1>5, <2>1
<1>9. BindingPlace(domain) = m
  BY <1>3 DEF m
<1> QED BY <1>6, <1>7, <1>8, <1>9

LEMMA BindingOfIs ==
  ASSUME AreBindings(bindings), NEW domain \in AllDomains
  PROVE  IsBinding(BindingOf(domain)) /\ BindingOf(domain).domainname = domain
<1>1. CASE IsBound(domain)
  <2> DEFINE p == BindingPlace(domain)
  <2>1. p \in 1..(Len(bindings) + 1) /\ Len(bindings) \in Nat
    BY BindingPlaceIs DEF AreBindings
  <2>2. p <= Len(bindings) /\ bindings[p].domainname = domain
    BY <1>1 DEF IsBound
  <2>3. BindingOf(domain) = bindings[p]
    BY <1>1 DEF BindingOf
  <2> HIDE DEF p
  <2>4. p \in 1..Len(bindings)
    BY <2>1, <2>2
  <2> QED BY <2>2, <2>3, <2>4 DEF AreBindings
<1>2. CASE ~ IsBound(domain)
  <2>1. BindingOf(domain) = [domainname |-> domain, dirname |-> DefaultDirname,
                             codeset |-> NULL, codeset_cntr |-> 0]
    BY <1>2 DEF BindingOf
  <2> QED BY <2>1, DomainsAreNames DEF IsBinding
<1> QED BY <1>1, <1>2

(* set_binding_values keeps the order.                                       *)
LEMMA ChangeBindingKeeps ==
  ASSUME AreBindings(bindings), NEW domain \in AllDomains, NEW b,
         IsBinding(b), b.domainname = domain, ChangeBinding(domain, b)
  PROVE  AreBindings(bindings')
<1> DEFINE n == Len(bindings)
           p == BindingPlace(domain)
           new == bindings'
<1>1. n \in Nat /\ domain \in Name /\ bindings = [k \in 1..n |-> bindings[k]]
      /\ DOMAIN bindings = 1..n
  BY DomainsAreNames DEF AreBindings
<1>2. /\ p \in 1..(n + 1) /\ \A k \in 1..n : k < p => Precedes(bindings[k].domainname, domain)
      /\ p <= n => ~ Precedes(bindings[p].domainname, domain)
  BY BindingPlaceIs
<1>3. /\ IsBound(domain) <=> p <= n /\ bindings[p].domainname = domain
      /\ \/ new = bindings
         \/ IsBound(domain) /\ new = [bindings EXCEPT ![p] = b]
         \/ ~ IsBound(domain) /\ new = InsertAt(bindings, p, b)
  BY DEF IsBound, ChangeBinding
<1>4. \A k \in 1..n : IsBinding(bindings[k])
  BY DEF AreBindings
<1>5. \A k \in 1..(n - 1) : Precedes(bindings[k].domainname, bindings[k + 1].domainname)
  BY DEF AreBindings
<1> HIDE DEF p, n, new
<1>6. CASE new = bindings
  BY <1>6 DEF new
<1>7. CASE IsBound(domain) /\ new = [bindings EXCEPT ![p] = b]
  <2>1. new = [k \in 1..n |-> IF k = p THEN b ELSE bindings[k]]
    BY <1>1, <1>7
  <2>2. ASSUME NEW k \in 1..n
        PROVE  IsBinding(new[k]) /\ new[k].domainname = bindings[k].domainname
    BY <1>3, <1>4, <1>7, <2>1
  <2>3. Len(new) = n /\ new \in Seq(Range(new))
    <3>1. DOMAIN new = 1..n /\ \A k \in 1..n : new[k] \in Range(new)
      BY <2>1 DEF Range
    <3>2. new = [k \in 1..n |-> new[k]]
      BY <2>1
    <3> QED BY <1>1, <3>1, <3>2
  <2>4. ASSUME NEW k \in 1..(n - 1)
        PROVE  Precedes(new[k].domainname, new[k + 1].domainname)
    <3>1. k \in 1..n /\ k + 1 \in 1..n
      BY <1>1
    <3> QED BY <1>5, <2>2, <3>1
  <2> QED BY <2>2, <2>3, <2>4 DEF AreBindings, new
<1>8. CASE ~ IsBound(domain) /\ new = InsertAt(bindings, p, b)
  <2> DEFINE T == Range(bindings) \cup {b}
  <2>1. bindings \in Seq(T) /\ b \in T
    <3>1. \A k \in 1..n : bindings[k] \in T
      BY <1>1 DEF Range
    <3> HIDE DEF T
    <3>2. bindings \in Seq(T)
      BY <1>1, <3>1
    <3> QED BY <3>2 DEF T
  <2>2. /\ new \in Seq(T) /\ Len(new) = n + 1
        /\ \A k \in 1..(n + 1) :
             new[k] = IF k < p THEN bindings[k] ELSE IF k = p THEN b ELSE bindings[k - 1]
    <3> HIDE DEF T
    <3>1. p \in 1..(Len(bindings) + 1)
      BY <1>2 DEF n
    <3>0. bindings \in Seq(T)
      BY <2>1
    <3>4. b \in T
      BY <2>1
    <3>2. /\ InsertAt(bindings, p, b) \in Seq(T)
          /\ Len(InsertAt(bindings, p, b)) = Len(bindings) + 1
          /\ \A k \in 1..(Len(bindings) + 1) : InsertAt(bindings, p, b)[k] =
               IF k < p THEN bindings[k] ELSE IF k = p THEN b ELSE bindings[k - 1]
      BY <3>0, <3>4, <3>1, InsertAtIs
    <3> QED BY <1>8, <3>2 DEF n
  <2> HIDE DEF T
  <2>7. n \in Nat /\ p \in 1..(n + 1)
    BY <1>1, <1>2
  <2>3. \A k \in 1..(n + 1) : \/ k < p /\ k \in 1..n /\ new[k] = bindings[k]
                              \/ k = p /\ new[k] = b
                              \/ k > p /\ k - 1 \in 1..n /\ new[k] = bindings[k - 1]
    BY <2>2, <2>7
  <2>4. \A k \in 1..(n + 1) : IsBinding(new[k])
    BY <1>4, <2>3
  <2>5. new \in Seq(Range(new))
    <3>1. new = [k \in 1..(n + 1) |-> new[k]] /\ DOMAIN new = 1..(n + 1) /\ n + 1 \in Nat
      BY <1>1, <2>2
    <3>2. \A k \in 1..(n + 1) : new[k] \in Range(new)
      BY <3>1 DEF Range
    <3> QED BY <3>1, <3>2
  <2>6. ASSUME NEW k \in 1..((n + 1) - 1)
        PROVE  Precedes(new[k].domainname, new[k + 1].domainname)
    <3>1. k \in 1..n /\ k \in 1..(n + 1) /\ k + 1 \in 1..(n + 1) /\ (k + 1) - 1 = k
      BY <1>1
    <3>2. CASE k + 1 < p
      <4>1. new[k + 1] = bindings[k + 1] /\ new[k] = bindings[k] /\ k \in 1..(n - 1)
        BY <2>2, <2>7, <3>1, <3>2
      <4> QED BY <1>5, <4>1
    <3>3. CASE k + 1 = p
      <4>1. new[k + 1] = b /\ new[k] = bindings[k] /\ k < p
        BY <2>2, <2>7, <3>1, <3>3
      <4> QED BY <1>2, <3>1, <4>1
    <3>4. CASE k = p
      <4>1. new[k + 1] = bindings[k] /\ new[k] = b /\ p <= n
        BY <2>2, <2>7, <3>1, <3>4
      <4>2. ~ Precedes(bindings[k].domainname, domain) /\ bindings[k].domainname # domain
        BY <1>2, <1>3, <1>8, <3>4, <4>1
      <4>3. bindings[k].domainname \in Name
        BY <1>4, <3>1 DEF IsBinding
      <4>4. Precedes(domain, bindings[k].domainname)
        BY <1>1, <4>2, <4>3, PrecedesIsTotal
      <4> QED BY <4>1, <4>4
    <3>5. CASE k > p
      <4>1. new[k + 1] = bindings[k] /\ new[k] = bindings[k - 1] /\ k - 1 \in 1..(n - 1)
            /\ (k - 1) + 1 = k
        BY <2>2, <2>7, <3>1, <3>5
      <4>2. Precedes(bindings[k - 1].domainname, bindings[(k - 1) + 1].domainname)
        BY <1>5, <4>1
      <4> QED BY <4>1, <4>2
    <3>6. k + 1 < p \/ k + 1 = p \/ k = p \/ k > p
      BY <1>1, <1>2, <3>1
    <3> QED BY <3>2, <3>3, <3>4, <3>5, <3>6
  <2> QED BY <2>2, <2>4, <2>5, <2>6 DEF AreBindings, new
<1> QED BY <1>3, <1>6, <1>7, <1>8

-----------------------------------------------------------------------------
(* One lemma for each call.                                                  *)
LEMMA BindTextDomainKeeps ==
  ASSUME ListsInv, NEW domain \in AllDomains, NEW dirname \in Dirnames[domain],
         BindTextDomain(domain, dirname)
  PROVE  ListsInv'
<1> DEFINE o == BindingOf(domain)
           b == [o EXCEPT !.dirname = dirname]
<1>1. IsBinding(o) /\ o.domainname = domain
  BY BindingOfIs DEF ListsInv
<1>2. dirname \in Name
  BY GettextConstants
<1> HIDE DEF o
<1>3. IsBinding(b) /\ b.domainname = domain
  <2>1. {"domainname", "dirname"} \subseteq DOMAIN o
    BY <1>1 DEF IsBinding
  <2>2. /\ {"domainname", "dirname"} \subseteq DOMAIN b
        /\ b.domainname = o.domainname /\ b.dirname = dirname
    BY <2>1
  <2> HIDE DEF b
  <2> QED BY <1>1, <1>2, <2>2 DEF IsBinding
<1>4. ChangeBinding(domain, b) \/ bindings' = bindings
  BY DEF BindTextDomain, o
<1> HIDE DEF b
<1>5. AreBindings(bindings')
  BY <1>3, <1>4, ChangeBindingKeeps DEF ListsInv
<1>6. UNCHANGED <<env, current, loaded>>
  BY DEF BindTextDomain
<1> QED BY <1>5, <1>6 DEF ListsInv

LEMMA BindTextDomainCodesetKeeps ==
  ASSUME ListsInv, NEW domain \in AllDomains, NEW codeset,
         BindTextDomainCodeset(domain, codeset)
  PROVE  ListsInv'
<1> DEFINE o == BindingOf(domain)
           b == NewCodeset(o, codeset)
           c == [o EXCEPT !.codeset = codeset, !.codeset_cntr = @ + 1]
<1>1. IsBinding(o) /\ o.domainname = domain
  BY BindingOfIs DEF ListsInv
<1> HIDE DEF o
<1>2. b = o \/ b = c
  BY DEF NewCodeset
<1>3. IsBinding(c) /\ c.domainname = domain
  <2>1. {"domainname", "dirname"} \subseteq DOMAIN o
    BY <1>1 DEF IsBinding
  <2>2. /\ {"domainname", "dirname"} \subseteq DOMAIN c
        /\ c.domainname = o.domainname /\ c.dirname = o.dirname
    BY <2>1
  <2> HIDE DEF c
  <2> QED BY <1>1, <2>2 DEF IsBinding
<1>4. ChangeBinding(domain, b) \/ bindings' = bindings
  BY DEF BindTextDomainCodeset, o
<1> HIDE DEF b, c
<1>5. AreBindings(bindings')
  BY <1>1, <1>2, <1>3, <1>4, ChangeBindingKeeps DEF ListsInv
<1>6. UNCHANGED <<env, current, loaded>>
  BY DEF BindTextDomainCodeset
<1> QED BY <1>5, <1>6 DEF ListsInv

LEMMA AskKeeps ==
  ASSUME ListsInv, NEW msgid, NEW n, Ask(current, msgid, n)
  PROVE  ListsInv'
<1>1. PICK short : Remember(<<msgid, current>>, n, short, Search(current, msgid, short))
  BY DEF Ask
<1> DEFINE b == BindingOf(current)
<1>2. b.dirname \in Name
  BY BindingOfIs DEF ListsInv, IsBinding
<1>3. IsEnvironment(env)
  BY GettextConstants DEF ListsInv, IsEnvironment
<1>4. loaded' = SearchFor(b, current, msgid, short).list
  BY <1>1 DEF Remember, Search
<1> HIDE DEF b
<1>5. IsSearchable(loaded')
  BY <1>2, <1>3, <1>4, SearchForKeeps DEF ListsInv
<1>6. UNCHANGED <<env, current, bindings>>
  BY DEF Ask
<1> QED BY <1>5, <1>6 DEF ListsInv

(* The invariant holds: initially there is nothing in the lists.             *)
LEMMA ListsInvHolds == GettextSpec => []ListsInv
<1>1. GettextInit => ListsInv
  <2> SUFFICES ASSUME GettextInit PROVE ListsInv
    OBVIOUS
  <2>1. Default \in AllDomains /\ <<>> \in Seq(Range(<<>>)) /\ Len(<<>>) = 0
    BY DEF AllDomains
  <2>2. env \in Environments /\ current = Default /\ bindings = <<>> /\ loaded = <<>>
    BY DEF GettextInit
  <2>3. AreBindings(<<>>) /\ IsSearchable(<<>>)
    BY <2>1 DEF AreBindings, IsSearchable, IsList, Descends
  <2> QED BY <2>1, <2>2, <2>3 DEF ListsInv
<1>2. ListsInv /\ [GettextNext]_gettextVars => ListsInv'
  <2> SUFFICES ASSUME ListsInv, [GettextNext]_gettextVars PROVE ListsInv'
    OBVIOUS
  <2>1. CASE UNCHANGED gettextVars
    BY <2>1 DEF gettextVars, ListsInv
  <2>2. ASSUME NEW d \in AllDomains, NEW dir \in Dirnames[d], BindTextDomain(d, dir)
        PROVE  ListsInv'
    BY <2>2, BindTextDomainKeeps
  <2>3. ASSUME NEW d \in AllDomains, NEW c \in Codesets[d], BindTextDomainCodeset(d, c)
        PROVE  ListsInv'
    BY <2>3, BindTextDomainCodesetKeeps
  <2>4. ASSUME NEW d \in AllDomains, TextDomain(d) PROVE ListsInv'
    BY <2>4 DEF TextDomain, ListsInv
  <2>5. CASE ChangeEnvironment
    BY <2>5 DEF ChangeEnvironment, ListsInv
  <2>6. ASSUME NEW m, NEW n, AskKnown(current, m, n) PROVE ListsInv'
    BY <2>6 DEF AskKnown, ListsInv
  <2>7. ASSUME NEW m, NEW n, Ask(current, m, n) PROVE ListsInv'
    BY <2>7, AskKeeps
  <2>8. ASSUME NEW m, NEW n, AskNowhere(current, m, n) PROVE ListsInv'
    BY <2>8 DEF AskNowhere, ListsInv
  <2> QED BY <2>1, <2>2, <2>3, <2>4, <2>5, <2>6, <2>7, <2>8 DEF GettextNext
<1> QED BY <1>1, <1>2, PTL DEF GettextSpec

(* The bindings and the catalogs are sorted and name nothing twice, and what *)
(* a listed catalog falls back to is listed, whatever a program binds, asks  *)
(* and changes in its environment, in any order: the searches that stop      *)
(* early in _nl_make_l10nflist and set_binding_values miss nothing.          *)
THEOREM ListsStaySearchable == GettextSpec => []ListsAreSearchable
<1>1. ListsInv => ListsAreSearchable
  <2> SUFFICES ASSUME ListsInv PROVE ListsAreSearchable
    OBVIOUS
  <2> DEFINE listed == {loaded[k].filename : k \in DOMAIN loaded}
  <2>1. /\ DOMAIN loaded = 1..Len(loaded) /\ \A k \in 1..Len(loaded) : IsEntry(loaded[k])
        /\ \A k \in 1..Len(loaded) : HasFallbacks(loaded, loaded[k])
    BY DEF ListsInv, IsSearchable, IsList
  <2>2. listed = Names(loaded)
    BY <2>1 DEF Names
  <2>3. ASSUME NEW k \in DOMAIN loaded PROVE Range(loaded[k].successor) \subseteq listed
    <3> DEFINE s == loaded[k].successor
    <3>1. s \in Seq(Name) /\ \A j \in 1..Len(s) : s[j] \in Names(loaded)
      BY <2>1 DEF IsEntry, HasFallbacks
    <3> HIDE DEF s
    <3>2. Range(s) \subseteq Names(loaded)
      BY <3>1 DEF Range
    <3> QED BY <2>2, <3>2 DEF s
  <2>4. /\ \A k \in 1..(Len(loaded) - 1) :
             Precedes(loaded[k + 1].filename, loaded[k].filename)
        /\ \A k \in 1..(Len(bindings) - 1) :
             Precedes(bindings[k].domainname, bindings[k + 1].domainname)
    BY DEF ListsInv, IsSearchable, Descends, AreBindings
  <2> QED BY <2>3, <2>4 DEF ListsAreSearchable
<1> QED BY <1>1, ListsInvHolds, PTL

-----------------------------------------------------------------------------

(* The first difference of two names: the end of a, or a word that is less.  *)
ComesAt(a, b, k) ==
  /\ k \in 1..Len(b) /\ k <= Len(a) + 1 /\ \A j \in 1..(k - 1) : a[j] = b[j]
  /\ k = Len(a) + 1 \/ TokenRank[a[k]] < TokenRank[b[k]]
LEMMA RanksAreNumbers ==
  ASSUME NEW a \in Name, NEW k \in 1..Len(a)
  PROVE  TokenRank[a[k]] \in Nat
<1>1. a[k] \in NamePart
  BY DEF Name
<1>2. TokenRank[a[k]] \in DOMAIN TokenOrder
  BY <1>1 DEF TokenRank, NamePart, Range
<1>3. TokenOrder \in Seq(STRING)
  BY MessageDomainConstants
<1> QED BY <1>2, <1>3

LEMMA PrecedesAt ==
  ASSUME NEW a \in Name, NEW b \in Name
  PROVE  Precedes(a, b) <=> \E k \in 1..Len(b) : ComesAt(a, b, k)
<1> DEFINE short == Min({Len(a), Len(b)})
           differ == {k \in 1..short : a[k] # b[k]}
           Less(k) == TokenRank[a[k]] < TokenRank[b[k]]
<1>1. /\ Len(a) \in Nat /\ Len(b) \in Nat /\ short \in Nat
      /\ short <= Len(a) /\ short <= Len(b) /\ (short = Len(a) \/ short = Len(b))
  <2>1. {Len(a), Len(b)} \in SUBSET Nat /\ {Len(a), Len(b)} # {}
    BY DEF Name
  <2> QED BY <2>1, LeastIs
<1>2. Precedes(a, b) <=> IF differ = {} THEN Len(a) < Len(b)
                         ELSE \E k \in differ : Less(k) /\ \A j \in differ : k <= j
  BY DEF Precedes
<1> HIDE DEF short
<1>3. ASSUME Precedes(a, b) PROVE \E k \in 1..Len(b) : ComesAt(a, b, k)
  <2>1. CASE differ = {}
    <3>1. Len(a) < Len(b) /\ short = Len(a)
      BY <1>1, <1>2, <1>3, <2>1
    <3>2. Len(a) + 1 \in 1..Len(b) /\ (Len(a) + 1) - 1 = Len(a)
      BY <1>1, <3>1
    <3>3. \A j \in 1..Len(a) : a[j] = b[j]
      BY <2>1, <3>1
    <3> DEFINE k == Len(a) + 1
    <3>4. ComesAt(a, b, k)
      <4>1. k \in 1..Len(b) /\ k <= Len(a) + 1 /\ k = Len(a) + 1
        <5>1. Len(a) + 1 <= Len(a) + 1
          BY <1>1
        <5> QED BY <3>2, <5>1
      <4>2. \A j \in 1..(k - 1) : a[j] = b[j]
        BY <3>2, <3>3
      <4> HIDE DEF k
      <4> QED BY <4>1, <4>2 DEF ComesAt
    <3> QED BY <3>2, <3>4
  <2>2. CASE differ # {}
    <3>1. PICK k \in differ : Less(k) /\ \A j \in differ : k <= j
      BY <1>2, <1>3, <2>2
    <3>2. k \in 1..Len(b) /\ k <= Len(a) + 1
      BY <1>1
    <3>3. ASSUME NEW j \in 1..(k - 1) PROVE a[j] = b[j]
      <4>1. j \in 1..short /\ ~ (k <= j)
        BY <1>1
      <4> QED BY <3>1, <4>1
    <3>4. ComesAt(a, b, k)
      BY <3>1, <3>2, <3>3 DEF ComesAt
    <3> QED BY <3>2, <3>4
  <2> QED BY <2>1, <2>2
<1>4. ASSUME NEW k \in 1..Len(b), ComesAt(a, b, k) PROVE Precedes(a, b)
  <2>1. k <= Len(a) + 1 /\ (\A j \in 1..(k - 1) : a[j] = b[j]) /\ (k = Len(a) + 1 \/ Less(k))
    BY <1>4 DEF ComesAt
  <2>2. CASE k = Len(a) + 1
    <3>1. Len(a) < Len(b) /\ short = Len(a) /\ k - 1 = Len(a)
      BY <1>1, <2>2
    <3>2. differ = {}
      BY <2>1, <3>1
    <3> QED BY <1>2, <3>1, <3>2
  <2>3. CASE k # Len(a) + 1
    <3>1. k \in 1..Len(a) /\ k \in 1..short /\ Less(k)
      BY <1>1, <2>1, <2>3
    <3>2. TokenRank[a[k]] \in Nat
      BY <3>1, RanksAreNumbers
    <3>3. a[k] # b[k]
      BY <3>1, <3>2
    <3>4. ASSUME NEW j \in differ PROVE k <= j
      <4>1. j \in Nat /\ a[j] # b[j] /\ j >= 1
        BY <1>1
      <4>2. j \notin 1..(k - 1)
        BY <2>1, <4>1
      <4> QED BY <3>1, <4>1, <4>2
    <3> QED BY <1>2, <3>1, <3>3, <3>4
  <2> QED BY <2>2, <2>3
<1> QED BY <1>3, <1>4

(* The order of names is strict.                                             *)
LEMMA PrecedesIsStrict ==
  ASSUME NEW a \in Name
  PROVE  ~ Precedes(a, a)
<1> SUFFICES ASSUME Precedes(a, a) PROVE FALSE
  OBVIOUS
<1>1. PICK k \in 1..Len(a) : ComesAt(a, a, k)
  BY PrecedesAt
<1>2. Len(a) \in Nat /\ TokenRank[a[k]] \in Nat
  BY RanksAreNumbers DEF Name
<1>3. k = Len(a) + 1 \/ TokenRank[a[k]] < TokenRank[a[k]]
  BY <1>1 DEF ComesAt
<1> HIDE DEF ComesAt
<1> QED BY <1>2, <1>3

LEMMA PrecedesIsTransitive ==
  ASSUME NEW a \in Name, NEW b \in Name, NEW c \in Name, Precedes(a, b), Precedes(b, c)
  PROVE  Precedes(a, c)
<1> DEFINE la == Len(a)
           lb == Len(b)
           lc == Len(c)
<1>1. PICK k \in 1..lb : ComesAt(a, b, k)
  BY PrecedesAt
<1>2. PICK l \in 1..lc : ComesAt(b, c, l)
  BY PrecedesAt
<1>3. la \in Nat /\ lb \in Nat /\ lc \in Nat
  BY DEF Name
<1>4. /\ k <= la + 1 /\ \A j \in 1..(k - 1) : a[j] = b[j]
      /\ k = la + 1 \/ TokenRank[a[k]] < TokenRank[b[k]]
  BY <1>1 DEF ComesAt
<1>5. /\ l <= lb + 1 /\ \A j \in 1..(l - 1) : b[j] = c[j]
      /\ l = lb + 1 \/ TokenRank[b[l]] < TokenRank[c[l]]
  BY <1>2 DEF ComesAt
<1>6. SUFFICES \E m \in 1..lc : ComesAt(a, c, m)
  BY PrecedesAt
<1> HIDE DEF la, lb, lc
<1>7. CASE k < l
  <2>1. k \in 1..lc /\ k \in 1..(l - 1) /\ \A j \in 1..(k - 1) : j \in 1..(l - 1)
    BY <1>3, <1>7
  <2>2. b[k] = c[k] /\ \A j \in 1..(k - 1) : a[j] = c[j]
    BY <1>4, <1>5, <2>1
  <2>3. ComesAt(a, c, k)
    BY <1>4, <2>1, <2>2 DEF ComesAt, la, lc
  <2> QED BY <2>1, <2>3
<1>8. CASE k = l
  <2>1. k \in 1..lc /\ k # lb + 1
    BY <1>3, <1>8
  <2>2. \A j \in 1..(k - 1) : a[j] = c[j]
    BY <1>4, <1>5, <1>8
  <2>3. k = la + 1 \/ TokenRank[a[k]] < TokenRank[c[k]]
    <3>1. SUFFICES ASSUME k # la + 1 PROVE TokenRank[a[k]] < TokenRank[c[k]]
      OBVIOUS
    <3>2. k \in 1..la
      BY <1>3, <1>4, <3>1
    <3>3. TokenRank[a[k]] \in Nat /\ TokenRank[b[k]] \in Nat /\ TokenRank[c[k]] \in Nat
      BY <2>1, <3>2, RanksAreNumbers DEF la, lb, lc
    <3>4. TokenRank[a[k]] < TokenRank[b[k]] /\ TokenRank[b[k]] < TokenRank[c[k]]
      BY <1>4, <1>5, <1>8, <2>1, <3>1
    <3> QED BY <3>3, <3>4
  <2>4. ComesAt(a, c, k)
    BY <1>4, <2>1, <2>2, <2>3 DEF ComesAt, la, lc
  <2> QED BY <2>1, <2>4
<1>9. CASE l < k
  <2>1. l \in 1..(k - 1) /\ l # lb + 1 /\ l <= la + 1 /\ \A j \in 1..(l - 1) : j \in 1..(k - 1)
    BY <1>3, <1>4, <1>9
  <2>2. a[l] = b[l] /\ \A j \in 1..(l - 1) : a[j] = c[j]
    BY <1>4, <1>5, <2>1
  <2>3. TokenRank[a[l]] < TokenRank[c[l]]
    BY <1>5, <2>1, <2>2
  <2>4. ComesAt(a, c, l)
    BY <2>1, <2>2, <2>3 DEF ComesAt, la, lc
  <2> QED BY <2>4
<1> QED BY <1>3, <1>7, <1>8, <1>9

(* In an ordered list every earlier name is greater, not only the one before.*)
LEMMA EarlierIsGreater ==
  ASSUME NEW list, IsList(list), Descends(list), NEW j \in 1..Len(list)
  PROVE  \A k \in 1..Len(list) : j < k => Precedes(list[k].filename, list[j].filename)
<1> DEFINE n == Len(list)
           S == {k \in 0..n : j < k => Precedes(list[k].filename, list[j].filename)}
<1>1. n \in Nat /\ 0 \in S
  <2>1. n \in Nat
    BY DEF IsList
  <2> QED BY <2>1
<1>2. ASSUME NEW k \in 0..(n - 1), k \in S PROVE k + 1 \in S
  <2>1. k + 1 \in 0..n
    BY <1>1
  <2>2. ASSUME j < k + 1 PROVE Precedes(list[k + 1].filename, list[j].filename)
    <3>1. k \in 1..(n - 1) /\ k \in 1..n /\ k + 1 \in 1..n
      BY <1>1, <2>2
    <3>2. Precedes(list[k + 1].filename, list[k].filename)
      BY <3>1 DEF Descends
    <3>3. CASE j = k
      BY <3>2, <3>3
    <3>4. CASE j < k
      <4>1. Precedes(list[k].filename, list[j].filename)
        BY <1>2, <3>4
      <4>2. /\ list[k + 1].filename \in Name /\ list[k].filename \in Name
            /\ list[j].filename \in Name
        BY <3>1 DEF IsList, IsEntry
      <4> QED BY <3>2, <4>1, <4>2, PrecedesIsTransitive
    <3> QED BY <2>2, <3>1, <3>3, <3>4
  <2> QED BY <2>1, <2>2
<1>3. \A k \in 0..n : k \in S
  <2>1. \A k \in 0..(n - 1) : k \in S => k + 1 \in S
    BY <1>2
  <2> HIDE DEF S, n
  <2> QED BY <1>1, <2>1, UpToInduction
<1>4. \A k \in 1..n : k \in S
  BY <1>3
<1> QED BY <1>4

LEMMA EarlierIsSmaller ==
  ASSUME NEW list, AreBindings(list), NEW j \in 1..Len(list)
  PROVE  \A k \in 1..Len(list) : j < k => Precedes(list[j].domainname, list[k].domainname)
<1> DEFINE n == Len(list)
           S == {k \in 0..n : j < k => Precedes(list[j].domainname, list[k].domainname)}
<1>1. n \in Nat /\ 0 \in S
  <2>1. n \in Nat
    BY DEF AreBindings
  <2> QED BY <2>1
<1>2. ASSUME NEW k \in 0..(n - 1), k \in S PROVE k + 1 \in S
  <2>1. k + 1 \in 0..n
    BY <1>1
  <2>2. ASSUME j < k + 1 PROVE Precedes(list[j].domainname, list[k + 1].domainname)
    <3>1. k \in 1..(n - 1) /\ k \in 1..n /\ k + 1 \in 1..n
      BY <1>1, <2>2
    <3>2. Precedes(list[k].domainname, list[k + 1].domainname)
      BY <3>1 DEF AreBindings
    <3>3. CASE j = k
      BY <3>2, <3>3
    <3>4. CASE j < k
      <4>1. Precedes(list[j].domainname, list[k].domainname)
        BY <1>2, <3>4
      <4>2. /\ list[k + 1].domainname \in Name /\ list[k].domainname \in Name
            /\ list[j].domainname \in Name
        BY <3>1 DEF AreBindings, IsBinding
      <4> QED BY <3>2, <4>1, <4>2, PrecedesIsTransitive
    <3> QED BY <2>2, <3>1, <3>3, <3>4
  <2> QED BY <2>1, <2>2
<1>3. \A k \in 0..n : k \in S
  <2>1. \A k \in 0..(n - 1) : k \in S => k + 1 \in S
    BY <1>2
  <2> HIDE DEF S, n
  <2> QED BY <1>1, <2>1, UpToInduction
<1>4. \A k \in 1..n : k \in S
  BY <1>3
<1> QED BY <1>4

(* So a search that stops at the first name that is not greater, or not      *)
(* smaller, ends where the name is.                                          *)
LEMMA ListedIsFound ==
  ASSUME NEW list, IsSearchable(list), NEW k \in 1..Len(list)
  PROVE  PlaceOf(list, list[k].filename) = k
<1> DEFINE f == list[k].filename
           p == PlaceOf(list, f)
<1>1. Len(list) \in Nat /\ f \in Name
  BY DEF IsSearchable, IsList, IsEntry
<1>2. /\ p \in 1..(Len(list) + 1)
      /\ \A j \in 1..Len(list) : j < p => Precedes(f, list[j].filename)
      /\ p <= Len(list) => ~ Precedes(f, list[p].filename)
  BY <1>1, PlaceOfIs DEF IsSearchable
<1> HIDE DEF p
<1>3. ~ (k < p)
  BY <1>1, <1>2, PrecedesIsStrict
<1>4. ~ (p < k)
  <2> SUFFICES ASSUME p < k PROVE FALSE
    OBVIOUS
  <2>1. p \in 1..Len(list)
    BY <1>1, <1>2
  <2>2. Precedes(list[k].filename, list[p].filename)
    BY <2>1, EarlierIsGreater DEF IsSearchable
  <2> QED BY <1>1, <1>2, <2>1, <2>2
<1>5. p = k
  BY <1>1, <1>2, <1>3, <1>4
<1> QED BY <1>5 DEF p

LEMMA BoundIsFound ==
  ASSUME AreBindings(bindings), NEW domain \in AllDomains,
         NEW k \in 1..Len(bindings), bindings[k].domainname = domain
  PROVE  BindingPlace(domain) = k
<1> DEFINE p == BindingPlace(domain)
<1>1. Len(bindings) \in Nat /\ domain \in Name
  BY DomainsAreNames DEF AreBindings
<1>2. /\ p \in 1..(Len(bindings) + 1)
      /\ \A j \in 1..Len(bindings) : j < p => Precedes(bindings[j].domainname, domain)
      /\ p <= Len(bindings) => ~ Precedes(bindings[p].domainname, domain)
  BY BindingPlaceIs
<1> HIDE DEF p
<1>3. ~ (k < p)
  BY <1>1, <1>2, PrecedesIsStrict
<1>4. ~ (p < k)
  <2> SUFFICES ASSUME p < k PROVE FALSE
    OBVIOUS
  <2>1. p \in 1..Len(bindings)
    BY <1>1, <1>2
  <2>2. Precedes(bindings[p].domainname, bindings[k].domainname)
    BY <2>1, EarlierIsSmaller
  <2> QED BY <1>1, <1>2, <2>1, <2>2
<1>5. p = k
  BY <1>1, <1>2, <1>3, <1>4
<1> QED BY <1>5 DEF p

(* Where a search ends for what is in a list: in the one place where it is.  *)
SearchesFindAll ==
  /\ \A k \in DOMAIN loaded : PlaceOf(loaded, loaded[k].filename) = k
  /\ \A domain \in AllDomains, k \in DOMAIN bindings :
       bindings[k].domainname = domain => BindingPlace(domain) = k

(* The loops of _nl_make_l10nflist, set_binding_values and dcigettext stop   *)
(* at the first name in the wrong direction, and still find every catalog    *)
(* and every domain that is in their list.                                   *)
THEOREM SearchesMissNothing == GettextSpec => []SearchesFindAll
<1>1. ListsInv => SearchesFindAll
  <2> SUFFICES ASSUME ListsInv PROVE SearchesFindAll
    OBVIOUS
  <2>1. DOMAIN loaded = 1..Len(loaded) /\ DOMAIN bindings = 1..Len(bindings)
    BY DEF ListsInv, IsSearchable, IsList, AreBindings
  <2> QED BY <2>1, ListedIsFound, BoundIsFound DEF ListsInv, SearchesFindAll
<1> QED BY <1>1, ListsInvHolds, PTL
=============================================================================
