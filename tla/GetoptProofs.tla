---------------------------- MODULE GetoptProofs ----------------------------
(* What getopt_long does to argv, for every command line: the indices stay  *)
(* in the vector, and permuting it neither loses an element nor touches one *)
(* that has not been scanned.                                               *)
EXTENDS Getopt, SequenceTheorems, WellFoundedInduction, TLAPS

(* The indices of exchange are ordered, and so are those it is called with. *)
IndicesOrdered ==
  /\ step # "done" => first_nonopt <= optind /\ last_nonopt <= optind
  /\ step \in {"scan", "exchange", "look"} => first_nonopt <= last_nonopt
  /\ step = "exchange" => bottom <= last_nonopt /\ last_nonopt <= top /\ top <= optind
  /\ nextchar # 0 => step = "scan" /\ optind # argc

GetoptInv == GetoptTypeOK /\ IndicesOrdered /\ NothingIsLost

-----------------------------------------------------------------------------
(* Swapping two segments that do not overlap rearranges the vector, and     *)
(* leaves what is behind the second one.                                    *)
LEMMA SwapRearranges ==
  ASSUME argv \in [Places -> Places],
         \A j, k \in Places : argv[j] = argv[k] => j = k,
         NEW a \in Nat \ {0}, NEW b \in Nat, NEW len \in Nat,
         a + len <= b, b + len <= argc, argc = Len(args) + 1, Len(args) \in Nat
  PROVE  /\ Swapped(a, b, len) \in [Places -> Places]
         /\ \A j, k \in Places : Swapped(a, b, len)[j] = Swapped(a, b, len)[k] => j = k
         /\ \A k \in Places : k >= b + len => Swapped(a, b, len)[k] = argv[k]
<1> DEFINE from(k) == IF k \in a..a + len - 1 THEN b + (k - a)
                      ELSE IF k \in b..b + len - 1 THEN a + (k - b) ELSE k
<1>1. \A k \in Places : from(k) \in Places
  BY DEF Places
<1>2. \A j, k \in Places : from(j) = from(k) => j = k
  BY DEF Places
<1>3. \A k \in Places : Swapped(a, b, len)[k] = argv[from(k)]
  BY DEF Swapped
<1>4. \A k \in Places : k >= b + len => from(k) = k
  BY DEF Places
<1> HIDE DEF from
<1>5. Swapped(a, b, len) = [k \in Places |-> Swapped(a, b, len)[k]]
  BY DEF Swapped
<1>6. Swapped(a, b, len) \in [Places -> Places]
  BY <1>1, <1>3, <1>5
<1>7. ASSUME NEW j \in Places, NEW k \in Places,
             Swapped(a, b, len)[j] = Swapped(a, b, len)[k]
      PROVE  j = k
  BY <1>1, <1>2, <1>3, <1>7
<1> QED BY <1>3, <1>4, <1>6, <1>7

(* An argv has a length. *)
LEMMA VectorHasLength ==
  ASSUME args \in ArgVectors
  PROVE  Len(args) \in Nat
BY ArgVectorsConstant

-----------------------------------------------------------------------------
(* The invariant holds where getopt_long is called first. *)
LEMMA GetoptInvInit == GetoptInit => GetoptInv
<1> SUFFICES ASSUME GetoptInit PROVE GetoptInv
  OBVIOUS
<1>1. Len(args) \in Nat
  BY VectorHasLength DEF GetoptInit
<1> QED
  BY <1>1 DEF GetoptInit, GetoptInv, GetoptTypeOK, IndicesOrdered, NothingIsLost,
              Places, argc

(* Every step of the scan and of exchange keeps it. *)
LEMMA GetoptInvStep == GetoptInv /\ [GetoptNext]_getoptVars => GetoptInv'
<1> SUFFICES ASSUME GetoptInv, [GetoptNext]_getoptVars PROVE GetoptInv'
  OBVIOUS
<1>l. Len(args) \in Nat
  BY VectorHasLength DEF GetoptInv, GetoptTypeOK
<1> USE <1>l DEF GetoptInv
<1>1. CASE Advance
  BY <1>1 DEF Advance, StartExchange, GetoptTypeOK, IndicesOrdered, NothingIsLost,
              Places, argc, scanVars, segmentVars
<1>2. CASE SkipOperands
  BY <1>2 DEF SkipOperands, GetoptTypeOK, IndicesOrdered, NothingIsLost,
              Places, argc, scanVars, segmentVars
<1>3. CASE Dashes
  BY <1>3 DEF Dashes, StartExchange, GetoptTypeOK, IndicesOrdered, NothingIsLost,
              Places, argc, scanVars, segmentVars
<1>4. CASE Rest
  BY <1>4 DEF Rest, GetoptTypeOK, IndicesOrdered, NothingIsLost,
              Places, argc, scanVars, segmentVars
<1>5. CASE NoMore
  BY <1>5 DEF NoMore, GetoptTypeOK, IndicesOrdered, NothingIsLost,
              Places, argc, scanVars, segmentVars
<1>6. CASE StopAtOperand
  BY <1>6 DEF StopAtOperand, GetoptTypeOK, IndicesOrdered, NothingIsLost,
              Places, argc, scanVars, segmentVars
<1>7. CASE SwapBottom
  <2> DEFINE len == middle - bottom
  <2>1. /\ bottom \in Nat \ {0} /\ top - len \in Nat /\ len \in Nat
        /\ bottom + len <= top - len /\ (top - len) + len <= argc
        /\ (top - len) + len <= optind
    BY <1>7 DEF SwapBottom, Exchanging, middle, GetoptTypeOK, IndicesOrdered, argc
  <2>2. argv' = Swapped(bottom, top - len, len)
    BY <1>7 DEF SwapBottom
  <2>3. argv \in [Places -> Places] /\ \A j, k \in Places : argv[j] = argv[k] => j = k
    BY DEF GetoptTypeOK, NothingIsLost
  <2> HIDE DEF len
  <2>4. /\ argv' \in [Places -> Places]
        /\ \A j, k \in Places : argv'[j] = argv'[k] => j = k
        /\ \A k \in Places : k >= optind => argv'[k] = argv[k]
    BY <2>1, <2>2, <2>3, SwapRearranges DEF argc, Places, GetoptTypeOK
  <2> QED
    BY <1>7, <2>4 DEF SwapBottom, Exchanging, middle, GetoptTypeOK, IndicesOrdered,
                      NothingIsLost, Places, argc, scanVars
<1>8. CASE SwapTop
  <2> DEFINE len == top - middle
  <2>1. /\ bottom \in Nat \ {0} /\ middle \in Nat /\ len \in Nat
        /\ bottom + len <= middle /\ middle + len <= argc /\ middle + len <= optind
    BY <1>8 DEF SwapTop, Exchanging, middle, GetoptTypeOK, IndicesOrdered, argc
  <2>2. argv' = Swapped(bottom, middle, len)
    BY <1>8 DEF SwapTop
  <2>3. argv \in [Places -> Places] /\ \A j, k \in Places : argv[j] = argv[k] => j = k
    BY DEF GetoptTypeOK, NothingIsLost
  <2> HIDE DEF len
  <2>4. /\ argv' \in [Places -> Places]
        /\ \A j, k \in Places : argv'[j] = argv'[k] => j = k
        /\ \A k \in Places : k >= optind => argv'[k] = argv[k]
    BY <2>1, <2>2, <2>3, SwapRearranges DEF argc, Places, GetoptTypeOK
  <2> QED
    BY <1>8, <2>4 DEF SwapTop, Exchanging, middle, GetoptTypeOK, IndicesOrdered,
                      NothingIsLost, Places, argc, scanVars
<1>9. CASE EndExchange
  BY <1>9 DEF EndExchange, Exchanging, middle, GetoptTypeOK, IndicesOrdered,
              NothingIsLost, Places, argc, scanVars, segmentVars
<1>10. CASE LongOption
  <2>1. /\ step = "look" /\ optind # argc /\ step' = "scan"
        /\ optind' \in {optind + 1, optind + 2} /\ optind' <= argc
        /\ UNCHANGED <<args, ordering, argv, first_nonopt, last_nonopt, nextchar,
                       return_to, bottom, top>>
    BY <1>10 DEF LongOption, DeliverWithNext, Deliver, segmentVars, GetoptTypeOK, argc
  <2> QED
    BY <2>1 DEF GetoptTypeOK, IndicesOrdered, NothingIsLost, Places, argc
<1>11. CASE ShortOption
  <2>1. /\ step \in {"look", "scan"} /\ optind # argc /\ step' = "scan"
        /\ optind' \in {optind, optind + 1, optind + 2} /\ optind' <= argc
        /\ nextchar' \in Nat /\ (nextchar' # 0 => optind' = optind)
        /\ UNCHANGED <<args, ordering, argv, first_nonopt, last_nonopt,
                       return_to, bottom, top>>
    BY <1>11 DEF ShortOption, DeliverWithNext, Deliver, segmentVars, GetoptTypeOK,
                 IndicesOrdered, argc
  <2> QED
    BY <2>1 DEF GetoptTypeOK, IndicesOrdered, NothingIsLost, Places, argc
<1>12. CASE UNCHANGED getoptVars
  BY <1>12 DEF getoptVars, GetoptTypeOK, IndicesOrdered, NothingIsLost, Places, argc, At
<1> QED
  BY <1>1, <1>2, <1>3, <1>4, <1>5, <1>6, <1>7, <1>8, <1>9, <1>10, <1>11, <1>12
     DEF GetoptNext

-----------------------------------------------------------------------------
(* For every command line, getopt_long looks at no place outside argv, in   *)
(* the scan and in exchange.                                                *)
THEOREM GetoptTypeCorrect == GetoptSpec => []GetoptTypeOK
<1>1. GetoptInv => GetoptTypeOK
  BY DEF GetoptInv
<1> QED BY <1>1, GetoptInvInit, GetoptInvStep, PTL DEF GetoptSpec

(* For every command line, argv is at all times a rearrangement of what the *)
(* program was given, whatever segments are exchanged, and an element that  *)
(* has not been scanned has not been moved.                                 *)
THEOREM ArgvIsPermuted == GetoptSpec => []NothingIsLost
<1>1. GetoptInv => NothingIsLost
  BY DEF GetoptInv
<1> QED BY <1>1, GetoptInvInit, GetoptInvStep, PTL DEF GetoptSpec

-----------------------------------------------------------------------------
(* A set of numbers that holds 0 and with each number the next holds all.    *)
LEMMA SetInduction ==
  ASSUME NEW S \in SUBSET Nat, 0 \in S, \A k \in S : k + 1 \in S
  PROVE  S = Nat
<1> DEFINE T == Nat \ S
<1> DEFINE R == OpToRel(<, Nat)
<1> SUFFICES ASSUME T # {} PROVE FALSE
  OBVIOUS
<1>1. IsWellFoundedOn(R, Nat)
  BY NatLessThanWellFounded
<1>2. PICK x \in T : \A y \in T : ~ (<<y, x>> \in R)
  <2> HIDE DEF R
  <2> QED BY <1>1, WFMin
<1>3. x \in Nat /\ x # 0
  OBVIOUS
<1>4. x - 1 \in Nat /\ x - 1 < x
  BY <1>3
<1>5. <<x - 1, x>> \in R
  BY <1>3, <1>4 DEF OpToRel
<1>6. x - 1 \in S
  BY <1>2, <1>4, <1>5
<1>7. (x - 1) + 1 \in S
  BY <1>6
<1> QED BY <1>3, <1>7

(* The same from one number up to another.                                   *)
LEMMA IntervalInduction ==
  ASSUME NEW a \in Nat, NEW b \in Nat, NEW S, a \in S,
         \A k \in a..(b - 1) : k \in S => k + 1 \in S
  PROVE  \A k \in a..b : k \in S
<1> DEFINE T == {k \in Nat : a + k <= b => a + k \in S}
<1>1. T = Nat
  <2>1. 0 \in T /\ T \in SUBSET Nat
    OBVIOUS
  <2>2. ASSUME NEW k \in T PROVE k + 1 \in T
    <3>1. ASSUME a + (k + 1) <= b PROVE a + (k + 1) \in S
      <4>1. a + k \in a..(b - 1) /\ a + k \in S
        BY <2>2, <3>1
      <4>2. (a + k) + 1 \in S
        BY <4>1
      <4> QED BY <4>2
    <3> QED BY <3>1
  <2> HIDE DEF T
  <2> QED BY <2>1, <2>2, SetInduction
<1>2. ASSUME NEW k \in a..b PROVE k \in S
  <2>1. \A j \in Nat : a + j <= b => a + j \in S
    BY <1>1
  <2>2. k - a \in Nat /\ a + (k - a) = k
    OBVIOUS
  <2> QED BY <2>1, <2>2
<1> QED BY <1>2

(* A function on an interval by its first value v and the step h from each   *)
(* value to the next.                                                        *)
IsRecursion(f, N, V, v, h) ==
  f \in [0..N -> V] /\ f[0] = v /\ \A k \in 1..N : f[k] = h[k][f[k - 1]]

(* There is one.                                                             *)
LEMMA RecursionExists ==
  ASSUME NEW N \in Nat, NEW V, NEW v \in V, NEW h \in [1..N -> [V -> V]]
  PROVE  \E f : IsRecursion(f, N, V, v, h)
<1> DEFINE S == {m \in 0..N : \E f : IsRecursion(f, m, V, v, h)}
<1>1. 0 \in S
  <2> DEFINE f == [k \in 0..0 |-> v]
  <2>1. f \in [0..0 -> V] /\ f[0] = v
    OBVIOUS
  <2>2. \A k \in 1..0 : f[k] = h[k][f[k - 1]]
    OBVIOUS
  <2> HIDE DEF f
  <2>3. IsRecursion(f, 0, V, v, h)
    BY <2>1, <2>2 DEF IsRecursion
  <2> QED BY <2>3
<1>2. ASSUME NEW m \in 0..(N - 1), m \in S PROVE m + 1 \in S
  <2>1. PICK f : f \in [0..m -> V] /\ f[0] = v /\ \A k \in 1..m : f[k] = h[k][f[k - 1]]
    BY <1>2 DEF IsRecursion
  <2> DEFINE g == [k \in 0..(m + 1) |-> IF k <= m THEN f[k] ELSE h[m + 1][f[m]]]
  <2>2. m + 1 \in 1..N /\ f[m] \in V
    BY <1>2, <2>1
  <2>3. g \in [0..(m + 1) -> V] /\ g[0] = v
    BY <2>1, <2>2
  <2>4. ASSUME NEW k \in 1..(m + 1) PROVE g[k] = h[k][g[k - 1]]
    <3>1. CASE k = m + 1
      BY <1>2, <2>1, <3>1
    <3>2. CASE k # m + 1
      <4>1. k \in 1..m /\ k - 1 \in 0..m /\ k \in 0..(m + 1) /\ k - 1 \in 0..(m + 1)
        BY <1>2, <2>4, <3>2
      <4>2. g[k] = f[k] /\ g[k - 1] = f[k - 1]
        BY <4>1
      <4> QED BY <2>1, <4>1, <4>2
    <3> QED BY <3>1, <3>2
  <2> HIDE DEF g
  <2>5. IsRecursion(g, m + 1, V, v, h)
    BY <2>3, <2>4 DEF IsRecursion
  <2> QED BY <1>2, <2>5
<1>3. N \in S
  <2>1. \A k \in 0..(N - 1) : k \in S => k + 1 \in S
    BY <1>2
  <2> HIDE DEF S
  <2>2. 0 \in Nat
    OBVIOUS
  <2>3. \A k \in 0..N : k \in S
    BY <1>1, <2>1, <2>2, IntervalInduction, Zenon
  <2> QED BY <2>3
<1> QED BY <1>3

-----------------------------------------------------------------------------
(* The reference. What an element is follows from the one before it.         *)
Roles == {"none", "operand", "dashes", "after", "option", "argument"}

KindRole(a) == IF a.kind = "word" THEN "operand"
               ELSE IF a.kind = "--" THEN "dashes" ELSE "option"

RoleAfter(k, before) ==
  CASE \/ before \in {"dashes", "after"}
       \/ before = "operand" /\ ordering = "REQUIRE_ORDER" -> "after"
    [] before = "option" /\ TakesNext(args[k - 1]) -> "argument"
    [] OTHER -> KindRole(args[k])

(* What an element is, is defined for every place, from the place before it. *)
LEMMA RoleIs ==
  ASSUME Len(args) \in Nat
  PROVE  /\ Role \in [0..Len(args) -> Roles]
         /\ Role[0] = "none"
         /\ \A k \in 1..Len(args) : Role[k] = RoleAfter(k, Role[k - 1])
<1> DEFINE N == Len(args)
           h == [k \in 1..N |-> [r \in Roles |-> RoleAfter(k, r)]]
           Rec(f) == [k \in 0..N |-> IF k = 0 THEN "none" ELSE RoleAfter(k, f[k - 1])]
<1>1. \A k, r : RoleAfter(k, r) \in Roles
  BY DEF RoleAfter, Roles, KindRole
<1>2. h \in [1..N -> [Roles -> Roles]]
  BY <1>1
<1>3. \E f : f = Rec(f)
  <2>1. "none" \in Roles /\ N \in Nat
    BY DEF Roles
  <2> HIDE DEF h
  <2>2. PICK f : IsRecursion(f, N, Roles, "none", h)
    BY <1>2, <2>1, RecursionExists
  <2>3. ASSUME NEW k \in 1..N PROVE f[k] = RoleAfter(k, f[k - 1])
    <3>1. f[k - 1] \in Roles
      BY <2>2 DEF IsRecursion
    <3> QED BY <2>2, <3>1 DEF h, IsRecursion
  <2>4. f = Rec(f)
    BY <2>2, <2>3 DEF IsRecursion
  <2> QED BY <2>4
<1>4. Role = CHOOSE f : f = Rec(f)
  BY DEF Role, RoleAfter, KindRole
<1>5. Role = Rec(Role)
  BY <1>3, <1>4
<1>6. Role \in [0..N -> Roles]
  <2>1. "none" \in Roles
    BY DEF Roles
  <2> QED BY <1>1, <1>5, <2>1
<1> QED BY <1>5, <1>6

(* What an element of argv is.                                               *)
LEMMA ElementIs ==
  ASSUME args \in ArgVectors, NEW k \in 1..Len(args)
  PROVE  /\ args[k] \in Arg
         /\ args[k].kind \in {"word", "--", "long", "short"}
         /\ args[k].kind = "long" =>
              /\ args[k].c \in LongPlain \cup LongRequired \cup LongOptional \cup {Unknown}
              /\ args[k].text \in BOOLEAN
         /\ args[k].kind = "short" =>
              /\ args[k].cs \in Seq(ShortPlain \cup ShortRequired \cup {Unknown})
              /\ args[k].cs # <<>> /\ args[k].text \in BOOLEAN
              /\ \A j \in 1..Len(args[k].cs) - 1 : args[k].cs[j] \notin ShortRequired
              /\ args[k].text => args[k].cs[Len(args[k].cs)] \in ShortRequired
<1>1. args \in Seq(Arg)
  BY ArgVectorsConstant
<1>2. args[k] \in Arg
  BY <1>1
<1> QED BY <1>2 DEF Arg

(* What the options of an element are given as.                              *)
Codes   == ShortPlain \cup ShortRequired \cup LongPlain \cup LongRequired
             \cup LongOptional \cup {Unknown}
AnyItem == [c : Codes, from : Nat, arg : Nat]

(* An element that starts with a dash is a sequence of options, one at least.*)
LEMMA ItemsType ==
  ASSUME args \in ArgVectors, NEW k \in 1..Len(args), args[k].kind \in {"long", "short"}
  PROVE  /\ ItemsOf(k) \in Seq(AnyItem)
         /\ args[k].kind = "long" => Len(ItemsOf(k)) = 1
         /\ args[k].kind = "short" => Len(ItemsOf(k)) = Len(args[k].cs)
<1> DEFINE a == args[k]
           next == IF k < Len(args) THEN k + 1 ELSE 0
           AtEnd(c) == IF a.text THEN Item(c, k, k)
                       ELSE IF next # 0 THEN Item(c, k, next) ELSE Item(Unknown, k, 0)
<1>1. Len(args) \in Nat /\ k \in Nat /\ k + 1 \in Nat
  BY VectorHasLength
<1>2. \A c \in Codes : AtEnd(c) \in AnyItem /\ Item(c, k, 0) \in AnyItem
                       /\ Item(c, k, k) \in AnyItem
  BY <1>1 DEF AnyItem, Codes, Item
<1>3. CASE a.kind = "short"
  <2>1. a.cs \in Seq(Codes)
    <3>1. a.cs \in Seq(ShortPlain \cup ShortRequired \cup {Unknown})
      BY <1>3, ElementIs
    <3> QED BY <3>1, SeqMonotonic DEF Codes
  <2>2. ItemsOf(k) = [j \in 1..Len(a.cs) |->
                        IF a.cs[j] \in ShortRequired THEN AtEnd(a.cs[j]) ELSE Item(a.cs[j], k, 0)]
    BY <1>3 DEF ItemsOf
  <2>3. \A j \in 1..Len(a.cs) : a.cs[j] \in Codes
    BY <2>1
  <2> HIDE DEF AtEnd, a
  <2>4. \A j \in 1..Len(a.cs) :
          (IF a.cs[j] \in ShortRequired THEN AtEnd(a.cs[j]) ELSE Item(a.cs[j], k, 0)) \in AnyItem
    BY <1>2, <2>3
  <2>5. Len(a.cs) \in Nat
    BY <2>1
  <2>6. ItemsOf(k) \in Seq(AnyItem) /\ Len(ItemsOf(k)) = Len(a.cs)
    BY <2>2, <2>4, <2>5
  <2> QED BY <1>3, <2>6 DEF a
<1>4. CASE a.kind = "long"
  <2>1. a.c \in Codes
    BY <1>4, ElementIs DEF Codes
  <2>2. Unknown \in Codes
    BY DEF Codes
  <2>3. \E e \in AnyItem : ItemsOf(k) = <<e>>
    <3>1. ItemsOf(k) = IF a.c \in LongRequired THEN <<AtEnd(a.c)>>
                       ELSE IF a.c \in LongOptional /\ a.text THEN <<Item(a.c, k, k)>>
                       ELSE IF a.text THEN <<Item(Unknown, k, 0)>>
                       ELSE <<Item(a.c, k, 0)>>
      BY <1>4 DEF ItemsOf
    <3> HIDE DEF AtEnd, a
    <3> QED BY <1>2, <2>1, <2>2, <3>1
  <2> QED BY <1>4, <2>3
<1> QED BY <1>3, <1>4

(* The options and the operands up to an element, from those before it.      *)
LEMMA OptionsUpToIs ==
  ASSUME args \in ArgVectors
  PROVE  /\ OptionsUpTo \in [0..Len(args) -> Seq(AnyItem)]
         /\ OptionsUpTo[0] = <<>>
         /\ \A k \in 1..Len(args) :
              OptionsUpTo[k] = OptionsUpTo[k - 1] \o
                                 (IF Role[k] = "option" THEN ItemsOf(k) ELSE <<>>)
<1> DEFINE N == Len(args)
           new(k) == IF Role[k] = "option" THEN ItemsOf(k) ELSE <<>>
           h == [k \in 1..N |-> [s \in Seq(AnyItem) |-> s \o new(k)]]
           Rec(f) == [k \in 0..N |-> IF k = 0 THEN <<>> ELSE f[k - 1] \o new(k)]
<1>1. N \in Nat
  BY VectorHasLength
<1>2. ASSUME NEW k \in 1..N PROVE new(k) \in Seq(AnyItem)
  <2>1. CASE Role[k] = "option"
    <3>1. args[k].kind \in {"long", "short"}
      <4>1. Role[k] = RoleAfter(k, Role[k - 1])
        BY <1>1, RoleIs
      <4> QED BY <2>1, <4>1, ElementIs DEF RoleAfter, KindRole
    <3> QED BY <2>1, <3>1, ItemsType
  <2>2. CASE Role[k] # "option"
    BY <2>2, EmptySeq
  <2> QED BY <2>1, <2>2
<1> HIDE DEF new
<1>3. \A k \in 1..N : \A s \in Seq(AnyItem) : s \o new(k) \in Seq(AnyItem)
  BY <1>2, ConcatProperties
<1>4. h \in [1..N -> [Seq(AnyItem) -> Seq(AnyItem)]]
  BY <1>3
<1>5. \E f : IsRecursion(f, N, Seq(AnyItem), <<>>, h)
  <2>1. <<>> \in Seq(AnyItem)
    BY EmptySeq
  <2> HIDE DEF h, N
  <2> QED BY <1>1, <1>4, <2>1, RecursionExists
<1>6. PICK f : IsRecursion(f, N, Seq(AnyItem), <<>>, h)
  BY <1>5
<1>7. \A k \in 1..N : f[k] = f[k - 1] \o new(k)
  <2> SUFFICES ASSUME NEW k \in 1..N PROVE f[k] = f[k - 1] \o new(k)
    OBVIOUS
  <2>1. f[k - 1] \in Seq(AnyItem)
    BY <1>1, <1>6 DEF IsRecursion
  <2> QED BY <1>6, <2>1 DEF IsRecursion, h
<1>8. f = Rec(f)
  BY <1>1, <1>6, <1>7 DEF IsRecursion
<1>9. OptionsUpTo = CHOOSE g : g = Rec(g)
  BY DEF OptionsUpTo, new
<1>10. OptionsUpTo = Rec(OptionsUpTo)
  BY <1>8, <1>9
<1>11. /\ OptionsUpTo[0] = <<>>
       /\ \A k \in 1..N : OptionsUpTo[k] = OptionsUpTo[k - 1] \o new(k)
  <2>1. Rec(OptionsUpTo)[0] = <<>>
    BY <1>1
  <2>2. \A k \in 1..N : Rec(OptionsUpTo)[k] = OptionsUpTo[k - 1] \o new(k)
    BY <1>1
  <2> HIDE DEF Rec
  <2> QED BY <1>10, <2>1, <2>2
<1>12. \A k \in 0..N : OptionsUpTo[k] \in Seq(AnyItem)
  <2> DEFINE S == {k \in 0..N : OptionsUpTo[k] \in Seq(AnyItem)}
  <2> HIDE DEF N
  <2>1. 0 \in S
    <3>1. OptionsUpTo[0] \in Seq(AnyItem) /\ 0 \in 0..N
      BY <1>1, <1>11, EmptySeq
    <3> QED BY <3>1
  <2>2. ASSUME NEW k \in 0..(N - 1), k \in S PROVE k + 1 \in S
    <3>1. k + 1 \in 1..N /\ (k + 1) - 1 = k
      BY <1>1
    <3>2. OptionsUpTo[k + 1] = OptionsUpTo[k] \o new(k + 1)
      BY <1>11, <3>1
    <3>3. OptionsUpTo[k + 1] \in Seq(AnyItem) /\ k + 1 \in 0..N
      BY <1>3, <2>2, <3>1, <3>2
    <3> QED BY <3>3
  <2>3. \A k \in 0..(N - 1) : k \in S => k + 1 \in S
    BY <2>2
  <2> HIDE DEF S
  <2>4. \A k \in 0..N : k \in S
    BY <1>1, <2>1, <2>3, IntervalInduction
  <2> QED BY <2>4 DEF S
<1>13. OptionsUpTo \in [0..N -> Seq(AnyItem)]
  BY <1>10, <1>12
<1> QED BY <1>11, <1>13 DEF new

(* The operands up to a place are those before it, and this one if it is one.*)
LEMMA OperandsUpToIs ==
  ASSUME args \in ArgVectors
  PROVE  /\ OperandsUpTo \in [0..Len(args) -> Seq(Nat)]
         /\ OperandsUpTo[0] = <<>>
         /\ \A k \in 1..Len(args) :
              OperandsUpTo[k] = OperandsUpTo[k - 1] \o
                                  (IF Role[k] \in {"operand", "after"} THEN <<k>> ELSE <<>>)
<1> DEFINE N == Len(args)
           new(k) == IF Role[k] \in {"operand", "after"} THEN <<k>> ELSE <<>>
           h == [k \in 1..N |-> [s \in Seq(Nat) |-> s \o new(k)]]
           Rec(f) == [k \in 0..N |-> IF k = 0 THEN <<>> ELSE f[k - 1] \o new(k)]
<1>1. N \in Nat
  BY VectorHasLength
<1>2. ASSUME NEW k \in 1..N PROVE new(k) \in Seq(Nat)
  <2>1. <<k>> \in Seq(Nat) /\ <<>> \in Seq(Nat)
    BY <1>1, EmptySeq
  <2> QED BY <2>1
<1> HIDE DEF new
<1>3. \A k \in 1..N : \A s \in Seq(Nat) : s \o new(k) \in Seq(Nat)
  BY <1>2, ConcatProperties
<1>4. h \in [1..N -> [Seq(Nat) -> Seq(Nat)]]
  BY <1>3
<1>5. \E f : IsRecursion(f, N, Seq(Nat), <<>>, h)
  <2>1. <<>> \in Seq(Nat)
    BY EmptySeq
  <2> HIDE DEF h, N
  <2> QED BY <1>1, <1>4, <2>1, RecursionExists
<1>6. PICK f : IsRecursion(f, N, Seq(Nat), <<>>, h)
  BY <1>5
<1>7. \A k \in 1..N : f[k] = f[k - 1] \o new(k)
  <2> SUFFICES ASSUME NEW k \in 1..N PROVE f[k] = f[k - 1] \o new(k)
    OBVIOUS
  <2>1. f[k - 1] \in Seq(Nat)
    BY <1>1, <1>6 DEF IsRecursion
  <2> QED BY <1>6, <2>1 DEF IsRecursion, h
<1>8. f = Rec(f)
  BY <1>1, <1>6, <1>7 DEF IsRecursion
<1>9. OperandsUpTo = CHOOSE g : g = Rec(g)
  BY DEF OperandsUpTo, new
<1>10. OperandsUpTo = Rec(OperandsUpTo)
  BY <1>8, <1>9
<1>11. /\ OperandsUpTo[0] = <<>>
       /\ \A k \in 1..N : OperandsUpTo[k] = OperandsUpTo[k - 1] \o new(k)
  <2>1. Rec(OperandsUpTo)[0] = <<>>
    BY <1>1
  <2>2. \A k \in 1..N : Rec(OperandsUpTo)[k] = OperandsUpTo[k - 1] \o new(k)
    BY <1>1
  <2> HIDE DEF Rec
  <2> QED BY <1>10, <2>1, <2>2
<1>12. \A k \in 0..N : OperandsUpTo[k] \in Seq(Nat)
  <2> DEFINE S == {k \in 0..N : OperandsUpTo[k] \in Seq(Nat)}
  <2> HIDE DEF N
  <2>1. 0 \in S
    <3>1. OperandsUpTo[0] \in Seq(Nat) /\ 0 \in 0..N
      BY <1>1, <1>11, EmptySeq
    <3> QED BY <3>1
  <2>2. ASSUME NEW k \in 0..(N - 1), k \in S PROVE k + 1 \in S
    <3>1. k + 1 \in 1..N /\ (k + 1) - 1 = k
      BY <1>1
    <3>2. OperandsUpTo[k + 1] = OperandsUpTo[k] \o new(k + 1)
      BY <1>11, <3>1
    <3>3. OperandsUpTo[k + 1] \in Seq(Nat) /\ k + 1 \in 0..N
      BY <1>3, <2>2, <3>1, <3>2
    <3> QED BY <3>3
  <2>3. \A k \in 0..(N - 1) : k \in S => k + 1 \in S
    BY <2>2
  <2> HIDE DEF S
  <2>4. \A k \in 0..N : k \in S
    BY <1>1, <2>1, <2>3, IntervalInduction
  <2> QED BY <2>4 DEF S
<1>13. OperandsUpTo \in [0..N -> Seq(Nat)]
  BY <1>10, <1>12
<1> QED BY <1>11, <1>13 DEF new

-----------------------------------------------------------------------------
(* What the scan knows of the roles of the elements. An element at the       *)
(* beginning of a call is what it looks like.                                *)
Starts(m) == m <= Len(args) => Role[m] = KindRole(args[m])

(* A stretch of the permuted vector, from a to before b.                     *)
Segment(v, a, b) == [k \in 1..(b - a) |-> v[a + k - 1]]

(* The vector when exchange has swapped the segments b to m and m to t.      *)
Finished(v, b, m, t) ==
  [k \in Places |-> IF k \in b..(b + (t - m) - 1) THEN v[m + (k - b)]
                    ELSE IF k \in (b + (t - m))..(t - 1) THEN v[b + (k - (b + (t - m)))]
                    ELSE v[k]]

(* The options delivered of the element that is scanned.                     *)
Begun == IF nextchar = 0 THEN <<>> ELSE SubSeq(ItemsOf(optind), 1, nextchar - 1)

(* Where the scan is: it starts with an element, or is behind "--", or in    *)
(* the middle of a group.                                                    *)
ScanInv ==
  /\ step \in {"scan", "skip", "look"} \/ (step = "exchange" /\ return_to = "skip") =>
       Starts(optind)
  /\ step = "rest" \/ (step = "exchange" /\ return_to = "rest") =>
       optind > 1 /\ Role[optind - 1] = "dashes"
  /\ nextchar # 0 => args[optind].kind = "short" /\ nextchar \in 2..Len(args[optind].cs)
  /\ ordering = "REQUIRE_ORDER" =>
       /\ step \notin {"skip", "exchange"}
       /\ step = "scan" \/ (step = "look" /\ optind # argc) => first_nonopt = last_nonopt
  /\ step = "look" => last_nonopt = optind \/ first_nonopt = last_nonopt

(* The operands passed over are the operands there were, in their order;     *)
(* while exchange runs they will be where they belong when it has finished.  *)
OperandsInv ==
  /\ step \in {"scan", "look"} =>
       Segment(argv, first_nonopt, last_nonopt) = OperandsUpTo[optind - 1]
  /\ step \in {"skip", "rest"} =>
       Segment(argv, first_nonopt, optind) = OperandsUpTo[optind - 1]
  /\ step = "exchange" =>
       Segment(Finished(argv, bottom, middle, top),
               first_nonopt + (optind - last_nonopt), optind) = OperandsUpTo[optind - 1]
  /\ step = "done" =>
       Segment(argv, optind, argc) = OperandsUpTo[Len(args)]

(* What was delivered is what was given before the next element, and the     *)
(* beginning of its group.                                                   *)
DeliveredInv ==
  delivered = IF step = "done" THEN OptionsUpTo[Len(args)]
              ELSE OptionsUpTo[optind - 1] \o Begun

OrderInv == GetoptInv /\ ScanInv /\ OperandsInv /\ DeliveredInv

(* The roles only depend on what was given.                                  *)
LEMMA ReferenceStays ==
  ASSUME args' = args, ordering' = ordering
  PROVE  Role' = Role /\ OptionsUpTo' = OptionsUpTo /\ OperandsUpTo' = OperandsUpTo
<1>1. Role' = Role
  BY DEF Role, TakesNext
<1>2. OptionsUpTo' = OptionsUpTo
  BY <1>1 DEF OptionsUpTo, ItemsOf
<1>3. OperandsUpTo' = OperandsUpTo
  BY <1>1 DEF OperandsUpTo
<1> QED BY <1>1, <1>2, <1>3

(* A stretch of the vector that is one longer.                               *)
LEMMA SegmentGrows ==
  ASSUME NEW v, NEW a \in Nat, NEW b \in Nat, a <= b, Segment(v, a, b) \in Seq(Nat), v[b] \in Nat
  PROVE  Segment(v, a, b + 1) = Segment(v, a, b) \o <<v[b]>>
<1>1. Len(Segment(v, a, b)) = b - a
  BY DEF Segment
<1> QED BY <1>1 DEF Segment

(* Operands that follow each other where they were given are appended to     *)
(* those before them, and there is no option among them.                     *)
LEMMA RunOfOperands ==
  ASSUME args \in ArgVectors, NEW f \in Nat \ {0}, NEW m \in 1..argc, NEW n \in 1..argc,
         f <= m, m <= n, Segment(argv, f, m) = OperandsUpTo[m - 1],
         \A j \in m..(n - 1) : argv[j] = j /\ Role[j] \in {"operand", "after"}
  PROVE  Segment(argv, f, n) = OperandsUpTo[n - 1] /\ OptionsUpTo[n - 1] = OptionsUpTo[m - 1]
<1> DEFINE S == {k \in m..n : /\ Segment(argv, f, k) = OperandsUpTo[k - 1]
                              /\ OptionsUpTo[k - 1] = OptionsUpTo[m - 1]}
<1>l. Len(args) \in Nat /\ argc = Len(args) + 1
  BY VectorHasLength DEF argc
<1>1. m \in S
  OBVIOUS
<1>2. ASSUME NEW k \in m..(n - 1), k \in S PROVE k + 1 \in S
  <2>1. k \in 1..Len(args) /\ k - 1 \in 0..Len(args) /\ (k + 1) - 1 = k /\ k + 1 \in m..n
        /\ f \in Nat /\ k \in Nat /\ f <= k
    BY <1>l
  <2>2. OperandsUpTo[k] = OperandsUpTo[k - 1] \o <<k>> /\ OperandsUpTo[k - 1] \in Seq(Nat)
    BY <2>1, OperandsUpToIs
  <2>3. OptionsUpTo[k] = OptionsUpTo[k - 1]
    <3>1. OptionsUpTo[k] = OptionsUpTo[k - 1] \o <<>> /\ OptionsUpTo[k - 1] \in Seq(AnyItem)
      BY <2>1, OptionsUpToIs
    <3> QED BY <3>1
  <2>4. Segment(argv, f, k + 1) = Segment(argv, f, k) \o <<argv[k]>>
    <3>1. Segment(argv, f, k) \in Seq(Nat) /\ argv[k] \in Nat
      BY <1>2, <2>1, <2>2
    <3> QED BY <2>1, <3>1, SegmentGrows
  <2> QED BY <1>2, <2>1, <2>2, <2>3, <2>4
<1>3. \A k \in m..(n - 1) : k \in S => k + 1 \in S
  BY <1>2
<1>4. m \in Nat /\ n \in Nat /\ n \in m..n
  BY <1>l
<1> HIDE DEF S
<1>5. n \in S
  BY <1>1, <1>3, <1>4, IntervalInduction
<1> QED BY <1>5 DEF S

(* Behind "--", and behind the first operand when operands are not passed    *)
(* over, everything is an operand.                                           *)
LEMMA NothingComesAfter ==
  ASSUME args \in ArgVectors, NEW m \in 1..Len(args),
         Role[m] = "dashes" \/ (Role[m] = "operand" /\ ordering = "REQUIRE_ORDER")
  PROVE  \A j \in (m + 1)..Len(args) : Role[j] = "after"
<1> DEFINE S == {k \in m..Len(args) :
                   RoleAfter(k + 1, Role[k]) = "after" /\ (k > m => Role[k] = "after")}
<1>l. Len(args) \in Nat /\ m \in Nat
  BY VectorHasLength
<1>1. m \in S
  BY <1>l DEF RoleAfter
<1>2. ASSUME NEW k \in m..(Len(args) - 1), k \in S PROVE k + 1 \in S
  <2>1. k + 1 \in 1..Len(args) /\ (k + 1) - 1 = k /\ k + 1 \in m..Len(args)
    BY <1>l
  <2>2. Role[k + 1] = RoleAfter(k + 1, Role[k])
    BY <1>l, <2>1, RoleIs
  <2>3. Role[k + 1] = "after"
    BY <1>2, <2>2
  <2>4. RoleAfter((k + 1) + 1, "after") = "after"
    BY DEF RoleAfter
  <2> QED BY <2>1, <2>3, <2>4
<1>3. \A k \in m..(Len(args) - 1) : k \in S => k + 1 \in S
  BY <1>2
<1> HIDE DEF S
<1>4. \A k \in m..Len(args) : k \in S
  BY <1>l, <1>1, <1>3, IntervalInduction
<1> QED BY <1>l, <1>4 DEF S

(* Words are operands wherever a call begins, and the next call begins       *)
(* behind them.                                                              *)
LEMMA WordsAreOperands ==
  ASSUME args \in ArgVectors, ordering = "PERMUTE", NEW m \in 1..argc, NEW n \in m..argc,
         Starts(m), \A j \in m..(n - 1) : args[j].kind = "word"
  PROVE  Starts(n) /\ \A j \in m..(n - 1) : Role[j] = "operand"
<1> DEFINE S == {k \in m..n : Starts(k) /\ \A j \in m..(k - 1) : Role[j] = "operand"}
<1>l. Len(args) \in Nat /\ argc = Len(args) + 1 /\ m \in Nat /\ n \in Nat
  BY VectorHasLength DEF argc
<1>1. m \in S
  BY <1>l
<1>2. ASSUME NEW k \in m..(n - 1), k \in S PROVE k + 1 \in S
  <2>1. k \in 1..Len(args) /\ (k + 1) - 1 = k /\ k + 1 \in m..n
    BY <1>l
  <2>2. Role[k] = "operand"
    BY <1>l, <1>2, <2>1 DEF Starts, KindRole
  <2>3. Starts(k + 1)
    <3> SUFFICES ASSUME k + 1 <= Len(args) PROVE Role[k + 1] = KindRole(args[k + 1])
      BY DEF Starts
    <3>1. k + 1 \in 1..Len(args)
      BY <1>l, <2>1
    <3>2. Role[k + 1] = RoleAfter(k + 1, Role[k])
      BY <1>l, <2>1, <3>1, RoleIs
    <3> QED BY <2>2, <3>2 DEF RoleAfter
  <2>4. \A j \in m..((k + 1) - 1) : Role[j] = "operand"
    BY <1>l, <1>2, <2>2
  <2> QED BY <2>1, <2>3, <2>4
<1>3. \A k \in m..(n - 1) : k \in S => k + 1 \in S
  BY <1>2
<1> HIDE DEF S
<1>4. n \in S
  <2>1. \A k \in m..n : k \in S
    BY <1>l, <1>1, <1>3, IntervalInduction
  <2> QED BY <1>l, <2>1
<1> QED BY <1>4 DEF S

-----------------------------------------------------------------------------
(* After one swap of exchange what is left to be done gives the same vector. *)
LEMMA SwapBottomFinishes ==
  ASSUME argv \in [Places -> Places], Len(args) \in Nat,
         NEW b \in 1..argc, NEW m \in 1..argc, NEW t \in 1..argc,
         b < m, m < t, t - m > m - b
  PROVE  Finished(Swapped(b, t - (m - b), m - b), b, m, t - (m - b)) = Finished(argv, b, m, t)
<1> DEFINE len == m - b
           u == t - len
           v == Swapped(b, u, len)
           from(k) == IF k \in b..(b + len - 1) THEN u + (k - b)
                      ELSE IF k \in u..(u + len - 1) THEN b + (k - u) ELSE k
           here(k) == IF k \in b..(b + (u - m) - 1) THEN m + (k - b)
                      ELSE IF k \in (b + (u - m))..(u - 1) THEN b + (k - (b + (u - m))) ELSE k
           there(k) == IF k \in b..(b + (t - m) - 1) THEN m + (k - b)
                       ELSE IF k \in (b + (t - m))..(t - 1) THEN b + (k - (b + (t - m))) ELSE k
<1>1. \A k \in Places : here(k) \in Places /\ from(here(k)) = there(k)
  BY DEF Places, argc
<1>2. \A k \in Places : v[k] = argv[from(k)]
  BY DEF Swapped
<1>3. Finished(v, b, m, u) = [k \in Places |-> v[here(k)]]
  BY DEF Finished
<1>4. Finished(argv, b, m, t) = [k \in Places |-> argv[there(k)]]
  BY DEF Finished
<1> HIDE DEF from, here, there, v
<1>5. Finished(v, b, m, u) = Finished(argv, b, m, t)
  BY <1>1, <1>2, <1>3, <1>4
<1> QED BY <1>5 DEF v

(* The same when the top segment is the short one.                          *)
LEMMA SwapTopFinishes ==
  ASSUME argv \in [Places -> Places], Len(args) \in Nat,
         NEW b \in 1..argc, NEW m \in 1..argc, NEW t \in 1..argc,
         b < m, m < t, t - m <= m - b
  PROVE  Finished(Swapped(b, m, t - m), b + (t - m), m, t) = Finished(argv, b, m, t)
<1> DEFINE len == t - m
           a == b + len
           v == Swapped(b, m, len)
           from(k) == IF k \in b..(b + len - 1) THEN m + (k - b)
                      ELSE IF k \in m..(m + len - 1) THEN b + (k - m) ELSE k
           here(k) == IF k \in a..(a + (t - m) - 1) THEN m + (k - a)
                      ELSE IF k \in (a + (t - m))..(t - 1) THEN a + (k - (a + (t - m))) ELSE k
           there(k) == IF k \in b..(b + (t - m) - 1) THEN m + (k - b)
                       ELSE IF k \in (b + (t - m))..(t - 1) THEN b + (k - (b + (t - m))) ELSE k
<1>1. \A k \in Places : here(k) \in Places /\ from(here(k)) = there(k)
  BY DEF Places, argc
<1>2. \A k \in Places : v[k] = argv[from(k)]
  BY DEF Swapped
<1>3. Finished(v, a, m, t) = [k \in Places |-> v[here(k)]]
  BY DEF Finished
<1>4. Finished(argv, b, m, t) = [k \in Places |-> argv[there(k)]]
  BY DEF Finished
<1> HIDE DEF from, here, there, v
<1>5. Finished(v, a, m, t) = Finished(argv, b, m, t)
  BY <1>1, <1>2, <1>3, <1>4
<1> QED BY <1>5 DEF v

(* With one of the segments empty there is nothing left to be done.          *)
LEMMA NothingToFinish ==
  ASSUME argv \in [Places -> Places], Len(args) \in Nat,
         NEW b \in 1..argc, NEW m \in 1..argc, NEW t \in 1..argc,
         b = m \/ m = t, b <= m, m <= t
  PROVE  Finished(argv, b, m, t) = argv
<1>1. \A k \in Places : Finished(argv, b, m, t)[k] = argv[k]
  BY DEF Finished, Places, argc
<1>2. Finished(argv, b, m, t) = [k \in Places |-> Finished(argv, b, m, t)[k]]
  BY DEF Finished
<1> QED BY <1>1, <1>2

(* exchange takes the operands that were passed over behind the others.      *)
LEMMA OperandsGoBehind ==
  ASSUME argv \in [Places -> Places], Len(args) \in Nat,
         NEW b \in 1..argc, NEW m \in 1..argc, NEW t \in 1..argc, b <= m, m <= t
  PROVE  Segment(Finished(argv, b, m, t), b + (t - m), t) = Segment(argv, b, m)
<1>1. \A k \in 1..(m - b) : Finished(argv, b, m, t)[b + (t - m) + k - 1] = argv[b + k - 1]
  <2> SUFFICES ASSUME NEW k \in 1..(m - b)
               PROVE  Finished(argv, b, m, t)[b + (t - m) + k - 1] = argv[b + k - 1]
    OBVIOUS
  <2>1. b + (t - m) + k - 1 \in Places /\ b + (t - m) + k - 1 \in (b + (t - m))..(t - 1)
        /\ b + (t - m) + k - 1 \notin b..(b + (t - m) - 1)
        /\ b + ((b + (t - m) + k - 1) - (b + (t - m))) = b + k - 1
    BY DEF Places, argc
  <2> QED BY <2>1 DEF Finished
<1>2. t - (b + (t - m)) = m - b
  BY DEF argc
<1> HIDE DEF Finished
<1> QED BY <1>1, <1>2 DEF Segment

-----------------------------------------------------------------------------
(* One item more of the options of an element.                               *)
LEMMA OneMore ==
  ASSUME NEW s \in Seq(AnyItem), NEW t \in Seq(AnyItem), NEW k \in 1..Len(t)
  PROVE  /\ Append(s \o SubSeq(t, 1, k - 1), t[k]) = s \o SubSeq(t, 1, k)
         /\ SubSeq(t, 1, Len(t)) = t /\ SubSeq(t, 1, 0) = <<>>
<1>1. /\ SubSeq(t, 1, k - 1) \in Seq(AnyItem) /\ Len(SubSeq(t, 1, k - 1)) = k - 1
      /\ SubSeq(t, 1, k) \in Seq(AnyItem) /\ Len(SubSeq(t, 1, k)) = k
  OBVIOUS
<1>2. SubSeq(t, 1, k) = Append(SubSeq(t, 1, k - 1), t[k])
  BY <1>1
<1>3. \A u \in Seq(AnyItem), e \in AnyItem : Append(s \o u, e) = s \o Append(u, e)
  BY SMTT(60)
<1>4. t[k] \in AnyItem
  OBVIOUS
<1>5. Append(s \o SubSeq(t, 1, k - 1), t[k]) = s \o SubSeq(t, 1, k)
  BY <1>1, <1>2, <1>3, <1>4, Zenon
<1>6. SubSeq(t, 1, Len(t)) = t /\ SubSeq(t, 1, 0) = <<>>
  OBVIOUS
<1> QED BY <1>5, <1>6

(* Where the next call begins when an option and its argument are passed,    *)
(* and what has been given up to there.                                      *)
Behind(m) == IF TakesNext(args[m]) /\ m < Len(args) THEN m + 2 ELSE m + 1

(* Passing an option moves what was given and where the scan starts together.*)
LEMMA OptionIsPassed ==
  ASSUME args \in ArgVectors, NEW m \in 1..Len(args), Role[m] = "option"
  PROVE  /\ Behind(m) \in 1..argc /\ Starts(Behind(m))
         /\ OperandsUpTo[Behind(m) - 1] = OperandsUpTo[m - 1]
         /\ OptionsUpTo[Behind(m) - 1] = OptionsUpTo[m - 1] \o ItemsOf(m)
<1>l. Len(args) \in Nat /\ argc = Len(args) + 1 /\ m \in Nat /\ m - 1 \in 0..Len(args)
      /\ m \in 0..Len(args)
  BY VectorHasLength DEF argc
<1>1. OptionsUpTo[m] = OptionsUpTo[m - 1] \o ItemsOf(m) /\ OptionsUpTo[m] \in Seq(AnyItem)
  BY <1>l, OptionsUpToIs
<1>2. OperandsUpTo[m] = OperandsUpTo[m - 1]
  <2>1. OperandsUpTo[m] = OperandsUpTo[m - 1] \o <<>> /\ OperandsUpTo[m - 1] \in Seq(Nat)
    BY <1>l, OperandsUpToIs
  <2> QED BY <2>1
<1>3. ASSUME m < Len(args) PROVE Role[m + 1] = RoleAfter(m + 1, Role[m])
  <2>1. m + 1 \in 1..Len(args) /\ (m + 1) - 1 = m
    BY <1>l, <1>3
  <2> QED BY <1>l, <2>1, RoleIs
<1>4. CASE TakesNext(args[m]) /\ m < Len(args)
  <2>1. m + 1 \in 1..Len(args) /\ (m + 1) - 1 = m /\ Behind(m) = m + 2 /\ (m + 2) - 1 = m + 1
    BY <1>l, <1>4 DEF Behind
  <2>2. Role[m + 1] = "argument"
    BY <1>3, <1>4, <2>1 DEF RoleAfter
  <2>3. OptionsUpTo[m + 1] = OptionsUpTo[m]
    <3>1. OptionsUpTo[m + 1] = OptionsUpTo[m] \o <<>>
      BY <2>1, <2>2, OptionsUpToIs
    <3> QED BY <1>1, <3>1
  <2>4. OperandsUpTo[m + 1] = OperandsUpTo[m]
    <3>1. OperandsUpTo[m + 1] = OperandsUpTo[m] \o <<>> /\ OperandsUpTo[m] \in Seq(Nat)
      BY <1>l, <2>1, <2>2, OperandsUpToIs
    <3> QED BY <3>1
  <2>5. Starts(m + 2)
    <3> SUFFICES ASSUME m + 2 <= Len(args) PROVE Role[m + 2] = KindRole(args[m + 2])
      BY DEF Starts
    <3>1. m + 2 \in 1..Len(args) /\ (m + 2) - 1 = m + 1
      BY <1>l
    <3>2. Role[m + 2] = RoleAfter(m + 2, Role[m + 1])
      BY <1>l, <3>1, RoleIs
    <3> QED BY <2>2, <3>2 DEF RoleAfter
  <2> QED BY <1>1, <1>2, <1>l, <1>4, <2>1, <2>3, <2>4, <2>5
<1>5. CASE ~ (TakesNext(args[m]) /\ m < Len(args))
  <2>1. Behind(m) = m + 1 /\ (m + 1) - 1 = m /\ m + 1 \in 1..argc
    BY <1>l, <1>5 DEF Behind
  <2>2. Starts(m + 1)
    <3> SUFFICES ASSUME m + 1 <= Len(args) PROVE Role[m + 1] = KindRole(args[m + 1])
      BY DEF Starts
    <3>1. m < Len(args)
      BY <1>l
    <3> QED BY <1>3, <1>5, <3>1, <2>1 DEF RoleAfter
  <2> QED BY <1>1, <1>2, <2>1, <2>2
<1> QED BY <1>4, <1>5

(* What was given up to an element is a beginning of what was given up to a  *)
(* later one.                                                                *)
LEMMA OptionsFollow ==
  ASSUME args \in ArgVectors, NEW m \in 0..Len(args), NEW n \in m..Len(args)
  PROVE  /\ Len(OptionsUpTo[m]) <= Len(OptionsUpTo[n])
         /\ OptionsUpTo[m] = SubSeq(OptionsUpTo[n], 1, Len(OptionsUpTo[m]))
<1> DEFINE S == {k \in m..n : /\ Len(OptionsUpTo[m]) <= Len(OptionsUpTo[k])
                              /\ OptionsUpTo[m] = SubSeq(OptionsUpTo[k], 1, Len(OptionsUpTo[m]))}
<1>l. Len(args) \in Nat /\ m \in Nat /\ n \in Nat
  BY VectorHasLength
<1>t. \A k \in 0..Len(args) : OptionsUpTo[k] \in Seq(AnyItem)
  BY OptionsUpToIs
<1>1. m \in S
  <2>1. \A s \in Seq(AnyItem) : SubSeq(s, 1, Len(s)) = s /\ Len(s) \in Nat
    OBVIOUS
  <2> QED BY <1>l, <1>t, <2>1
<1>2. ASSUME NEW k \in m..(n - 1), k \in S PROVE k + 1 \in S
  <2>1. k + 1 \in 1..Len(args) /\ (k + 1) - 1 = k /\ k + 1 \in m..n /\ k \in 0..Len(args)
        /\ k + 1 \in 0..Len(args)
    BY <1>l
  <2> DEFINE t == IF Role[k + 1] = "option" THEN ItemsOf(k + 1) ELSE <<>>
             s == OptionsUpTo[m]
             u == OptionsUpTo[k]
  <2>2. OptionsUpTo[k + 1] = u \o t
    BY <2>1, OptionsUpToIs
  <2>3. t \in Seq(AnyItem)
    <3>1. CASE Role[k + 1] = "option"
      <4>1. args[k + 1].kind \in {"long", "short"}
        <5>1. Role[k + 1] = RoleAfter(k + 1, Role[k])
          BY <1>l, <2>1, RoleIs
        <5> QED BY <2>1, <3>1, <5>1, ElementIs DEF RoleAfter, KindRole
      <4> QED BY <2>1, <3>1, <4>1, ItemsType
    <3>2. CASE Role[k + 1] # "option"
      BY <3>2, EmptySeq
    <3> QED BY <3>1, <3>2
  <2>4. s \in Seq(AnyItem) /\ u \in Seq(AnyItem) /\ Len(s) <= Len(u) /\ s = SubSeq(u, 1, Len(s))
    BY <1>t, <1>2, <2>1
  <2> HIDE DEF s, t, u
  <2>5. Len(u \o t) = Len(u) + Len(t) /\ Len(t) \in Nat /\ Len(u) \in Nat /\ Len(s) \in Nat
    BY <2>3, <2>4
  <2>6. SubSeq(u \o t, 1, Len(s)) = SubSeq(u, 1, Len(s))
    BY <2>3, <2>4, <2>5
  <2>7. Len(s) <= Len(OptionsUpTo[k + 1]) /\ s = SubSeq(OptionsUpTo[k + 1], 1, Len(s))
    BY <2>2, <2>4, <2>5, <2>6
  <2> QED BY <2>1, <2>7 DEF s
<1>3. \A k \in m..(n - 1) : k \in S => k + 1 \in S
  BY <1>2
<1> HIDE DEF S
<1>4. n \in S
  <2>1. \A k \in m..n : k \in S
    BY <1>l, <1>1, <1>3, IntervalInduction
  <2> QED BY <1>l, <2>1
<1> QED BY <1>4 DEF S

-----------------------------------------------------------------------------
(* The order is right before the first call.                                 *)
LEMMA OrderInit == GetoptInit => OrderInv
<1> SUFFICES ASSUME GetoptInit PROVE OrderInv
  OBVIOUS
<1>1. Len(args) \in Nat /\ args \in ArgVectors
  BY VectorHasLength DEF GetoptInit
<1>2. GetoptInv
  BY GetoptInvInit
<1>3. Starts(1)
  <2> SUFFICES ASSUME 1 <= Len(args) PROVE Role[1] = KindRole(args[1])
    BY DEF Starts
  <2>1. Role[1] = RoleAfter(1, Role[0]) /\ Role[0] = "none"
    BY <1>1, RoleIs
  <2> QED BY <2>1 DEF RoleAfter
<1>4. ScanInv
  BY <1>3 DEF ScanInv, GetoptInit
<1>5. OptionsUpTo[0] = <<>> /\ OperandsUpTo[0] = <<>>
  BY <1>1, OptionsUpToIs, OperandsUpToIs
<1>6. OperandsInv
  <2>1. Segment(argv, 1, 1) = <<>>
    BY DEF Segment
  <2> QED BY <1>5, <2>1 DEF OperandsInv, GetoptInit
<1>7. DeliveredInv
  BY <1>5 DEF DeliveredInv, GetoptInit, Begun
<1> QED BY <1>2, <1>4, <1>6, <1>7 DEF OrderInv

(* What the invariant says of the state a step begins in.                    *)
LEMMA InOrder ==
  ASSUME OrderInv
  PROVE  /\ args \in ArgVectors /\ Len(args) \in Nat /\ argc = Len(args) + 1
         /\ ordering \in {"PERMUTE", "REQUIRE_ORDER"}
         /\ argv \in [Places -> Places]
         /\ optind \in 1..argc /\ first_nonopt \in 1..argc /\ last_nonopt \in 1..argc
         /\ step # "done" => \A k \in optind..(argc - 1) : argv[k] = k
         /\ optind - 1 \in 0..Len(args)
BY VectorHasLength DEF OrderInv, GetoptInv, GetoptTypeOK, NothingIsLost, argc

(* A stretch of length 0.                                                    *)
LEMMA EmptySegment ==
  ASSUME NEW v, NEW a \in Nat
  PROVE  Segment(v, a, a) = <<>>
BY DEF Segment

(* Advance exchanges what was passed over, or leaves the segments.           *)
LEMMA AdvanceInOrder ==
  ASSUME OrderInv, Advance
  PROVE  (ScanInv /\ OperandsInv /\ DeliveredInv)'
<1>1. /\ args' = args /\ ordering' = ordering /\ argv' = argv /\ optind' = optind
      /\ last_nonopt' = last_nonopt /\ nextchar' = nextchar /\ delivered' = delivered
      /\ step = "scan" /\ nextchar = 0
  BY DEF Advance, scanVars
<1>2. Role' = Role /\ OptionsUpTo' = OptionsUpTo /\ OperandsUpTo' = OperandsUpTo
  BY <1>1, ReferenceStays
<1>3. Starts(optind) /\ Starts(optind)'
  <2>1. Starts(optind)
    BY <1>1 DEF OrderInv, ScanInv
  <2> QED BY <1>1, <1>2, <2>1 DEF Starts, KindRole
<1>4. DeliveredInv'
  <2>1. step' # "done"
    BY DEF Advance, StartExchange
  <2> QED BY <1>1, <1>2, <2>1 DEF OrderInv, DeliveredInv, Begun
<1>5. Segment(argv, first_nonopt, last_nonopt) = OperandsUpTo[optind - 1]
  BY <1>1 DEF OrderInv, OperandsInv
<1>6. CASE ordering = "PERMUTE" /\ first_nonopt # last_nonopt /\ last_nonopt # optind
  <2>1. /\ step' = "exchange" /\ bottom' = first_nonopt /\ top' = optind
        /\ return_to' = "skip" /\ first_nonopt' = first_nonopt
    BY <1>6 DEF Advance, StartExchange
  <2>2. ScanInv'
    BY <1>1, <1>3, <1>6, <2>1 DEF ScanInv
  <2>3. Segment(Finished(argv, first_nonopt, last_nonopt, optind),
                first_nonopt + (optind - last_nonopt), optind) = OperandsUpTo[optind - 1]
    <3>1. first_nonopt <= last_nonopt /\ last_nonopt <= optind
      BY <1>1 DEF OrderInv, GetoptInv, IndicesOrdered
    <3> QED BY <1>5, <3>1, InOrder, OperandsGoBehind
  <2>4. (Segment(Finished(argv, bottom, middle, top),
                 first_nonopt + (optind - last_nonopt), optind))'
          = Segment(Finished(argv, first_nonopt, last_nonopt, optind),
                    first_nonopt + (optind - last_nonopt), optind)
    BY <1>1, <2>1 DEF middle, Finished, Segment, Places
  <2>5. OperandsInv'
    BY <1>1, <1>2, <2>1, <2>3, <2>4 DEF OperandsInv
  <2> QED BY <1>4, <2>2, <2>5
<1>7. CASE ~ (ordering = "PERMUTE" /\ first_nonopt # last_nonopt /\ last_nonopt # optind)
  <2>1. /\ first_nonopt' = IF ordering = "PERMUTE" /\ last_nonopt # optind
                             THEN optind ELSE first_nonopt
        /\ step' = IF ordering = "PERMUTE" THEN "skip" ELSE "look"
    BY <1>7 DEF Advance
  <2>2. ordering = "REQUIRE_ORDER" => first_nonopt = last_nonopt
    BY <1>1 DEF OrderInv, ScanInv
  <2>3. ScanInv'
    BY <1>1, <1>3, <2>1, <2>2, InOrder DEF ScanInv
  <2>4. OperandsInv'
    <3>1. CASE ordering = "PERMUTE" /\ last_nonopt # optind
      <4>1. Segment(argv, optind, optind) = <<>> /\ OperandsUpTo[optind - 1] = <<>>
        BY <1>5, <1>7, <3>1, InOrder, EmptySegment
      <4> QED BY <1>1, <1>2, <2>1, <3>1, <4>1 DEF OperandsInv, Segment
    <3>2. CASE ordering = "PERMUTE" /\ last_nonopt = optind
      BY <1>1, <1>2, <1>5, <2>1, <3>2 DEF OperandsInv, Segment
    <3>3. CASE ordering = "REQUIRE_ORDER"
      BY <1>1, <1>2, <1>5, <2>1, <3>3 DEF OperandsInv, Segment
    <3> QED BY <3>1, <3>2, <3>3, InOrder
  <2> QED BY <1>4, <2>3, <2>4
<1> QED BY <1>6, <1>7

(* The words that are passed over are operands.                              *)
LEMMA SkipOperandsInOrder ==
  ASSUME OrderInv, SkipOperands
  PROVE  (ScanInv /\ OperandsInv /\ DeliveredInv)'
<1>1. /\ args' = args /\ ordering' = ordering /\ argv' = argv
      /\ first_nonopt' = first_nonopt /\ nextchar' = nextchar /\ delivered' = delivered
      /\ step = "skip" /\ step' = "look" /\ last_nonopt' = optind'
  BY DEF SkipOperands, scanVars
<1>2. Role' = Role /\ OptionsUpTo' = OptionsUpTo /\ OperandsUpTo' = OperandsUpTo
  BY <1>1, ReferenceStays
<1>3. PICK n \in optind..argc : /\ \A j \in optind..(n - 1) : At(j).kind = "word"
                                /\ optind' = n
  BY DEF SkipOperands
<1>4. ordering = "PERMUTE" /\ Starts(optind) /\ first_nonopt <= optind /\ nextchar = 0
  BY <1>1, InOrder DEF OrderInv, ScanInv, GetoptInv, IndicesOrdered
<1>5. n \in 1..argc /\ optind <= n
  BY <1>3, InOrder
<1>6. \A j \in optind..(n - 1) : argv[j] = j /\ args[j].kind = "word"
  BY <1>1, <1>3, <1>5, InOrder DEF At
<1>7. Starts(n) /\ \A j \in optind..(n - 1) : Role[j] = "operand"
  BY <1>4, <1>5, <1>6, InOrder, WordsAreOperands
<1>8. /\ Segment(argv, first_nonopt, n) = OperandsUpTo[n - 1]
      /\ OptionsUpTo[n - 1] = OptionsUpTo[optind - 1]
  <2>1. Segment(argv, first_nonopt, optind) = OperandsUpTo[optind - 1]
    BY <1>1 DEF OrderInv, OperandsInv
  <2>2. first_nonopt \in Nat \ {0}
    BY InOrder
  <2>3. \A j \in optind..(n - 1) : argv[j] = j /\ Role[j] \in {"operand", "after"}
    BY <1>6, <1>7
  <2>4. args \in ArgVectors /\ optind \in 1..argc
    BY InOrder
  <2> QED BY <1>4, <1>5, <2>1, <2>2, <2>3, <2>4, RunOfOperands
<1>9. Starts(optind)'
  BY <1>1, <1>2, <1>3, <1>7 DEF Starts, KindRole
<1>10. ScanInv'
  BY <1>1, <1>4, <1>9 DEF ScanInv
<1>11. OperandsInv'
  BY <1>1, <1>2, <1>3, <1>8 DEF OperandsInv, Segment
<1>12. DeliveredInv'
  BY <1>1, <1>2, <1>3, <1>4, <1>8 DEF OrderInv, DeliveredInv, Begun
<1> QED BY <1>10, <1>11, <1>12

(* "--" is neither an operand nor an option.                                 *)
LEMMA DashesInOrder ==
  ASSUME OrderInv, Dashes
  PROVE  (ScanInv /\ OperandsInv /\ DeliveredInv)'
<1>1. /\ args' = args /\ ordering' = ordering /\ argv' = argv /\ optind' = optind + 1
      /\ last_nonopt' = last_nonopt /\ nextchar' = nextchar /\ delivered' = delivered
      /\ step = "look" /\ optind # argc /\ At(optind).kind = "--"
  BY DEF Dashes, scanVars
<1>2. Role' = Role /\ OptionsUpTo' = OptionsUpTo /\ OperandsUpTo' = OperandsUpTo
  BY <1>1, ReferenceStays
<1>3. /\ optind \in 1..Len(args) /\ argv[optind] = optind /\ nextchar = 0
      /\ optind \in 0..Len(args) /\ (optind + 1) - 1 = optind
  <2>1. nextchar = 0
    BY <1>1 DEF OrderInv, GetoptInv, IndicesOrdered
  <2>2. optind \in 1..Len(args)
    BY <1>1, InOrder
  <2>3. argv[optind] = optind
    BY <1>1, <2>2, InOrder
  <2> QED BY <2>1, <2>2, <2>3
<1>4. Role[optind] = "dashes"
  <2>1. Starts(optind)
    BY <1>1 DEF OrderInv, ScanInv
  <2> QED BY <1>1, <1>3, <2>1, InOrder DEF Starts, KindRole, At
<1>5. OptionsUpTo[optind] = OptionsUpTo[optind - 1]
  <2>1. OptionsUpTo[optind] = OptionsUpTo[optind - 1] \o <<>>
        /\ OptionsUpTo[optind - 1] \in Seq(AnyItem)
    BY <1>3, <1>4, InOrder, OptionsUpToIs
  <2> QED BY <2>1
<1>6. OperandsUpTo[optind] = OperandsUpTo[optind - 1]
  <2>1. OperandsUpTo[optind] = OperandsUpTo[optind - 1] \o <<>>
        /\ OperandsUpTo[optind - 1] \in Seq(Nat)
    BY <1>3, <1>4, InOrder, OperandsUpToIs
  <2> QED BY <2>1
<1>7. Segment(argv, first_nonopt, last_nonopt) = OperandsUpTo[optind]
  BY <1>1, <1>6 DEF OrderInv, OperandsInv
<1>8. DeliveredInv'
  <2>1. step' # "done"
    BY DEF Dashes, StartExchange
  <2> QED BY <1>1, <1>2, <1>3, <1>5, <2>1 DEF OrderInv, DeliveredInv, Begun
<1>9. last_nonopt = optind \/ first_nonopt = last_nonopt
  BY <1>1 DEF OrderInv, ScanInv
<1>10. CASE first_nonopt # last_nonopt
  <2>1. /\ step' = "exchange" /\ bottom' = first_nonopt /\ top' = optind + 1
        /\ return_to' = "rest" /\ first_nonopt' = first_nonopt
    BY <1>10 DEF Dashes, StartExchange
  <2>2. ordering # "REQUIRE_ORDER"
    BY <1>1, <1>10 DEF OrderInv, ScanInv
  <2>3. ScanInv'
    BY <1>1, <1>2, <1>3, <1>4, <2>1, <2>2 DEF ScanInv
  <2>4. Segment(Finished(argv, first_nonopt, last_nonopt, optind + 1),
                first_nonopt + ((optind + 1) - last_nonopt), optind + 1) = OperandsUpTo[optind]
    <3>1. first_nonopt <= last_nonopt /\ last_nonopt <= optind + 1 /\ optind + 1 \in 1..argc
      BY <1>1, InOrder DEF OrderInv, GetoptInv, IndicesOrdered
    <3> QED BY <1>7, <3>1, InOrder, OperandsGoBehind
  <2>5. (Segment(Finished(argv, bottom, middle, top),
                 first_nonopt + (optind - last_nonopt), optind))'
          = Segment(Finished(argv, first_nonopt, last_nonopt, optind + 1),
                    first_nonopt + ((optind + 1) - last_nonopt), optind + 1)
    BY <1>1, <2>1 DEF middle, Finished, Segment, Places
  <2>6. OperandsInv'
    BY <1>1, <1>2, <1>3, <2>1, <2>4, <2>5 DEF OperandsInv
  <2> QED BY <1>8, <2>3, <2>6
<1>11. CASE first_nonopt = last_nonopt
  <2>1. first_nonopt' = optind + 1 /\ step' = "rest"
    BY <1>11 DEF Dashes
  <2>2. ScanInv'
    BY <1>1, <1>2, <1>3, <1>4, <2>1 DEF ScanInv
  <2>3. Segment(argv, optind + 1, optind + 1) = <<>> /\ OperandsUpTo[optind] = <<>>
    BY <1>3, <1>7, <1>11, InOrder, EmptySegment
  <2>4. OperandsInv'
    BY <1>1, <1>2, <1>3, <2>1, <2>3 DEF OperandsInv, Segment
  <2> QED BY <1>8, <2>2, <2>4
<1> QED BY <1>10, <1>11

(* Everything behind "--" is an operand.                                     *)
LEMMA RestInOrder ==
  ASSUME OrderInv, Rest
  PROVE  (ScanInv /\ OperandsInv /\ DeliveredInv)'
<1>1. /\ args' = args /\ ordering' = ordering /\ argv' = argv /\ optind' = argc
      /\ last_nonopt' = argc /\ nextchar' = nextchar /\ delivered' = delivered
      /\ step = "rest" /\ step' = "look" /\ first_nonopt' = first_nonopt
  BY DEF Rest, scanVars
<1>2. Role' = Role /\ OptionsUpTo' = OptionsUpTo /\ OperandsUpTo' = OperandsUpTo
  BY <1>1, ReferenceStays
<1>3. /\ optind > 1 /\ Role[optind - 1] = "dashes" /\ first_nonopt <= optind /\ nextchar = 0
      /\ Segment(argv, first_nonopt, optind) = OperandsUpTo[optind - 1]
      /\ delivered = OptionsUpTo[optind - 1] \o Begun
  BY <1>1 DEF OrderInv, ScanInv, GetoptInv, IndicesOrdered, OperandsInv, DeliveredInv
<1>4. optind - 1 \in 1..Len(args) /\ (optind - 1) + 1 = optind /\ argc \in 1..argc
      /\ argc - 1 = Len(args) /\ optind <= argc
  BY <1>3, InOrder
<1>5. \A j \in optind..(argc - 1) : argv[j] = j /\ Role[j] \in {"operand", "after"}
  <2>1. \A j \in optind..Len(args) : Role[j] = "after"
    BY <1>3, <1>4, InOrder, NothingComesAfter
  <2> QED BY <1>1, <1>4, <2>1, InOrder
<1>6. /\ Segment(argv, first_nonopt, argc) = OperandsUpTo[argc - 1]
      /\ OptionsUpTo[argc - 1] = OptionsUpTo[optind - 1]
  <2>1. args \in ArgVectors /\ first_nonopt \in Nat \ {0} /\ optind \in 1..argc
    BY InOrder
  <2> QED BY <1>3, <1>4, <1>5, <2>1, RunOfOperands
<1>7. argc' = argc
  BY <1>1 DEF argc
<1>8. ScanInv'
  <2>1. Starts(optind)'
    BY <1>1, <1>4, InOrder DEF Starts
  <2> QED BY <1>1, <1>3, <1>7, <2>1 DEF ScanInv
<1>9. OperandsInv'
  BY <1>1, <1>2, <1>6 DEF OperandsInv, Segment
<1>10. DeliveredInv'
  BY <1>1, <1>2, <1>3, <1>6 DEF DeliveredInv, Begun
<1> QED BY <1>8, <1>9, <1>10

(* At the end of argv, optind goes back to the operands.                     *)
LEMMA NoMoreInOrder ==
  ASSUME OrderInv, NoMore
  PROVE  (ScanInv /\ OperandsInv /\ DeliveredInv)'
<1>1. /\ args' = args /\ ordering' = ordering /\ argv' = argv
      /\ last_nonopt' = last_nonopt /\ nextchar' = nextchar /\ delivered' = delivered
      /\ step = "look" /\ step' = "done" /\ first_nonopt' = first_nonopt /\ optind = argc
      /\ optind' = IF first_nonopt # last_nonopt THEN first_nonopt ELSE optind
  BY DEF NoMore, scanVars
<1>2. Role' = Role /\ OptionsUpTo' = OptionsUpTo /\ OperandsUpTo' = OperandsUpTo
  BY <1>1, ReferenceStays
<1>3. /\ nextchar = 0 /\ (last_nonopt = optind \/ first_nonopt = last_nonopt)
      /\ Segment(argv, first_nonopt, last_nonopt) = OperandsUpTo[optind - 1]
      /\ delivered = OptionsUpTo[optind - 1] \o Begun
  BY <1>1 DEF OrderInv, ScanInv, GetoptInv, IndicesOrdered, OperandsInv, DeliveredInv
<1>4. optind - 1 = Len(args) /\ argc' = argc
  BY <1>1, InOrder DEF argc
<1>5. ScanInv'
  <2>1. step' = "done" /\ nextchar' = 0
    BY <1>1, <1>3
  <2> QED BY <2>1 DEF ScanInv
<1>6. OperandsInv'
  <2>1. CASE first_nonopt # last_nonopt
    BY <1>1, <1>2, <1>3, <1>4, <2>1 DEF OperandsInv, Segment
  <2>2. CASE first_nonopt = last_nonopt
    <3>1. Segment(argv, optind, argc) = <<>> /\ OperandsUpTo[Len(args)] = <<>>
      BY <1>1, <1>3, <1>4, <2>2, InOrder, EmptySegment
    <3> QED BY <1>1, <1>2, <1>4, <2>2, <3>1 DEF OperandsInv, Segment
  <2> QED BY <2>1, <2>2
<1>7. DeliveredInv'
  <2>1. OptionsUpTo[optind - 1] \in Seq(AnyItem)
    BY InOrder, OptionsUpToIs
  <2>2. delivered = OptionsUpTo[optind - 1]
    BY <1>3, <2>1 DEF Begun
  <2> QED BY <1>1, <1>2, <1>4, <2>2 DEF DeliveredInv
<1> QED BY <1>5, <1>6, <1>7

(* The first word, where words are not passed over, begins the operands.     *)
LEMMA StopAtOperandInOrder ==
  ASSUME OrderInv, StopAtOperand
  PROVE  (ScanInv /\ OperandsInv /\ DeliveredInv)'
<1>1. /\ args' = args /\ ordering' = ordering /\ argv' = argv /\ optind' = optind
      /\ last_nonopt' = last_nonopt /\ nextchar' = nextchar /\ delivered' = delivered
      /\ step = "look" /\ step' = "done" /\ first_nonopt' = first_nonopt /\ optind # argc
      /\ At(optind).kind = "word" /\ ordering = "REQUIRE_ORDER"
  BY DEF StopAtOperand, scanVars
<1>2. Role' = Role /\ OptionsUpTo' = OptionsUpTo /\ OperandsUpTo' = OperandsUpTo
  BY <1>1, ReferenceStays
<1>3. /\ nextchar = 0 /\ first_nonopt = last_nonopt /\ Starts(optind)
      /\ Segment(argv, first_nonopt, last_nonopt) = OperandsUpTo[optind - 1]
      /\ delivered = OptionsUpTo[optind - 1] \o Begun
  BY <1>1 DEF OrderInv, ScanInv, GetoptInv, IndicesOrdered, OperandsInv, DeliveredInv
<1>4. /\ optind \in 1..Len(args) /\ argv[optind] = optind /\ optind \in Nat \ {0}
      /\ optind \in 1..argc /\ argc \in 1..argc /\ optind <= argc /\ argc - 1 = Len(args)
      /\ args \in ArgVectors
  <2>1. optind \in 1..Len(args)
    BY <1>1, InOrder
  <2> QED BY <1>1, <2>1, InOrder
<1>5. Role[optind] = "operand"
  BY <1>1, <1>3, <1>4, InOrder DEF Starts, KindRole, At
<1>6. \A j \in optind..(argc - 1) : argv[j] = j /\ Role[j] \in {"operand", "after"}
  <2>1. \A j \in (optind + 1)..Len(args) : Role[j] = "after"
    BY <1>1, <1>4, <1>5, InOrder, NothingComesAfter
  <2>2. \A j \in optind..(argc - 1) : j = optind \/ j \in (optind + 1)..Len(args)
    BY <1>4
  <2>3. \A j \in optind..(argc - 1) : argv[j] = j
    BY <1>1, InOrder
  <2> QED BY <1>5, <2>1, <2>2, <2>3
<1>7. Segment(argv, optind, optind) = OperandsUpTo[optind - 1]
  <2>1. Segment(argv, optind, optind) = <<>> /\ OperandsUpTo[optind - 1] = <<>>
    BY <1>3, InOrder, EmptySegment
  <2> QED BY <2>1
<1>8. /\ Segment(argv, optind, argc) = OperandsUpTo[argc - 1]
      /\ OptionsUpTo[argc - 1] = OptionsUpTo[optind - 1]
  BY <1>4, <1>6, <1>7, RunOfOperands
<1>9. argc' = argc
  BY <1>1 DEF argc
<1>10. ScanInv'
  BY <1>1, <1>3 DEF ScanInv
<1>11. OperandsInv'
  BY <1>1, <1>2, <1>4, <1>8, <1>9 DEF OperandsInv, Segment
<1>12. DeliveredInv'
  <2>1. OptionsUpTo[optind - 1] \in Seq(AnyItem)
    BY InOrder, OptionsUpToIs
  <2>2. delivered = OptionsUpTo[Len(args)]
    BY <1>3, <1>4, <1>8, <2>1 DEF Begun
  <2> QED BY <1>1, <1>2, <2>2 DEF DeliveredInv
<1> QED BY <1>10, <1>11, <1>12

(* exchange, step by step: each swap leaves what will be there in the end.   *)
LEMMA SwapInOrder ==
  ASSUME OrderInv, SwapBottom \/ SwapTop
  PROVE  (ScanInv /\ OperandsInv /\ DeliveredInv)'
<1>1. /\ args' = args /\ ordering' = ordering /\ optind' = optind
      /\ last_nonopt' = last_nonopt /\ nextchar' = nextchar /\ delivered' = delivered
      /\ step = "exchange" /\ step' = "exchange" /\ first_nonopt' = first_nonopt
      /\ return_to' = return_to
      /\ bottom < middle /\ middle < top
  <2>1. bottom \in 1..argc /\ top \in 1..argc /\ middle \in 1..argc /\ argc \in Nat
    BY InOrder DEF OrderInv, GetoptInv, GetoptTypeOK, middle
  <2>2. top > middle /\ middle > bottom
    BY DEF SwapBottom, SwapTop, Exchanging
  <2> QED BY <2>1, <2>2 DEF SwapBottom, SwapTop, Exchanging, scanVars
<1>2. Role' = Role /\ OptionsUpTo' = OptionsUpTo /\ OperandsUpTo' = OperandsUpTo
  BY <1>1, ReferenceStays
<1>3. Finished(argv', bottom', middle, top') = Finished(argv, bottom, middle, top)
  <2>1. /\ argv \in [Places -> Places] /\ Len(args) \in Nat
        /\ bottom \in 1..argc /\ middle \in 1..argc /\ top \in 1..argc
    BY InOrder DEF OrderInv, GetoptInv, GetoptTypeOK, middle
  <2>2. CASE SwapBottom
    <3>1. /\ argv' = Swapped(bottom, top - (middle - bottom), middle - bottom)
          /\ top' = top - (middle - bottom) /\ bottom' = bottom
          /\ top - middle > middle - bottom
      BY <2>2 DEF SwapBottom
    <3> QED BY <1>1, <2>1, <3>1, SwapBottomFinishes
  <2>3. CASE SwapTop
    <3>1. /\ argv' = Swapped(bottom, middle, top - middle)
          /\ bottom' = bottom + (top - middle) /\ top' = top
          /\ top - middle <= middle - bottom
      BY <2>1, <2>3 DEF SwapTop
    <3> QED BY <1>1, <2>1, <3>1, SwapTopFinishes
  <2> QED BY <2>2, <2>3
<1>4. ScanInv'
  BY <1>1, <1>2 DEF OrderInv, ScanInv, Starts, KindRole, argc
<1>5. OperandsInv'
  <2>1. Finished(argv', bottom', middle', top') = Finished(argv, bottom, middle, top)
    BY <1>1, <1>3 DEF middle
  <2>2. Finished(argv, bottom, middle, top)' = Finished(argv', bottom', middle', top')
    BY <1>1 DEF Finished, Places
  <2>3. Segment(Finished(argv, bottom, middle, top),
                first_nonopt + (optind - last_nonopt), optind) = OperandsUpTo[optind - 1]
    BY <1>1 DEF OrderInv, OperandsInv
  <2> QED BY <1>1, <1>2, <2>1, <2>2, <2>3 DEF OperandsInv, Segment
<1>6. DeliveredInv'
  <2>1. nextchar = 0
    BY <1>1 DEF OrderInv, GetoptInv, IndicesOrdered
  <2> QED BY <1>1, <1>2, <2>1 DEF OrderInv, DeliveredInv, Begun
<1> QED BY <1>4, <1>5, <1>6

(* ... and in the end it is there.                                           *)
LEMMA EndExchangeInOrder ==
  ASSUME OrderInv, EndExchange
  PROVE  (ScanInv /\ OperandsInv /\ DeliveredInv)'
<1>1. /\ args' = args /\ ordering' = ordering /\ argv' = argv /\ optind' = optind
      /\ nextchar' = nextchar /\ delivered' = delivered
      /\ step = "exchange" /\ step' = return_to
      /\ first_nonopt' = first_nonopt + (optind - last_nonopt)
      /\ last_nonopt' = optind
  BY DEF EndExchange, scanVars
<1>2. Role' = Role /\ OptionsUpTo' = OptionsUpTo /\ OperandsUpTo' = OperandsUpTo
  BY <1>1, ReferenceStays
<1>3. /\ nextchar = 0 /\ return_to \in {"skip", "rest"}
      /\ ordering # "REQUIRE_ORDER"
      /\ return_to = "skip" => Starts(optind)
      /\ return_to = "rest" => optind > 1 /\ Role[optind - 1] = "dashes"
  BY <1>1 DEF OrderInv, ScanInv, GetoptInv, IndicesOrdered, GetoptTypeOK
<1>4. Finished(argv, bottom, middle, top) = argv
  <2>1. /\ argv \in [Places -> Places] /\ Len(args) \in Nat
        /\ bottom \in 1..argc /\ middle \in 1..argc /\ top \in 1..argc
        /\ bottom <= middle /\ middle <= top
    BY <1>1, InOrder DEF OrderInv, GetoptInv, GetoptTypeOK, IndicesOrdered, middle
  <2>2. bottom = middle \/ middle = top
    BY <1>1, <2>1 DEF EndExchange, Exchanging
  <2> QED BY <2>1, <2>2, NothingToFinish
<1>5. Starts(optind)' = Starts(optind)
  BY <1>1, <1>2 DEF Starts, KindRole
<1>6. ScanInv'
  BY <1>1, <1>2, <1>3, <1>5 DEF ScanInv
<1>7. OperandsInv'
  <2>1. Segment(argv, first_nonopt + (optind - last_nonopt), optind) = OperandsUpTo[optind - 1]
    BY <1>1, <1>4 DEF OrderInv, OperandsInv
  <2> QED BY <1>1, <1>2, <1>3, <2>1 DEF OperandsInv, Segment
<1>8. DeliveredInv'
  BY <1>1, <1>2, <1>3 DEF OrderInv, DeliveredInv, Begun
<1> QED BY <1>6, <1>7, <1>8

(* The options of an element are behind those before it when the last of     *)
(* them is delivered.                                                        *)
LEMMA ElementInOrder ==
  ASSUME OrderInv, optind # argc, Role[optind] = "option", step \in {"look", "scan"},
         UNCHANGED <<args, ordering, argv, first_nonopt, last_nonopt>>,
         step' = "scan", nextchar' = 0, optind' = Behind(optind),
         delivered' = OptionsUpTo[optind - 1] \o ItemsOf(optind)
  PROVE  (ScanInv /\ OperandsInv /\ DeliveredInv)'
<1>1. Role' = Role /\ OptionsUpTo' = OptionsUpTo /\ OperandsUpTo' = OperandsUpTo
  BY ReferenceStays
<1>2. /\ Behind(optind) \in 1..argc /\ Starts(Behind(optind))
      /\ OperandsUpTo[Behind(optind) - 1] = OperandsUpTo[optind - 1]
      /\ OptionsUpTo[Behind(optind) - 1] = OptionsUpTo[optind - 1] \o ItemsOf(optind)
  <2>1. args \in ArgVectors /\ optind \in 1..Len(args)
    BY InOrder
  <2> QED BY <2>1, OptionIsPassed
<1>3. ScanInv'
  <2>1. Starts(optind)'
    BY <1>1, <1>2 DEF Starts, KindRole
  <2>2. ordering = "REQUIRE_ORDER" => first_nonopt = last_nonopt
    BY DEF OrderInv, ScanInv
  <2> QED BY <2>1, <2>2 DEF ScanInv
<1>4. OperandsInv'
  <2>1. Segment(argv, first_nonopt, last_nonopt) = OperandsUpTo[optind - 1]
    BY DEF OrderInv, OperandsInv
  <2> QED BY <1>1, <1>2, <2>1 DEF OperandsInv, Segment
<1>5. DeliveredInv'
  <2>1. args \in ArgVectors /\ Behind(optind) - 1 \in 0..Len(args)
    BY <1>2, InOrder
  <2>2. OptionsUpTo[Behind(optind) - 1] \in Seq(AnyItem)
    BY <2>1, OptionsUpToIs
  <2>3. OptionsUpTo[Behind(optind) - 1] \o <<>> = OptionsUpTo[Behind(optind) - 1]
    BY <2>2
  <2>4. Begun' = <<>>
    BY DEF Begun
  <2> QED BY <1>1, <1>2, <2>3, <2>4 DEF DeliveredInv
<1> QED BY <1>3, <1>4, <1>5

(* A long option with its argument is what was given.                        *)
LEMMA LongOptionInOrder ==
  ASSUME OrderInv, LongOption
  PROVE  (ScanInv /\ OperandsInv /\ DeliveredInv)'
<1>1. /\ step = "look" /\ optind # argc /\ At(optind).kind = "long" /\ nextchar' = nextchar
  BY DEF LongOption
<1>2. UNCHANGED <<args, ordering, argv, first_nonopt, last_nonopt>> /\ step' = "scan"
  BY DEF LongOption, DeliverWithNext, Deliver
<1>3. /\ nextchar = 0 /\ Starts(optind) /\ delivered = OptionsUpTo[optind - 1] \o Begun
  BY <1>1 DEF OrderInv, ScanInv, GetoptInv, IndicesOrdered, DeliveredInv
<1>4. /\ args \in ArgVectors /\ optind \in 1..Len(args) /\ argv[optind] = optind
      /\ At(optind) = args[optind] /\ optind - 1 \in 0..Len(args) /\ argc = Len(args) + 1
      /\ optind < Len(args) => argv[optind + 1] = optind + 1
  <2>1. optind \in 1..Len(args)
    BY <1>1, InOrder
  <2> QED BY <1>1, <2>1, InOrder DEF At
<1>5. Role[optind] = "option"
  BY <1>1, <1>3, <1>4, InOrder DEF Starts, KindRole
<1>6. delivered = OptionsUpTo[optind - 1] /\ OptionsUpTo[optind - 1] \in Seq(AnyItem)
  <2>1. OptionsUpTo[optind - 1] \in Seq(AnyItem)
    BY <1>4, OptionsUpToIs
  <2>2. delivered = OptionsUpTo[optind - 1] \o <<>>
    BY <1>3 DEF Begun
  <2> QED BY <2>1, <2>2
<1>7. \E e : /\ delivered' = Append(delivered, e) /\ ItemsOf(optind) = <<e>>
             /\ optind' = Behind(optind)
  <2>1. args[optind].text \in BOOLEAN
    BY <1>1, <1>4, ElementIs
  <2> DEFINE c == args[optind].c
             text == args[optind].text
  <2>2. CASE c \in LongRequired /\ ~ text
    <3>1. TakesNext(args[optind])
      BY <1>1, <1>4, <2>2 DEF TakesNext
    <3>2. DeliverWithNext(c)
      BY <1>4, <2>2 DEF LongOption
    <3>3. CASE optind < Len(args)
      <4>1. delivered' = Append(delivered, Item(c, optind, optind + 1)) /\ optind' = optind + 2
        <5>1. optind + 1 < argc
          BY <1>4, <3>3, InOrder
        <5> QED BY <1>4, <3>2, <3>3, <5>1 DEF DeliverWithNext, Deliver
      <4>2. ItemsOf(optind) = <<Item(c, optind, optind + 1)>>
        BY <1>1, <1>4, <2>2, <3>3 DEF ItemsOf
      <4>3. Behind(optind) = optind + 2
        BY <3>1, <3>3 DEF Behind
      <4> QED BY <4>1, <4>2, <4>3
    <3>4. CASE ~ (optind < Len(args))
      <4>1. delivered' = Append(delivered, Item(Unknown, optind, 0)) /\ optind' = optind + 1
        <5>1. ~ (optind + 1 < argc)
          BY <1>4, <3>4, InOrder
        <5> QED BY <1>4, <3>2, <5>1 DEF DeliverWithNext, Deliver
      <4>2. ItemsOf(optind) = <<Item(Unknown, optind, 0)>>
        BY <1>1, <1>4, <2>2, <3>4 DEF ItemsOf
      <4>3. Behind(optind) = optind + 1
        BY <3>4 DEF Behind
      <4> QED BY <4>1, <4>2, <4>3
    <3> QED BY <3>3, <3>4
  <2>3. CASE ~ (c \in LongRequired /\ ~ text)
    <3>1. ~ TakesNext(args[optind])
      BY <1>1, <1>4, <2>3 DEF TakesNext
    <3>2. Behind(optind) = optind + 1
      BY <3>1 DEF Behind
    <3> DEFINE e == CASE c = Unknown \/ (c \in LongPlain /\ text) -> Item(Unknown, optind, 0)
                      [] OTHER -> Item(c, optind, IF text THEN optind ELSE 0)
    <3>3. delivered' = Append(delivered, e) /\ optind' = optind + 1
      BY <1>4, <2>3 DEF LongOption, Deliver
    <3>4. ItemsOf(optind) = <<e>>
      <4>1. c \in LongPlain \cup LongRequired \cup LongOptional \cup {Unknown}
        BY <1>1, <1>4, ElementIs
      <4> QED BY <1>1, <1>4, <2>1, <2>3, <4>1
              DEF ItemsOf, LongPlain, LongRequired, LongOptional, Unknown
    <3> QED BY <3>2, <3>3, <3>4
  <2> QED BY <2>2, <2>3
<1>8. delivered' = OptionsUpTo[optind - 1] \o ItemsOf(optind) /\ optind' = Behind(optind)
  BY <1>6, <1>7
<1> QED BY <1>1, <1>2, <1>3, <1>5, <1>8, ElementInOrder

(* Of a group one option is delivered, in its place, and its argument with   *)
(* the last.                                                                 *)
LEMMA ShortOptionInOrder ==
  ASSUME OrderInv, ShortOption
  PROVE  (ScanInv /\ OperandsInv /\ DeliveredInv)'
<1> DEFINE k == IF nextchar = 0 THEN 1 ELSE nextchar
           items == ItemsOf(optind)
           before == OptionsUpTo[optind - 1]
<1>1. /\ step \in {"look", "scan"} /\ optind # argc /\ args \in ArgVectors
      /\ optind \in 1..Len(args) /\ argv[optind] = optind /\ At(optind) = args[optind]
      /\ argc = Len(args) + 1 /\ optind - 1 \in 0..Len(args)
      /\ optind < Len(args) => argv[optind + 1] = optind + 1
  <2>1. step \in {"look", "scan"} /\ optind # argc
    BY DEF ShortOption, OrderInv, GetoptInv, IndicesOrdered
  <2>2. optind \in 1..Len(args)
    BY <2>1, InOrder
  <2> QED BY <2>1, <2>2, InOrder DEF At
<1>2. args[optind].kind = "short" /\ k \in 1..Len(args[optind].cs)
  <2>1. CASE nextchar = 0
    <3>1. args[optind].kind = "short"
      BY <1>1, <2>1 DEF ShortOption
    <3>2. args[optind].cs \in Seq(ShortPlain \cup ShortRequired \cup {Unknown})
          /\ args[optind].cs # <<>>
      BY <1>1, <3>1, ElementIs
    <3> QED BY <2>1, <3>1, <3>2
  <2>2. CASE nextchar # 0
    BY <2>2 DEF OrderInv, ScanInv
  <2> QED BY <2>1, <2>2
<1>3. UNCHANGED <<args, ordering, argv, first_nonopt, last_nonopt>> /\ step' = "scan"
  BY DEF ShortOption, DeliverWithNext, Deliver
<1>4. Starts(optind) /\ Role[optind] = "option"
  <2>1. Starts(optind)
    BY <1>1 DEF OrderInv, ScanInv
  <2> QED BY <1>1, <1>2, <2>1, InOrder DEF Starts, KindRole
<1>5. before \in Seq(AnyItem) /\ items \in Seq(AnyItem) /\ Len(items) = Len(args[optind].cs)
  BY <1>1, <1>2, OptionsUpToIs, ItemsType
<1>6. delivered = before \o SubSeq(items, 1, k - 1)
  <2>1. SubSeq(items, 1, 0) = <<>> /\ 1 - 1 = 0
    BY <1>5
  <2>2. step # "done" /\ delivered = before \o Begun
    BY <1>1 DEF OrderInv, DeliveredInv
  <2> QED BY <2>1, <2>2 DEF Begun
<1> HIDE DEF before
<1>7. /\ Append(delivered, items[k]) = before \o SubSeq(items, 1, k)
      /\ SubSeq(items, 1, Len(items)) = items
  <2>1. k \in 1..Len(items)
    BY <1>2, <1>5
  <2> HIDE DEF items, k
  <2> QED BY <1>5, <1>6, <2>1, OneMore
<1> DEFINE cs == args[optind].cs
           c == cs[k]
           text == args[optind].text
<1>8. /\ cs \in Seq(ShortPlain \cup ShortRequired \cup {Unknown}) /\ text \in BOOLEAN
      /\ k # Len(cs) => c \notin ShortRequired
      /\ text => cs[Len(cs)] \in ShortRequired
  BY <1>1, <1>2, ElementIs
<1>9. CASE c \in ShortRequired
  <2>1. k = Len(cs)
    BY <1>8, <1>9
  <2>2. nextchar' = 0
    BY <1>1, <1>9 DEF ShortOption
  <2>3. delivered' = Append(delivered, items[k]) /\ optind' = Behind(optind)
    <3>1. CASE text
      <4>1. delivered' = Append(delivered, Item(c, optind, optind)) /\ optind' = optind + 1
        BY <1>1, <1>9, <3>1 DEF ShortOption, Deliver
      <4>2. items[k] = Item(c, optind, optind)
        BY <1>2, <1>9, <3>1 DEF ItemsOf
      <4>3. Behind(optind) = optind + 1
        BY <1>2, <3>1 DEF Behind, TakesNext
      <4> QED BY <4>1, <4>2, <4>3
    <3>2. CASE ~ text
      <4>1. DeliverWithNext(c)
        BY <1>1, <1>9, <3>2 DEF ShortOption
      <4>2. TakesNext(args[optind])
        BY <1>2, <1>9, <2>1, <3>2 DEF TakesNext
      <4>3. CASE optind < Len(args)
        <5>1. delivered' = Append(delivered, Item(c, optind, optind + 1)) /\ optind' = optind + 2
          <6>1. optind + 1 < argc
            BY <1>1, <4>3, InOrder
          <6> QED BY <1>1, <4>1, <4>3, <6>1 DEF DeliverWithNext, Deliver
        <5>2. items[k] = Item(c, optind, optind + 1)
          BY <1>1, <1>2, <1>9, <3>2, <4>3 DEF ItemsOf
        <5>3. Behind(optind) = optind + 2
          BY <4>2, <4>3 DEF Behind
        <5> QED BY <5>1, <5>2, <5>3
      <4>4. CASE ~ (optind < Len(args))
        <5>1. delivered' = Append(delivered, Item(Unknown, optind, 0)) /\ optind' = optind + 1
          <6>1. ~ (optind + 1 < argc)
            BY <1>1, <4>4, InOrder
          <6> QED BY <1>1, <4>1, <6>1 DEF DeliverWithNext, Deliver
        <5>2. items[k] = Item(Unknown, optind, 0)
          BY <1>1, <1>2, <1>9, <3>2, <4>4 DEF ItemsOf
        <5>3. Behind(optind) = optind + 1
          BY <4>4 DEF Behind
        <5> QED BY <5>1, <5>2, <5>3
      <4> QED BY <4>3, <4>4
    <3> QED BY <1>8, <3>1, <3>2
  <2>4. delivered' = OptionsUpTo[optind - 1] \o ItemsOf(optind)
    BY <1>5, <1>7, <2>1, <2>3 DEF before
  <2> QED BY <1>1, <1>3, <1>4, <2>2, <2>3, <2>4, ElementInOrder
<1>10. CASE c \notin ShortRequired
  <2>1. delivered' = Append(delivered, items[k])
    <3>1. delivered' = Append(delivered, Item(c, optind, 0))
      BY <1>1, <1>10 DEF ShortOption, Deliver
    <3>2. items[k] = Item(c, optind, 0)
      BY <1>2, <1>10 DEF ItemsOf
    <3> QED BY <3>1, <3>2
  <2>2. CASE k = Len(cs)
    <3>1. nextchar' = 0 /\ optind' = optind + 1
      BY <1>1, <1>10, <2>2 DEF ShortOption
    <3>2. Behind(optind) = optind + 1
      BY <1>2, <1>10, <2>2 DEF Behind, TakesNext
    <3>3. delivered' = OptionsUpTo[optind - 1] \o ItemsOf(optind)
      BY <1>5, <1>7, <2>1, <2>2 DEF before
    <3> QED BY <1>1, <1>3, <1>4, <3>1, <3>2, <3>3, ElementInOrder
  <2>3. CASE k # Len(cs)
    <3>1. nextchar' = k + 1 /\ optind' = optind
      BY <1>1, <1>10, <2>3 DEF ShortOption
    <3>2. Role' = Role /\ OptionsUpTo' = OptionsUpTo /\ OperandsUpTo' = OperandsUpTo
      BY <1>3, ReferenceStays
    <3>3. k + 1 \in 2..Len(cs) /\ k + 1 # 0 /\ (k + 1) - 1 = k
      BY <1>2, <1>8, <2>3
    <3>4. ScanInv'
      <4>1. Starts(optind)'
        BY <1>3, <1>4, <3>1, <3>2 DEF Starts, KindRole
      <4>2. ordering = "REQUIRE_ORDER" => first_nonopt = last_nonopt
        BY <1>1 DEF OrderInv, ScanInv
      <4> QED BY <1>2, <1>3, <3>1, <3>3, <4>1, <4>2 DEF ScanInv
    <3>5. OperandsInv'
      <4>1. Segment(argv, first_nonopt, last_nonopt) = OperandsUpTo[optind - 1]
        BY <1>1 DEF OrderInv, OperandsInv
      <4> QED BY <1>3, <3>1, <3>2, <4>1 DEF OperandsInv, Segment
    <3>6. DeliveredInv'
      <4>1. ItemsOf(optind)' = ItemsOf(optind)
        BY <1>3, <3>1 DEF ItemsOf
      <4>2. Begun' = SubSeq(items, 1, k)
        BY <3>1, <3>3, <4>1 DEF Begun
      <4> QED BY <1>3, <1>7, <2>1, <3>1, <3>2, <4>2 DEF DeliveredInv, before
    <3> QED BY <3>4, <3>5, <3>6
  <2> QED BY <2>2, <2>3
<1> QED BY <1>9, <1>10

(* No step of getopt_long disturbs the order.                                *)
LEMMA OrderStep == OrderInv /\ [GetoptNext]_getoptVars => OrderInv'
<1> SUFFICES ASSUME OrderInv, [GetoptNext]_getoptVars PROVE OrderInv'
  OBVIOUS
<1>1. GetoptInv'
  BY GetoptInvStep DEF OrderInv
<1>2. (ScanInv /\ OperandsInv /\ DeliveredInv)'
  <2>1. CASE Advance
    BY <2>1, AdvanceInOrder
  <2>2. CASE SkipOperands
    BY <2>2, SkipOperandsInOrder
  <2>3. CASE Dashes
    BY <2>3, DashesInOrder
  <2>4. CASE Rest
    BY <2>4, RestInOrder
  <2>5. CASE NoMore
    BY <2>5, NoMoreInOrder
  <2>6. CASE StopAtOperand
    BY <2>6, StopAtOperandInOrder
  <2>7. CASE SwapBottom \/ SwapTop
    BY <2>7, SwapInOrder
  <2>8. CASE EndExchange
    BY <2>8, EndExchangeInOrder
  <2>9. CASE LongOption
    BY <2>9, LongOptionInOrder
  <2>10. CASE ShortOption
    BY <2>10, ShortOptionInOrder
  <2>11. CASE UNCHANGED getoptVars
    <3>1. Role' = Role /\ OptionsUpTo' = OptionsUpTo /\ OperandsUpTo' = OperandsUpTo
      BY <2>11, ReferenceStays DEF getoptVars
    <3>2. Begun' = Begun
      BY <2>11 DEF getoptVars, Begun, ItemsOf
    <3>3. Starts(optind)' = Starts(optind)
      BY <2>11, <3>1 DEF getoptVars, Starts, KindRole
    <3>4. ScanInv' = ScanInv
      BY <2>11, <3>1, <3>3 DEF getoptVars, ScanInv, argc
    <3>5. OperandsInv' = OperandsInv
      BY <2>11, <3>1 DEF getoptVars, OperandsInv, Segment, Finished, middle, Places, argc
    <3>6. DeliveredInv' = DeliveredInv
      BY <2>11, <3>1, <3>2 DEF getoptVars, DeliveredInv
    <3> QED BY <3>4, <3>5, <3>6 DEF OrderInv
  <2> QED
    BY <2>1, <2>2, <2>3, <2>4, <2>5, <2>6, <2>7, <2>8, <2>9, <2>10, <2>11 DEF GetoptNext
<1> QED BY <1>1, <1>2 DEF OrderInv

-----------------------------------------------------------------------------
(* For every command line and both orderings, argv holds the operands and    *)
(* nothing else from optind on when getopt_long has returned -1, in the      *)
(* order in which they were given.                                           *)
THEOREM OperandsStayInOrder == GetoptSpec => []OperandsInOrder
<1>1. OrderInv => OperandsInOrder
  BY DEF OrderInv, OperandsInv, OperandsInOrder, Segment
<1> QED BY <1>1, OrderInit, OrderStep, PTL DEF GetoptSpec

(* A beginning of a beginning.                                               *)
LEMMA BeginningOf ==
  ASSUME NEW s \in Seq(AnyItem), NEW t \in Seq(AnyItem), NEW u \in Seq(AnyItem),
         Len(s) <= Len(t), s = SubSeq(t, 1, Len(s)),
         Len(t) <= Len(u), t = SubSeq(u, 1, Len(t))
  PROVE  Len(s) <= Len(u) /\ s = SubSeq(u, 1, Len(s))
<1>1. Len(s) \in Nat /\ Len(t) \in Nat /\ Len(u) \in Nat
  OBVIOUS
<1>2. SubSeq(SubSeq(u, 1, Len(t)), 1, Len(s)) = SubSeq(u, 1, Len(s))
  BY <1>1
<1> QED BY <1>1, <1>2

(* What is there with a beginning of the second of two sequences.            *)
LEMMA BeginningOfBoth ==
  ASSUME NEW s \in Seq(AnyItem), NEW t \in Seq(AnyItem), NEW k \in 0..Len(t)
  PROVE  /\ s \o SubSeq(t, 1, k) \in Seq(AnyItem)
         /\ Len(s \o SubSeq(t, 1, k)) <= Len(s \o t)
         /\ s \o SubSeq(t, 1, k) = SubSeq(s \o t, 1, Len(s \o SubSeq(t, 1, k)))
<1>1. SubSeq(t, 1, k) \in Seq(AnyItem) /\ Len(SubSeq(t, 1, k)) = k /\ k \in Nat
      /\ Len(s) \in Nat /\ Len(t) \in Nat /\ k <= Len(t)
  OBVIOUS
<1>2. Len(s \o t) = Len(s) + Len(t) /\ s \o t \in Seq(AnyItem)
  OBVIOUS
<1>3. /\ s \o SubSeq(t, 1, k) \in Seq(AnyItem)
      /\ Len(s \o SubSeq(t, 1, k)) = Len(s) + k
  BY <1>1
<1>4. SubSeq(s \o t, 1, Len(s) + k) = s \o SubSeq(t, 1, k)
  BY <1>1, <1>2, <1>3
<1> QED BY <1>1, <1>2, <1>3, <1>4

(* For every command line and both orderings, getopt_long has at any time    *)
(* returned a beginning of the options that were given, each once and with   *)
(* its argument, and all of them when it returns -1.                         *)
THEOREM OptionsComeInOrder == GetoptSpec => []OptionsInOrder
<1>1. ASSUME OrderInv PROVE OptionsInOrder
  <2> DEFINE given == OptionsUpTo[Len(args)]
             before == OptionsUpTo[optind - 1]
  <2>1. args \in ArgVectors /\ Len(args) \in Nat /\ optind - 1 \in 0..Len(args)
        /\ Len(args) \in 0..Len(args)
    BY <1>1, InOrder
  <2>2. given \in Seq(AnyItem) /\ before \in Seq(AnyItem)
    BY <2>1, OptionsUpToIs
  <2>3. Len(before) <= Len(given) /\ before = SubSeq(given, 1, Len(before))
    BY <2>1, OptionsFollow
  <2>4. CASE step = "done"
    <3>1. delivered = given
      BY <1>1, <2>4 DEF OrderInv, DeliveredInv
    <3>2. SubSeq(given, 1, Len(given)) = given /\ Len(given) \in Nat
      BY <2>2
    <3> QED BY <3>1, <3>2 DEF OptionsInOrder
  <2>5. CASE step # "done" /\ nextchar = 0
    <3>1. delivered = before
      <4>1. delivered = before \o <<>>
        BY <1>1, <2>5 DEF OrderInv, DeliveredInv, Begun
      <4> QED BY <2>2, <4>1
    <3> QED BY <2>3, <2>5, <3>1 DEF OptionsInOrder
  <2>6. CASE step # "done" /\ nextchar # 0
    <3> DEFINE items == ItemsOf(optind)
               begun == SubSeq(items, 1, nextchar - 1)
               passed == OptionsUpTo[optind]
    <3>1. /\ args[optind].kind = "short" /\ nextchar \in 2..Len(args[optind].cs)
          /\ Starts(optind) /\ optind \in 1..Len(args) /\ optind \in 0..Len(args)
      <4>1. step = "scan" /\ optind # argc
        BY <1>1, <2>6 DEF OrderInv, GetoptInv, IndicesOrdered
      <4> QED BY <1>1, <2>6, <4>1, InOrder DEF OrderInv, ScanInv
    <3>2. Role[optind] = "option"
      BY <2>1, <3>1 DEF Starts, KindRole
    <3>3. items \in Seq(AnyItem) /\ Len(items) = Len(args[optind].cs)
      BY <2>1, <3>1, ItemsType
    <3>4. passed = before \o items /\ passed \in Seq(AnyItem)
      BY <2>1, <3>1, <3>2, OptionsUpToIs
    <3>5. delivered = before \o begun
      BY <1>1, <2>6 DEF OrderInv, DeliveredInv, Begun
    <3>6. Len(passed) <= Len(given) /\ passed = SubSeq(given, 1, Len(passed))
      BY <2>1, <3>1, OptionsFollow
    <3>7. /\ delivered \in Seq(AnyItem) /\ Len(delivered) <= Len(passed)
          /\ delivered = SubSeq(passed, 1, Len(delivered))
      <4>1. nextchar - 1 \in 0..Len(items)
        BY <3>1, <3>3
      <4> HIDE DEF before, items
      <4>2. /\ before \o begun \in Seq(AnyItem) /\ Len(before \o begun) <= Len(before \o items)
            /\ before \o begun = SubSeq(before \o items, 1, Len(before \o begun))
        BY <2>2, <3>3, <4>1, BeginningOfBoth
      <4> QED BY <3>4, <3>5, <4>2
    <3>8. Len(delivered) <= Len(given) /\ delivered = SubSeq(given, 1, Len(delivered))
      BY <2>2, <3>4, <3>6, <3>7, BeginningOf
    <3> QED BY <2>6, <3>8 DEF OptionsInOrder, given
  <2> QED BY <2>4, <2>5, <2>6
<1> QED BY <1>1, OrderInit, OrderStep, PTL DEF GetoptSpec
=============================================================================
