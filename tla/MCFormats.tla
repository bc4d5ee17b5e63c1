----------------------------- MODULE MCFormats ------------------------------
(***************************************************************************)
(* Values for the plural expressions and the format strings of MCIntl.tla. *)
(***************************************************************************)
EXTENDS Plural, Printf

CONSTANT Tails

(* Every precedence level of the plural grammar, a sign that is none, and a *)
(* number.                                                                  *)
MCLexemes ==
  {<<"n">>, <<"1", "0">>, <<"?">>, <<":">>, <<"|", "|">>, <<"=", "=">>,
   <<"*">>, <<"!">>, <<"(">>, <<")">>, <<"&">>}

None == [kind |-> "", n |-> 0]
Star1(n) == [kind |-> "*", n |-> n]
Literal(n) == [kind |-> "digits", n |-> n]
Dir(lit, n, flags, width, prec, mods, conv, out) ==
  [lit |-> lit, n |-> n, flags |-> flags, width |-> width, prec |-> prec,
   mods |-> mods, conv |-> conv, out |-> out]
(* Directives numbered and in order, of conflicting types, with widths from  *)
(* arguments, of several lengths, one that no snprintf can convert, one that *)
(* is unknown and one with the number 0.                                     *)
MCDirectives ==
  LET str(n) == Dir(1, n, 0, None, None, <<>>, "s", 3)
      num(n) == Dir(0, n, 6, Literal(2), Literal(1), <<"l", "l">>, "d", 5)
      pad(n) == Dir(2, n, 0, Star1(-1), Star1(-1), <<"h">>, "u", 14)
  IN { str(-1), str(1), str(2), num(-1), num(1), pad(-1), pad(4),
       Dir(0, 1, 0, Star1(2), None, <<>>, "f", 2),
       Dir(1, -1, 0, None, None, <<"l">>, "c", -1),
       Dir(3, -1, 0, None, None, <<>>, "n", 0),
       Dir(1, -1, 0, None, None, <<>>, "%", 1),
       Dir(1, -1, 0, None, None, <<>>, "y", 1), str(0) }
MCFormatSet == [dirs : SeqOf(MCDirectives, 2), tail : Tails]
=============================================================================
