------------------------------- MODULE Plural -------------------------------
(***************************************************************************)
(* The formula of a catalog's header that chooses a plural form: the lexer *)
(* and the table-driven parser of intl/plural.c, step by step and with its *)
(* memory, the choice between the formula and the built-in one, and its    *)
(* evaluation. The tables are those of the generated file; the grammar of  *)
(* plural.y is the reference the parser is compared with.                  *)
(***************************************************************************)
EXTENDS Integers, Sequences, SequencesExt, FiniteSetsExt

CONSTANTS
  ULong,        \* values of an unsigned long
  YYINITDEPTH,  \* elements of the parser's first stacks
  YYMAXDEPTH,   \* elements they may grow to
  Lexemes,      \* the pieces of text formulas are made of
  MaxTokens,    \* bound: pieces in one formula
  NoExp         \* a null pointer to an expression

VARIABLES
  yyss, yyvs,   \* the stacks of states and of semantic values
  stacksize,    \* their capacity
  lookahead,    \* the token read and not shifted, or Empty
  tokens,       \* all tokens read so far
  live,         \* expression nodes allocated and not freed
  starved,      \* an allocation has failed
  res,          \* the expression handed to the caller, or NoExp
  yyresult      \* -1 while the parser runs, then its return value

pluralVars == <<yyss, yyvs, stacksize, lookahead, tokens, live, starved, res,
                yyresult>>

Digits == <<"0", "1", "2", "3", "4", "5", "6", "7", "8", "9">>
Digit  == Range(Digits)
DigitValue(d) == (CHOOSE k \in DOMAIN Digits : Digits[k] = d) - 1

(* An expression and its number of nodes. *)
Node(op, args, num) == [op |-> op, args |-> args, num |-> num]
Total(nums) == FoldLeft(LAMBDA a, b : a + b, 0, nums)
RECURSIVE Size(_)
Size(exp) == 1 + Total([k \in DOMAIN exp.args |-> Size(exp.args[k])])
SizeOf(exp) == IF exp = NoExp THEN 0 ELSE Size(exp)

-----------------------------------------------------------------------------
(* Tokens by their internal number, as YYTRANSLATE gives it: 0 is the end,   *)
(* 1 what YYERRCODE becomes.                                                 *)
Token == [ eof |-> 0, error |-> 1, qm |-> 3, bar |-> 4, amp |-> 5, equop |-> 6,
           cmpop |-> 7, addop |-> 8, mulop |-> 9, bang |-> 10, number |-> 11,
           colon |-> 12, var |-> 13, open |-> 14, close |-> 15 ]
Lexed(tok, lval) == [tok |-> tok, lval |-> lval]

(* An element of the stack of values: of a token, or of an expression. *)
ValueOf(token) == [lval |-> token.lval, exp |-> NoExp]
ExpValue(exp)  == [lval |-> 0, exp |-> exp]

Blank(c)  == c \in {" ", "\t"}
IsEnd(c)  == c \in {"NUL", ";", "\n"}
Single ==  \* characters that are a token whatever follows
  [c \in {"*", "/", "%", "+", "-", "n", "?", ":", "(", ")"} |->
     CASE c = "*" -> Lexed(Token.mulop, "*") [] c = "/" -> Lexed(Token.mulop, "/")
       [] c = "%" -> Lexed(Token.mulop, "%") [] c = "+" -> Lexed(Token.addop, "+")
       [] c = "-" -> Lexed(Token.addop, "-") [] c = "n" -> Lexed(Token.var, 0)
       [] c = "?" -> Lexed(Token.qm, 0)      [] c = ":" -> Lexed(Token.colon, 0)
       [] c = "(" -> Lexed(Token.open, 0)    [] c = ")" -> Lexed(Token.close, 0)]

(* The unsigned long that a row of digits stands for. *)
Number(digits) ==
  FoldLeft(LAMBDA n, d : (10 * n + DigitValue(d)) % ULong, 0, digits)

(* yylex on a text that ends in "NUL": white space is passed over, numbers    *)
(* and operators are taken as long as they go; the token and what is left.   *)
Yylex(text) ==
  LET start == Min({k \in DOMAIN text : ~ Blank(text[k])})
      c     == text[start]
      next  == IF start < Len(text) THEN text[start + 1] ELSE "NUL"
      run   == Max({k \in start..Len(text) :
                      \A j \in start..k : text[j] \in Digit} \cup {start})
      two   == next = "="
      tok   ==
        CASE IsEnd(c)             -> Lexed(Token.eof, 0)
          [] c \in Digit          -> Lexed(Token.number,
                                           Number(SubSeq(text, start, run)))
          [] c = "="              -> IF two THEN Lexed(Token.equop, "==")
                                            ELSE Lexed(Token.error, 0)
          [] c = "!"              -> IF two THEN Lexed(Token.equop, "!=")
                                            ELSE Lexed(Token.bang, 0)
          [] c = "&"              -> Lexed(IF next = c THEN Token.amp
                                           ELSE Token.error, 0)
          [] c = "|"              -> Lexed(IF next = c THEN Token.bar
                                           ELSE Token.error, 0)
          [] c = "<"              -> Lexed(Token.cmpop, IF two THEN "<=" ELSE "<")
          [] c = ">"              -> Lexed(Token.cmpop, IF two THEN ">=" ELSE ">")
          [] c \in DOMAIN Single  -> Single[c]
          [] OTHER                -> Lexed(Token.error, 0)
      last  == CASE IsEnd(c) -> start - 1
                 [] c \in Digit -> run
                 [] c \in {"=", "!", "<", ">"} /\ two -> start + 1
                 [] c \in {"&", "|"} /\ next = c -> start + 1
                 [] OTHER -> start
  IN [token |-> tok, rest |-> SubSeq(text, last + 1, Len(text))]

-----------------------------------------------------------------------------
(* The tables, shifted by one where the file's arrays start at 0.            *)
YYFLAG  == -32768
YYLAST  == 53
YYFINAL == 27
YYNTBASE == 16
yyr1 == <<0, 16, 17, 17, 17, 17, 17, 17, 17, 17, 17, 17, 17>>
yyr2 == <<0, 1, 5, 3, 3, 3, 3, 3, 3, 2, 1, 1, 3>>
yydefact == <<0, 0, 11, 10, 0, 1, 9, 0, 0, 0, 0, 0, 0, 0, 0, 12, 0, 3, 4, 5,
              6, 7, 8, 0, 2, 0, 0, 0>>
yydefgoto == <<25, 5>>
yypact == <<-9, -9, YYFLAG, YYFLAG, -9, 34, YYFLAG, 11, -9, -9, -9, -9, -9, -9,
            -9, YYFLAG, 24, 39, 43, 16, 26, -3, YYFLAG, -9, 34, 21, 53, YYFLAG>>
yypgoto == <<YYFLAG, -1>>
yytable == <<6, 1, 2, 7, 3, 4, 14, 16, 17, 18, 19, 20, 21, 22, 8, 9, 10, 11,
             12, 13, 14, 26, 24, 12, 13, 14, 15, 8, 9, 10, 11, 12, 13, 14, 13,
             14, 23, 8, 9, 10, 11, 12, 13, 14, 10, 11, 12, 13, 14, 11, 12, 13,
             14, 27>>
yycheck == <<1, 10, 11, 4, 13, 14, 9, 8, 9, 10, 11, 12, 13, 14, 3, 4, 5, 6, 7,
             8, 9, 0, 23, 7, 8, 9, 15, 3, 4, 5, 6, 7, 8, 9, 8, 9, 12, 3, 4, 5,
             6, 7, 8, 9, 5, 6, 7, 8, 9, 6, 7, 8, 9, 0>>

Empty == Lexed(-2, 0)
Top   == Last(yyss)

(* What the packed table has for a state's row at column col, or 0. *)
Entry(base, col) ==
  LET at == base + col
  IN IF base # YYFLAG /\ at \in 0..YYLAST /\ yycheck[at + 1] = col
       THEN yytable[at + 1] ELSE 0

(* Mutant of Goto: the default state of the left side, always. *)
GotoDefault(state, rule) == yydefgoto[yyr1[rule + 1] - YYNTBASE + 1]

(* The state after a rule's left side has been put on top of state. *)
Goto(state, rule) ==
  LET lhs == yyr1[rule + 1] - YYNTBASE + 1
      at  == yypgoto[lhs] + state
  IN IF at \in 0..YYLAST /\ yycheck[at + 1] = state
       THEN yytable[at + 1] ELSE yydefgoto[lhs]

PluralInit ==
  /\ yyss = <<0>> /\ yyvs = <<ExpValue(NoExp)>>   \* the first value is a waste
  /\ stacksize = YYINITDEPTH
  /\ lookahead = Empty /\ tokens = <<>>
  /\ live = 0 /\ starved = FALSE /\ res = NoExp /\ yyresult = -1

Yyreturn(value) ==
  /\ yyresult' = value
  /\ UNCHANGED <<yyss, yyvs, stacksize>>

(* yynewstate: state and value are pushed; full stacks are doubled, up to    *)
(* their limit, or the parser gives up.                                      *)
Push(states, values, state, value) ==
  LET grown == IF 2 * stacksize > YYMAXDEPTH THEN YYMAXDEPTH ELSE 2 * stacksize
      used  == Len(states) + 1
      full  == used >= stacksize
  IN /\ yyss' = Append(states, state)
     /\ yyvs' = Append(values, value)
     /\ stacksize' = IF full /\ stacksize < YYMAXDEPTH THEN grown ELSE stacksize
     /\ yyresult' = IF ~ full THEN yyresult
                    ELSE IF stacksize >= YYMAXDEPTH THEN 2
                    ELSE IF used >= grown THEN 1 ELSE yyresult

(* yybackup: states whose row is empty act without a token, the others read  *)
(* one when they have none.                                                  *)
NeedsToken == yypact[Top + 1] # YYFLAG /\ lookahead = Empty
ReadToken(lexeme) ==
  /\ yyresult = -1 /\ NeedsToken
  /\ Len(tokens) < MaxTokens \/ lexeme = <<";">>
  /\ lookahead' = Yylex(<<" ">> \o lexeme \o <<" ", "NUL">>).token
  /\ tokens' = Append(tokens, lookahead')
  /\ UNCHANGED <<yyss, yyvs, stacksize, live, starved, res, yyresult>>

Ready  == yyresult = -1 /\ ~ NeedsToken
Action == Entry(yypact[Top + 1], lookahead.tok)
Rule   == yydefact[Top + 1]

Shift ==
  /\ Ready /\ Action \notin {0, YYFINAL}
  /\ Push(yyss, yyvs, Action, ValueOf(lookahead))
  /\ lookahead' = IF lookahead.tok = Token.eof THEN lookahead ELSE Empty
  /\ UNCHANGED <<tokens, live, starved, res>>

Accept ==
  /\ Ready /\ Action = YYFINAL
  /\ Yyreturn(0)
  /\ UNCHANGED <<lookahead, tokens, live, starved, res>>

(* Mutant of NewExp: the arguments are not freed. *)
NewExpLeaky(node, value) ==
  \/ /\ \A k \in DOMAIN node.args : node.args[k] # NoExp
     /\ value = node /\ live' = live + 1 /\ UNCHANGED starved
  \/ value = NoExp /\ live' = live /\ starved' = TRUE

(* new_exp: without one of its arguments, or without memory for itself, an   *)
(* expression frees the arguments it has.                                    *)
NewExp(node, value) ==
  LET args    == node.args
      failing == \E k \in DOMAIN args : args[k] = NoExp
      freed   == Total([k \in DOMAIN args |-> SizeOf(args[k])])
  IN \/ /\ ~ failing
        /\ value = node /\ live' = live + 1 /\ UNCHANGED starved
     \/ /\ value = NoExp /\ live' = live - freed /\ starved' = TRUE

(* The right side of the rule that is reduced: $1 is Value(1). *)
Rhs      == yyr2[Rule + 1]
Value(k) == yyvs[Len(yyvs) - Rhs + k].exp
Lval(k)  == yyvs[Len(yyvs) - Rhs + k].lval
NodeOf   ==   \* the node the rule's action asks for
  CASE Rule = 2       -> Node("?", <<Value(1), Value(3), Value(5)>>, 0)
    [] Rule = 3       -> Node("||", <<Value(1), Value(3)>>, 0)
    [] Rule = 4       -> Node("&&", <<Value(1), Value(3)>>, 0)
    [] Rule \in 5..8  -> Node(Lval(2), <<Value(1), Value(3)>>, 0)
    [] Rule = 9       -> Node("!", <<Value(2)>>, 0)
    [] Rule = 10      -> Node("n", <<>>, 0)
    [] Rule = 11      -> Node("num", <<>>, Lval(1))

Reduced(value) ==
  LET states == SubSeq(yyss, 1, Len(yyss) - Rhs)
  IN Push(states, SubSeq(yyvs, 1, Len(yyvs) - Rhs),
          Goto(Last(states), Rule), ExpValue(value))

Reduces == Ready /\ Action = 0 /\ Rule # 0
ReduceNode ==
  /\ Reduces /\ Rule \in 2..11
  /\ \E value \in {NodeOf, NoExp} : NewExp(NodeOf, value) /\ Reduced(value)
  /\ UNCHANGED <<lookahead, tokens, res>>

ReduceParentheses ==
  /\ Reduces /\ Rule = 12
  /\ Reduced(Value(2))
  /\ UNCHANGED <<lookahead, tokens, live, starved, res>>

ReduceStart ==
  /\ Reduces /\ Rule = 1
  /\ IF Value(1) = NoExp
       THEN Yyreturn(1) /\ UNCHANGED res
       ELSE Reduced(Value(1)) /\ res' = Value(1)
  /\ UNCHANGED <<lookahead, tokens, live, starved>>

(* yyerrlab: states are popped until one could shift the error token; there  *)
(* is none in these tables. What was on the stack is not freed.              *)
Recovers(state) == Entry(yypact[state + 1], Token.error) # 0
Error ==
  /\ Ready /\ Action = 0 /\ Rule = 0
  /\ \A k \in DOMAIN yyss : ~ Recovers(yyss[k])
  /\ Yyreturn(1)
  /\ UNCHANGED <<lookahead, tokens, live, starved, res>>

PluralNext ==
  \/ \E lexeme \in Lexemes \cup {<<";">>} : ReadToken(lexeme)
  \/ Shift \/ Accept \/ ReduceNode \/ ReduceParentheses \/ ReduceStart \/ Error

PluralSpec == PluralInit /\ [][PluralNext]_pluralVars

-----------------------------------------------------------------------------
(* EXTRACT_PLURAL_EXPRESSION with the header's two fields: the germanic rule *)
(* and its two forms unless both are there and the formula parses.           *)
Germanic == Node("!=", <<Node("n", <<>>, 0), Node("num", <<>>, 1)>>, 0)
Extracted(hasPlural, nplurals) ==
  IF hasPlural /\ nplurals # -1 /\ yyresult = 0
    THEN [exp |-> res, nplurals |-> nplurals]
    ELSE [exp |-> Germanic, nplurals |-> 2]

(* plural_eval in the arithmetic of unsigned long; a division by zero ends   *)
(* the program (SIGFPE).                                                     *)
SIGFPE == -1
Bool(b) == IF b THEN 1 ELSE 0
Binary(op, l, r) ==
  CASE op = "*" -> (l * r) % ULong
    [] op = "/" -> IF r = 0 THEN SIGFPE ELSE l \div r
    [] op = "%" -> IF r = 0 THEN SIGFPE ELSE l % r
    [] op = "+" -> (l + r) % ULong     [] op = "-" -> (l - r) % ULong
    [] op = "<" -> Bool(l < r)         [] op = ">" -> Bool(l > r)
    [] op = "<=" -> Bool(l <= r)       [] op = ">=" -> Bool(l >= r)
    [] op = "==" -> Bool(l = r)        [] op = "!=" -> Bool(l # r)

RECURSIVE PluralEval(_, _)
PluralEval(exp, n) ==
  IF exp.op = "n" THEN n
  ELSE IF exp.op = "num" THEN exp.num
  ELSE LET first == PluralEval(exp.args[1], n)
           second == PluralEval(exp.args[2], n)
       IN CASE first = SIGFPE -> SIGFPE
            [] exp.op = "!"   -> Bool(first = 0)
            [] exp.op = "||"  -> IF first # 0 THEN 1
                                 ELSE IF second = SIGFPE THEN SIGFPE
                                 ELSE Bool(second # 0)
            [] exp.op = "&&"  -> IF first = 0 THEN 0
                                 ELSE IF second = SIGFPE THEN SIGFPE
                                 ELSE Bool(second # 0)
            [] exp.op = "?"   -> IF first # 0 THEN second
                                 ELSE PluralEval(exp.args[3], n)
            [] OTHER          -> IF second = SIGFPE THEN SIGFPE
                                 ELSE Binary(exp.op, first, second)

-----------------------------------------------------------------------------
(* The grammar of plural.y read from the outside in: a text is split at the  *)
(* operator that binds least, the last one of the left-associative ones.     *)
Depth(toks, k) ==   \* how many parentheses are open before the k-th token
  Cardinality({j \in 1..(k - 1) : toks[j].tok = Token.open})
    - Cardinality({j \in 1..(k - 1) : toks[j].tok = Token.close})
Open(toks, k) ==    \* how many question marks wait for their colon
  Cardinality({j \in 1..(k - 1) : toks[j].tok = Token.qm /\ Depth(toks, j) = 0})
    - Cardinality({j \in 1..(k - 1) : toks[j].tok = Token.colon /\ Depth(toks, j) = 0})
At(toks, tok) ==    \* where a token stands outside parentheses
  {k \in DOMAIN toks : toks[k].tok = tok /\ Depth(toks, k) = 0}
Before(toks, k) == SubSeq(toks, 1, k - 1)
After(toks, k)  == SubSeq(toks, k + 1, Len(toks))

Levels == <<Token.bar, Token.amp, Token.equop, Token.cmpop, Token.addop,
            Token.mulop>>
OperatorOf(token) ==
  IF token.tok = Token.bar THEN "||"
  ELSE IF token.tok = Token.amp THEN "&&" ELSE token.lval

RECURSIVE FormulaTree(_)
FormulaTree(toks) ==
  LET len    == Len(toks)
      colons == {k \in At(toks, Token.colon) : Open(toks, k) = 1}
      levels == {v \in DOMAIN Levels : At(toks, Levels[v]) # {}}
      split  == Max(At(toks, Levels[Min(levels)]))
      Both(op, parts) ==
        LET trees == [k \in DOMAIN parts |-> FormulaTree(parts[k])]
        IN IF \E k \in DOMAIN trees : trees[k] = NoExp THEN NoExp
           ELSE Node(op, trees, 0)
  IN CASE len = 0 -> NoExp
       [] At(toks, Token.qm) # {} ->
            IF colons = {} THEN NoExp
            ELSE LET q == Min(At(toks, Token.qm))
                     c == Min({k \in colons : k > q} \cup {len + 1})
                 IN IF c > len THEN NoExp
                    ELSE Both("?", <<Before(toks, q), SubSeq(toks, q + 1, c - 1),
                                     After(toks, c)>>)
       [] At(toks, Token.qm) = {} /\ levels # {} ->
            Both(OperatorOf(toks[split]), <<Before(toks, split), After(toks, split)>>)
       [] At(toks, Token.qm) = {} /\ levels = {} /\ toks[1].tok = Token.bang ->
            Both("!", <<Tail(toks)>>)
       [] len = 1 /\ toks[1].tok = Token.var -> Node("n", <<>>, 0)
       [] len = 1 /\ toks[1].tok = Token.number -> Node("num", <<>>, toks[1].lval)
       [] len > 2 /\ toks[1].tok = Token.open /\ toks[len].tok = Token.close
            /\ \A k \in 2..len : Depth(toks, k) > 0 ->
            FormulaTree(SubSeq(toks, 2, len - 1))
       [] OTHER -> NoExp

(* The generated tables implement the grammar and C's precedences: a formula *)
(* is accepted only as the tree a reader of C would give it, and one that is *)
(* in the grammar is accepted as long as there is memory and stack.          *)
ParserFollowsGrammar ==
  LET formula == SelectSeq(tokens, LAMBDA t : t.tok # Token.eof)
  IN /\ yyresult = 0 => res = FormulaTree(formula) /\ res # NoExp
     /\ (yyresult = 1 /\ ~ starved /\ Len(yyss) < stacksize)
          => FormulaTree(formula) = NoExp

(* Every node is in exactly one place, on the stack or in the result, also   *)
(* when an allocation in the middle of a formula fails and new_exp frees     *)
(* what it was given: none is lost and none is freed twice. (Nodes on the    *)
(* stack of a parser that gives up on a syntax error are never freed.)       *)
ExpressionsAreAccounted ==
  /\ live = Total([k \in DOMAIN yyvs |-> SizeOf(yyvs[k].exp)])
  /\ yyresult = 0 => live = SizeOf(res)

(* Whatever is missing or wrong in a header, the rule and the number of      *)
(* forms that are used instead belong together (plural-exp.c:145: singular   *)
(* for one, plural otherwise); a formula is used with its own number.        *)
FallbackIsGermanic ==
  yyresult # -1 =>
    \A hasPlural \in BOOLEAN, nplurals \in {-1, 1, 3} :
      LET e == Extracted(hasPlural, nplurals)
      IN IF e.nplurals = nplurals
           THEN hasPlural /\ yyresult = 0 /\ e.exp = res
           ELSE \A n \in 0..ULong - 1 :
                  /\ PluralEval(e.exp, n) = IF n = 1 THEN 0 ELSE 1
                  /\ PluralEval(e.exp, n) < e.nplurals

(* A formula counts for what it says, and any other header for the rule and  *)
(* the two forms of English: a formula is parsed as the grammar has it, and  *)
(* never used with the number of forms of something else.                    *)
PluralRuleIsRight == ParserFollowsGrammar /\ FallbackIsGermanic
=============================================================================
