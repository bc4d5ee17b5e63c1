------------------------------- MODULE MCIntl -------------------------------
(***************************************************************************)
(* The message functions of intl/: what a program keeps between calls, a   *)
(* catalog file, the aliases of locale names, plural expressions and       *)
(* format strings. They share no state here; a behaviour is about one.     *)
(***************************************************************************)
EXTENDS MCFormats, Gettext, CatalogFile, LocaleAlias

(* Gettext: names with a territory and a codeset, with a modifier, an alias, *)
(* and one with a directory; a catalog that lacks a message its fallback     *)
(* has, and one in a directory relative to the working directory.            *)
MCTokens == <<"+", ",", "-", ".", ".mo", "/", "8", "@", "C", "DE", "LC_MESSAGES",
              "POSIX", "UTF", "_", "app", "cwd", "de", "deutsch", "iso", "latin",
              "messages", "po", "sr", "usr", "utf", "x">>
MCLower == [w \in {"de", "DE", "sr", "latin", "UTF", "x", "deutsch"} |->
              CASE w = "DE" -> "de" [] w = "UTF" -> "utf" [] OTHER -> w]
MCAliases == <<"deutsch">> :> <<"de", "_", "DE">>
App    == <<"app">>
Usr    == <<"/", "usr">>
CwdDir == <<"/", "cwd">>
PoDir  == <<"/", "cwd", "/", "po">>
InDir(dir, name, d) ==
  dir \o <<"/">> \o name \o <<"/", "LC_MESSAGES", "/">> \o d \o <<".mo">>
Contents(charset, messages, plural) ==
  [charset |-> charset, messages |-> messages, nplurals |-> 2, plural |-> plural]
Usual == (1 :> 0) @@ (2 :> 1)
MCCatalogs ==
  InDir(Usr, <<"de", "_", "DE">>, Default) :> Contents(NULL, "a" :> 2, Usual)
  @@ InDir(Usr, <<"de">>, Default)
       :> Contents("latin1", ("a" :> 1) @@ ("b" :> 2), (1 :> 0) @@ (2 :> 3))
  @@ InDir(Usr, <<"sr", "@", "latin">>, Default) :> Contents(NULL, "b" :> 1, Usual)
  @@ InDir(PoDir, <<"de">>, App) :> Contents("latin1", "b" :> 2, Usual)
U8  == <<"UTF", "-", "8">>
DeU == <<"de", "_", "DE", ".">> \o U8
(* The same with a catalog under the normalized name of its codeset.         *)
MCCatalogsUtf8 ==
  InDir(Usr, <<"de", "_", "DE", ".", "utf", "8">>, Default)
    :> Contents("latin1", ("a" :> 1) @@ ("b" :> 1), Usual) @@ MCCatalogs
Xpg(l, t, c, n, m) ==
  [language |-> l, territory |-> t, codeset |-> c, normalized |-> n, modifier |-> m]
DeDe == Xpg(<<"de">>, <<"DE">>, <<>>, <<>>, <<>>)
MCXpg ==
  DeU :> Xpg(<<"de">>, <<"DE">>, U8, <<"utf", "8">>, <<>>)
  @@ <<"deutsch">> :> DeDe @@ <<"de", "_", "DE">> :> DeDe
  @@ <<"de">> :> Xpg(<<"de">>, <<>>, <<>>, <<>>, <<>>)
  @@ <<"sr", "@", "latin">> :> Xpg(<<"sr">>, <<>>, <<>>, <<>>, <<"latin">>)
Env(LANGUAGE, LC_ALL, LC_MESSAGES, LANG, secure) ==
  [LANGUAGE |-> LANGUAGE, LC_ALL |-> LC_ALL, LC_MESSAGES |-> LC_MESSAGES,
   LANG |-> LANG, secure |-> secure]
MCEnvironments ==
  { Env(<<>>, <<>>, <<>>, DeU, FALSE),
    Env(<< <<"/", "x">>, <<>>, <<"sr", "@", "latin">>, <<"deutsch">>, <<"POSIX">>,
           <<"de">> >>, <<>>, <<"de">>, <<>>, TRUE) }
MCConvertible == {<<"latin1", "utf8">>, <<"latin1", "koi">>}
MCDomains  == {App}
MCDirnames == (App :> {<<"po">>}) @@ (Default :> {})
MCCodesets == (App :> {}) @@ (Default :> {"koi"})
(* Two changes of the settings, or one and a shortage of memory.             *)
MCMaxChanges == ("enough" :> 2) @@ ("may lack" :> 1)
NoChanges    == "enough" :> 0

(* Catalog files: with and without a hash table, in both byte orders, with   *)
(* system dependent strings that are whole, undefined or broken, and files   *)
(* that are none.                                                            *)
Seg(static, ref) == [static |-> static, ref |-> ref]
MCSegmentValues == ("PRId64" :> <<12, 4>>) @@ ("I" :> <<>>)
MCSegments == <<[name |-> "PRId64", ended |-> TRUE], [name |-> "PRIu128", ended |-> TRUE],
                [name |-> "I", ended |-> TRUE]>>
WholePair  == <<  <<Seg(<<15>>, 0), Seg(<<9, 0>>, -1)>>, <<Seg(<<1>>, 2), Seg(<<2, 0>>, -1)>> >>
SinglePair == << <<Seg(<<15, 15, 31, 7, 0>>, -1)>>, <<Seg(<<>>, 0), Seg(<<0>>, -1)>> >>
UndefPair  == << <<Seg(<<14>>, 1), Seg(<<9>>, 7), Seg(<<0>>, -1)>>, <<Seg(<<1, 0>>, -1)>> >>
UndefTrans == << <<Seg(<<13, 0>>, -1)>>, <<Seg(<<>>, 1), Seg(<<0>>, -1)>> >>
BrokenPairs == << WholePair, << <<Seg(<<13, 0>>, -1)>>, <<Seg(<<1>>, 3), Seg(<<0>>, -1)>> >> >>
Msgids1 == << <<0>>, <<15, 0>>, <<15, 15, 0, 16, 0>>, <<15, 15, 31, 0>> >>
MCMoFiles ==
  LET Mo(magic, major, minor, size, n, sysdep) ==
        [ short |-> FALSE, size |-> 2, magic |-> magic, major |-> major, minor |-> minor,
          hash_size |-> size, orig |-> SubSeq(Msgids1, 1, n),
          trans |-> [k \in 1..n |-> <<k, 0>>], segments |-> MCSegments, sysdep |-> sysdep ]
      plain == {Mo(magic, 0, 0, size, n, <<>>) :
                  magic \in {"native", "swapped"}, size \in {0, 7}, n \in {0, 1, 3, 4}}
      pairs == {<<>>, <<WholePair>>, <<UndefPair>>, <<UndefTrans, SinglePair, WholePair>>,
                <<WholePair, UndefPair, SinglePair>>, BrokenPairs}
      sys   == {Mo(magic, 1, minor, size, n, sysdep) :
                  magic \in {"native", "swapped"}, minor \in {1, 2}, size \in {5, 7, 11},
                  n \in {1, 2}, sysdep \in pairs} 
      none  == { Mo("wrong", 0, 0, 7, 1, <<>>), Mo("native", 2, 0, 7, 1, <<>>),
                 Mo("native", 0, 1, 0, 1, <<WholePair>>),
                 [Mo("native", 0, 0, 7, 1, <<>>) EXCEPT !.short = TRUE],
                 [Mo("swapped", 0, 1, 7, 1, <<WholePair>>) EXCEPT !.segments[3].ended = FALSE] }
  IN plain \cup none \cup {m \in sys : m.hash_size > Len(m.orig) + Len(m.sysdep)}
MCAsked == {<<>>, <<15>>, <<15, 15>>, <<15, 15, 31>>, <<15, 12, 4, 9>>, <<15, 15, 31, 7>>,
            <<14, 9>>, <<13>>, <<16>>}

(* Alias files whose lines are well apart, in which every second line is a   *)
(* comment or the end, and one that has nothing but aliases.                 *)
MCWordRank == ("german" :> 1) @@ ("GERMAN" :> 1) @@ ("french" :> 0) @@ ("turkish" :> 2)
              @@ ("de_DE" :> 3) @@ ("fr_FR" :> 4) @@ ("tr_TR" :> 5) @@ ("klingon" :> 6)
MCWordLength == [w \in DOMAIN MCWordRank |-> 7]
Spaced ==
  ("etc" :> << AliasLine("turkish", "tr_TR", 1, TRUE), AliasLine("german", "de_DE", 0, TRUE),
               Comment(0), Comment(2), AliasLine("klingon", NoAlias, 0, TRUE), Comment(0) >>)
  @@ ("share" :> << Comment(0), AliasLine("french", "fr_FR", 0, TRUE), Comment(0),
                    AliasLine("GERMAN", "de_DE", 0, FALSE) >>)
  @@ ("local" :> << AliasLine("klingon", NoAlias, 0, TRUE), Comment(0) >>)
Dense == "etc" :> << AliasLine("turkish", "tr_TR", 0, TRUE),
                     AliasLine("german", "de_DE", 0, TRUE) >>
MCAliasPaths == { <<>>, <<"etc">>, <<"local", "none", "share", "etc">>, <<"etc", "share">> }
MCLookedUp == {"german", "GERMAN", "french", "turkish", "klingon"}

-----------------------------------------------------------------------------
CONSTANT Subjects   \* which of them, to look at one alone
VARIABLE subject
intlVars == <<subject, pluralVars, printfVars, gettextVars, catalogVars, aliasVars>>

(* What a behaviour is not about stays as one initial state.                 *)
Only(name, resting) == IF subject = name THEN TRUE ELSE resting
IntlInit ==
  /\ subject \in Subjects
  /\ Only("printf", /\ format = [dirs |-> <<>>, tail |-> 0]
                    /\ caller = "vfprintf" /\ libc = "c99")
  /\ Only("gettext", env = (CHOOSE e \in Environments : ~ e.secure) /\ memory = "enough")
  /\ Only("catalog", mofile = CHOOSE m \in MoFiles : m.short)
  /\ Only("alias", path = <<>>)
  /\ PluralInit /\ PrintfInit /\ GettextInit /\ CatalogInit /\ AliasInit

OfPlural(A)  == /\ subject = "plural" /\ A
                /\ UNCHANGED <<subject, printfVars, gettextVars, catalogVars, aliasVars>>
OfPrintf(A)  == /\ subject = "printf" /\ A
                /\ UNCHANGED <<subject, pluralVars, gettextVars, catalogVars, aliasVars>>
OfGettext(A) == /\ subject = "gettext" /\ A
                /\ UNCHANGED <<subject, pluralVars, printfVars, catalogVars, aliasVars>>
OfCatalog(A) == /\ subject = "catalog" /\ A
                /\ UNCHANGED <<subject, pluralVars, printfVars, gettextVars, aliasVars>>
OfAlias(A)   == /\ subject = "alias" /\ A
                /\ UNCHANGED <<subject, pluralVars, printfVars, gettextVars, catalogVars>>
IntlNext == \/ OfPlural(PluralNext)   \/ OfPrintf(PrintfNext) \/ OfGettext(GettextNext)
            \/ OfCatalog(CatalogNext) \/ OfAlias(AliasNext)
IntlSpec == IntlInit /\ [][IntlNext]_intlVars /\ WF_intlVars(OfPrintf(PrintfNext))

(* The attempts to format one directive end, with every kind of snprintf.    *)
FormattingEnds == subject = "printf" => <>(stage = "done")
=============================================================================
