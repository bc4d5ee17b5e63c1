---------------------------- MODULE MessageLookup ----------------------------
(***************************************************************************)
(* What the message functions promise: the translation of a message comes  *)
(* from the most specific catalog that has it, in the first language that  *)
(* has one, in the codeset that is bound. There is no cache here and no    *)
(* list of files; only the program's own settings are state, and which    *)
(* environments a call may still go by. Gettext.tla implements it.         *)
(***************************************************************************)
EXTENDS Integers, Sequences, SequencesExt, FiniteSetsExt

CONSTANTS
  AllDomains, Default, Dirnames, DefaultDirname, Cwd, Codesets, LocaleCharset,
  Convertible, Environments, Msgids, Numbers, Catalogs, NULL,
  XpgNames    \* locale name -> [language, territory, codeset, normalized,
              \* modifier], each a sequence of words, empty if it has none

VARIABLES bound, current, env, seen, lacking, answer

lookupVars == <<bound, current, env, seen, lacking, answer>>
NoAnswer == [kind |-> "none"]

LookupInit ==
  /\ bound = [d \in AllDomains |-> [dirname |-> DefaultDirname, codeset |-> NULL]]
  /\ current = Default /\ env \in Environments /\ seen = {env}
  /\ lacking = FALSE /\ answer = NoAnswer

Bind == /\ \E d \in AllDomains :
             \/ \E dir \in Dirnames[d] : bound' = [bound EXCEPT ![d].dirname = dir]
             \/ \E c \in Codesets[d] : bound' = [bound EXCEPT ![d].codeset = c]
        /\ seen' \in {seen, {env}} /\ (bound' # bound => seen' = {env})
        /\ answer' = NoAnswer /\ UNCHANGED <<current, env, lacking>>
Choose == /\ \E d \in AllDomains : current' = d
          /\ seen' \in {seen, {env}} /\ (current' # current => seen' = {env})
          /\ answer' = NoAnswer /\ UNCHANGED <<bound, env, lacking>>
Change == /\ env' \in Environments /\ seen' = seen \cup {env'}
          /\ answer' = NoAnswer /\ UNCHANGED <<bound, current, lacking>>

(* LC_ALL, else LC_MESSAGES, else LANG, else C; LANGUAGE goes before them if *)
(* that is not C. *)
Setting(e) == IF e.LC_ALL # <<>> THEN e.LC_ALL
              ELSE IF e.LC_MESSAGES # <<>> THEN e.LC_MESSAGES
              ELSE IF e.LANG # <<>> THEN e.LANG ELSE <<"C">>
Wanted(e) == IF Setting(e) = <<"C">> \/ e.LANGUAGE = <<>> THEN <<Setting(e)>>
             ELSE e.LANGUAGE
Skipped(e, locale) == locale = <<>> \/ (e.secure /\ Contains(locale, "/"))
Untranslatable == {<<"C">>, <<"POSIX">>}
(* The k-th wanted language is reached: there is no C before it.             *)
Reached(e, k) ==
  /\ ~ Skipped(e, Wanted(e)[k])
  /\ \A j \in 1..k : Skipped(e, Wanted(e)[j]) \/ Wanted(e)[j] \notin Untranslatable

(* The catalogs of a locale: the codeset, its normalized form, the territory *)
(* and the modifier are left out in this order until one is found.           *)
Catalog(dir, name, keep, d) ==
  dir \o <<"/">> \o name.language
      \o (IF keep.t THEN <<"_">> \o name.territory ELSE <<>>)
      \o (CASE keep.c = 2 -> <<".">> \o name.codeset
            [] keep.c = 1 -> <<".">> \o name.normalized
            [] keep.c = 0 -> <<>>)
      \o (IF keep.m THEN <<"@">> \o name.modifier ELSE <<>>)
      \o <<"/", "LC_MESSAGES", "/">> \o d \o <<".mo">>
Kept(name) == [m : {FALSE, name.modifier # <<>>}, t : {FALSE, name.territory # <<>>},
               c : {0} \cup (IF name.codeset = <<>> THEN {} ELSE {1, 2})]
Worth(keep) == (IF keep.m THEN 6 ELSE 0) + (IF keep.t THEN 3 ELSE 0) + keep.c
Having(dir, name, d, msgid) ==
  {keep \in Kept(name) : /\ Catalog(dir, name, keep, d) \in DOMAIN Catalogs
                         /\ msgid \in DOMAIN Catalogs[Catalog(dir, name, keep, d)].messages}

(* The catalog that ought to be used, and what is in it. *)
Directory(d) == IF Head(bound[d].dirname) = "/" THEN bound[d].dirname
                ELSE Cwd \o <<"/">> \o bound[d].dirname
Ideal(e, d, msgid) ==
  LET has(k) == Having(Directory(d), XpgNames[Wanted(e)[k]], d, msgid)
      good   == {k \in DOMAIN Wanted(e) : Reached(e, k) /\ has(k) # {}}
      best   == CHOOSE keep \in has(Min(good)) :
                  \A other \in has(Min(good)) : Worth(keep) >= Worth(other)
  IN IF good = {} THEN NULL
     ELSE Catalog(Directory(d), XpgNames[Wanted(e)[Min(good)]], best, d)
InCodeset(catalog, d) ==
  LET from == Catalogs[catalog].charset
      to   == IF bound[d].codeset = NULL THEN LocaleCharset ELSE bound[d].codeset
  IN IF <<from, to>> \in Convertible THEN to ELSE from
Form(catalog, msgid, n) ==
  LET index == Catalogs[catalog].plural[n]
  IN IF index < Min({Catalogs[catalog].nplurals, Catalogs[catalog].messages[msgid]})
       THEN index ELSE 0
Reply(e, d, msgid, n, codeset) ==
  LET catalog == Ideal(e, d, msgid)
  IN IF catalog = NULL
       THEN [kind |-> "untranslated", msgid |-> msgid, one |-> n = 1]
       ELSE [kind |-> "text", n |-> n, variant |-> Form(catalog, msgid, n),
             text |-> [catalog |-> catalog, msgid |-> msgid,
                       codeset |-> IF codeset THEN InCodeset(catalog, d)
                                   ELSE Catalogs[catalog].charset]]

(* A reply by any environment that was in force since the last setting, not  *)
(* converted only if memory was lacking.                                     *)
GetText ==
  /\ lacking' \in {lacking, TRUE}
  /\ \E e \in seen, msgid \in Msgids, n \in Numbers :
       \/ answer' = Reply(e, current, msgid, n, TRUE)
       \/ lacking' /\ answer' = Reply(e, current, msgid, n, FALSE)
       \/ /\ Head(bound[current].dirname) # "/"    \* relative to nowhere
          /\ answer' = [kind |-> "untranslated", msgid |-> msgid, one |-> n = 1]
  /\ UNCHANGED <<bound, current, env, seen>>

LookupNext == Bind \/ Choose \/ Change \/ GetText
LookupSpec == LookupInit /\ [][LookupNext]_lookupVars
=============================================================================
