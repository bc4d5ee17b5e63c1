------------------------------- MODULE Gettext -------------------------------
(***************************************************************************)
(* What the message functions of intl/ keep between calls and how they use *)
(* it: bindtextdom.c, textdomain.c, dcigettext.c and the converter part of *)
(* loadmsgcat.c. One action per call of a program; the environment may     *)
(* change in between, which no function notices. The functions are built   *)
(* with tsearch and iconv, and without threads.                            *)
(***************************************************************************)
EXTENDS MessageDomains

CONSTANTS
  TextDomains,     \* names of domains, other than the default one
  Dirnames,        \* domain -> directories a program binds to it, as names
  DefaultDirname,  \* _nl_default_dirname
  Cwd,             \* the working directory
  Codesets,        \* domain -> codesets a program binds to it
  Environments,    \* [LANGUAGE, LC_ALL, LC_MESSAGES, LANG, secure]
  Msgids, Numbers, \* what is asked for
  XpgNames,        \* locale name -> its parts, as a reader of it sees them
  MaxChanges       \* bounds on _nl_msg_cat_cntr, by what memory is at first

Default == <<"messages">>
AllDomains == TextDomains \cup {Default}

ASSUME GettextConstants ==
  /\ {"messages", "LC_MESSAGES", ".mo", "C"} \subseteq NamePart
  /\ TextDomains \cup {DefaultDirname, Cwd} \subseteq Name
  /\ \A domain \in AllDomains : Dirnames[domain] \subseteq Name
  /\ Environments \subseteq [ LANGUAGE : Seq(Name), LC_ALL : Name, LC_MESSAGES : Name,
                              LANG : Name, secure : BOOLEAN ]

VARIABLES
  bindings,      \* _nl_domain_bindings, sorted
  current,       \* _nl_current_default_domain
  msg_cat_cntr,  \* _nl_msg_cat_cntr
  loaded,        \* _nl_loaded_domains
  known,         \* the tree of known translations
  env,           \* the environment (external)
  seen,          \* every environment since msg_cat_cntr was changed
  memory,        \* "enough", "may lack" once in the search, or "lacked"
  answer         \* the last call and what it returned

gettextVars == <<bindings, current, msg_cat_cntr, loaded, known, env, seen,
                 memory, answer>>
NoAnswer == [kind |-> "none"]
Untranslated(msgid, n) == [kind |-> "untranslated", msgid |-> msgid, one |-> n = 1]

GettextInit ==
  /\ bindings = <<>> /\ current = Default /\ msg_cat_cntr = 0
  /\ loaded = <<>> /\ known = << >>
  /\ env \in Environments /\ seen = {env}
  /\ memory \in DOMAIN MaxChanges /\ answer = NoAnswer

(* The caches are flushed. *)
FlushesLeft == MaxChanges[IF memory = "enough" THEN memory ELSE "may lack"] - msg_cat_cntr
Flush == /\ FlushesLeft > 0
         /\ msg_cat_cntr' = msg_cat_cntr + 1 /\ seen' = {env}

-----------------------------------------------------------------------------
(* set_binding_values. The list is sorted with the smallest name first.      *)
BindingPlace(domain) ==
  Min({k \in DOMAIN bindings : ~ Precedes(bindings[k].domainname, domain)}
      \cup {Len(bindings) + 1})
IsBound(domain) ==
  LET k == BindingPlace(domain)
  IN k <= Len(bindings) /\ bindings[k].domainname = domain
BindingOf(domain) ==
  IF IsBound(domain) THEN bindings[BindingPlace(domain)]
  ELSE [domainname |-> domain, dirname |-> DefaultDirname, codeset |-> NULL,
        codeset_cntr |-> 0]

ChangeBinding(domain, binding) ==
  LET k == BindingPlace(domain)
  IN IF binding = BindingOf(domain) /\ IsBound(domain)
       THEN UNCHANGED <<bindings, msg_cat_cntr, seen>>
       ELSE /\ bindings' = IF IsBound(domain) THEN [bindings EXCEPT ![k] = binding]
                           ELSE InsertAt(bindings, k, binding)
            /\ Flush

(* bindtextdomain. Nothing changes when the memory for it is not there.      *)
BindTextDomain(domain, dirname) ==
  /\ \/ ChangeBinding(domain, [BindingOf(domain) EXCEPT !.dirname = dirname])
     \/ /\ dirname # DefaultDirname \/ ~ IsBound(domain)
        /\ UNCHANGED <<bindings, msg_cat_cntr, seen>>
  /\ answer' = NoAnswer
  /\ UNCHANGED <<current, loaded, known, env, memory>>

(* bind_textdomain_codeset: a new codeset is a new number.                   *)
NewCodeset(binding, codeset) ==
  IF binding.codeset = codeset THEN binding
  ELSE [binding EXCEPT !.codeset = codeset, !.codeset_cntr = @ + 1]
BindTextDomainCodeset(domain, codeset) ==
  /\ \/ ChangeBinding(domain, NewCodeset(BindingOf(domain), codeset))
     \/ UNCHANGED <<bindings, msg_cat_cntr, seen>>
  /\ answer' = NoAnswer
  /\ UNCHANGED <<current, loaded, known, env, memory>>

(* textdomain: also a call that changes nothing flushes the caches.          *)
TextDomain(domain) ==
  /\ \/ current' = domain /\ Flush
     \/ domain \notin {Default, current} /\ UNCHANGED <<current, msg_cat_cntr, seen>>
  /\ answer' = NoAnswer
  /\ UNCHANGED <<bindings, loaded, known, env, memory>>

(* The program calls setenv or setlocale.                                    *)
ChangeEnvironment ==
  /\ env' \in Environments \ {env}
  /\ seen' = seen \cup {env'} /\ answer' = NoAnswer
  /\ UNCHANGED <<bindings, current, msg_cat_cntr, loaded, known, memory>>

-----------------------------------------------------------------------------
(* _nl_find_msg for a message that is in the catalog, after a change of the  *)
(* codeset with a new converter. short is what there is no memory for:       *)
(* "table", the text's "block", the "entry" for it among the known           *)
(* translations, or "". How a message is found in the tables is in           *)
(* CatalogFile.tla.                                                          *)
Refreshed(data, filename, binding) ==
  IF data.codeset_cntr = binding.codeset_cntr THEN data
  ELSE InitDomainConv(filename, binding)
IsConverted(data, msgid) ==
  data.conv_tab # NULL /\ msgid \in DOMAIN data.conv_tab
ConvertedData(data, msgid, short) ==
  LET table == IF data.conv_tab = NULL THEN << >> ELSE data.conv_tab
  IN IF data.conv = NULL \/ IsConverted(data, msgid) \/ data.no_table THEN data
     ELSE IF short = "table" /\ data.conv_tab = NULL
       THEN [data EXCEPT !.no_table = TRUE]
     ELSE IF short = "block" THEN [data EXCEPT !.conv_tab = table]
     ELSE [data EXCEPT !.conv_tab = table @@ (msgid :> data.conv)]
TextIn(data, filename, msgid) ==
  [ catalog |-> filename, msgid |-> msgid,
    codeset |-> IF IsConverted(data, msgid) THEN data.conv_tab[msgid]
                ELSE OnDisk[filename].charset ]

(* The catalog that _nl_find_domain gives, then its fallbacks.               *)
TextOf(list, k, data, filename, msgid) ==
  [list |-> [list EXCEPT ![k].data = data], text |-> TextIn(data, filename, msgid)]
FindMsg(list, filename, binding, msgid, short) ==
  LET k == PositionOf(list, filename)
  IN TextOf(list, k,
            ConvertedData(Refreshed(list[k].data, filename, binding), msgid, short),
            filename, msgid)
FindInChain(list, chain, binding, msgid, short) ==
  LET having == {f \in WithData(list) : msgid \in DOMAIN OnDisk[f].messages}
      opened == LoadUntil(list, chain, having, binding)
      n      == FirstIn(chain, having)
  IN IF n = 0 THEN [list |-> opened, text |-> NULL]
     ELSE FindMsg(opened, chain[n], binding, msgid, short)
FindInDomain(d, binding, msgid, short) ==
  FindInChain(d.list, Chain(d.list, d.entry), binding, msgid, short)

(* guess_category_value with _nl_locale_name: the languages to try.          *)
Languages(e) ==
  LET posix == Selected(<<e.LC_ALL, e.LC_MESSAGES, e.LANG, <<"C">>>>, Name \ {<<>>})[1]
  IN IF e.LANGUAGE # <<>> /\ posix # <<"C">> THEN e.LANGUAGE ELSE <<posix>>

(* The loop over the languages, until one is "C" or the list is at its end.  *)
(* A program that runs for somebody else ignores names with a directory.     *)
Usable(e) ==
  LET tried == Selected(Languages(e),
                        Seq(IF e.secure THEN NamePart \ {"/"} ELSE NamePart) \ {<<>>})
      stops == {k \in DOMAIN tried : tried[k] \in {<<"C">>, <<"POSIX">>}}
  IN SubSeq(tried, 1, Min(stops \cup {Len(tried) + 1}) - 1)
AbsoluteDir(binding) ==
  IF Sign(binding.dirname, 1) = "/" THEN binding.dirname
  ELSE Cwd \o <<"/">> \o binding.dirname
MoFileName(domain) == <<"LC_MESSAGES", "/">> \o domain \o <<".mo">>
TryLocale(s, locale, binding, domain, msgid, short) ==
  IF s.text # NULL THEN s
  ELSE FindInDomain(
         FindDomain(s.list, AbsoluteDir(binding), locale, MoFileName(domain), binding),
         binding, msgid, short)
SearchFor(binding, domain, msgid, short) ==
  LET tried[k \in 0..Len(Usable(env))] ==
        IF k = 0 THEN [list |-> loaded, text |-> NULL]
        ELSE TryLocale(tried[k - 1], Usable(env)[k], binding, domain, msgid, short)
  IN tried[Len(Usable(env))]
Search(domain, msgid, short) == SearchFor(BindingOf(domain), domain, msgid, short)

(* plural_lookup: the variant for n, the first one if there is none.         *)
PluralLookup(text, n) ==
  LET catalog  == OnDisk[text.catalog]
      index    == catalog.plural[n]
      variants == catalog.messages[text.msgid]
  IN IF index < catalog.nplurals /\ index < variants THEN index ELSE 0
Translated(text, n) ==
  [kind |-> "text", text |-> text, n |-> n, variant |-> PluralLookup(text, n)]

(* dcigettext: a known translation of the current count is taken, else the   *)
(* catalogs are searched and what they give is known from then on. Bound:    *)
(* memory is short at most once.                                             *)
IsKnownAtAll(key) == key \in DOMAIN known   \* mutant of IsKnown: no counter

IsKnown(key) == key \in DOMAIN known /\ known[key].counter = msg_cat_cntr

AskKnown(domain, msgid, n) ==
  /\ IsKnown(<<msgid, domain>>)
  /\ answer' = Translated(known[<<msgid, domain>>].text, n)
  /\ UNCHANGED <<bindings, current, msg_cat_cntr, loaded, known, env, seen, memory>>
(* s is what the search gave.                                                *)
Remember(key, n, short, s) ==
  /\ loaded' = s.list
  /\ memory' = IF short = "" THEN memory ELSE "lacked"
  /\ IF s.text = NULL
       THEN known' = known /\ answer' = Untranslated(key[1], n)
       ELSE /\ answer' = Translated(s.text, n)
            /\ known' = IF short = "entry" /\ key \notin DOMAIN known THEN known
                        ELSE (key :> [counter |-> msg_cat_cntr, text |-> s.text])
                             @@ known
Ask(domain, msgid, n) ==
  /\ ~ IsKnown(<<msgid, domain>>)
  /\ \E short \in {""} \cup
              (IF memory = "may lack" THEN {"table", "block", "entry"} ELSE {}) :
       Remember(<<msgid, domain>>, n, short, Search(domain, msgid, short))
  /\ UNCHANGED <<bindings, current, msg_cat_cntr, env, seen>>
(* getcwd fails for a relative directory. *)
AskNowhere(domain, msgid, n) ==
  /\ ~ IsKnown(<<msgid, domain>>)
  /\ Sign(BindingOf(domain).dirname, 1) # "/"
  /\ answer' = Untranslated(msgid, n)
  /\ UNCHANGED <<bindings, current, msg_cat_cntr, loaded, known, env, seen, memory>>

GettextNext ==
  \/ \E d \in AllDomains : \E dir \in Dirnames[d] : BindTextDomain(d, dir)
  \/ \E d \in AllDomains : \E c \in Codesets[d] : BindTextDomainCodeset(d, c)
  \/ \E d \in AllDomains : TextDomain(d)
  \/ ChangeEnvironment
  \/ \E m \in Msgids, n \in Numbers :
       \/ AskKnown(current, m, n) \/ Ask(current, m, n) \/ AskNowhere(current, m, n)

GettextSpec == GettextInit /\ [][GettextNext]_gettextVars

-----------------------------------------------------------------------------
(* The lists are sorted and name nothing twice, so that a search that stops  *)
(* early misses nothing; every fallback of a listed name is listed.          *)
ListsAreSearchable ==
  /\ \A k \in 1..(Len(loaded) - 1) :
       Precedes(loaded[k + 1].filename, loaded[k].filename)
  /\ \A k \in 1..(Len(bindings) - 1) :
       Precedes(bindings[k].domainname, bindings[k + 1].domainname)
  /\ LET listed == {loaded[k].filename : k \in DOMAIN loaded}
     IN \A k \in DOMAIN loaded : Range(loaded[k].successor) \subseteq listed

(* Without the caches, the lists and the converters: what a program is       *)
(* promised. A text that could not be converted for lack of memory is        *)
(* allowed once something was lacking.                                       *)
Promise == INSTANCE MessageLookup WITH
  bound <- [d \in AllDomains |-> [dirname |-> BindingOf(d).dirname,
                                  codeset |-> BindingOf(d).codeset]],
  lacking <- memory = "lacked", Catalogs <- OnDisk
PromiseKept == Promise!LookupSpec

(* The catalog that is used is the most specific one there is, also when the *)
(* same or another locale has been used before (finddomain.c:66-90).         *)
MostSpecificCatalog ==
  answer.kind = "text" =>
    \E e \in seen : Promise!Ideal(e, current, answer.text.msgid) = answer.text.catalog
=============================================================================
