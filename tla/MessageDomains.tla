--------------------------- MODULE MessageDomains ---------------------------
(***************************************************************************)
(* The list of message catalogs that have been looked for: l10nflist.c and *)
(* finddomain.c of intl/. The list is sorted by file name; the search in   *)
(* it stops at the first smaller name. Everything here is an operator on   *)
(* the list; Gettext.tla keeps it in a variable.                           *)
(***************************************************************************)
EXTENDS LocaleName, TLC

CONSTANTS
  TokenOrder,    \* all words and separators, in the order of strcmp
  LocaleAliases, \* alias -> locale name (external: what localealias.c has read)
  Catalogs,      \* file name -> contents, for the catalogs that exist and load
  LocaleCharset, \* OUTPUT_CHARSET or locale_charset (external)
  Convertible,   \* the pairs of codesets that iconv_open knows (external)
  NULL           \* no data, no codeset, no text

(* TLC evaluates a definition once, but a constant that a configuration      *)
(* replaces whenever it is used.                                             *)
OnDisk  == Catalogs
Aliases == LocaleAliases
NamePart == Range(TokenOrder)
Name  == Seq(NamePart)
TokenRank == [t \in NamePart |-> CHOOSE r \in DOMAIN TokenOrder : TokenOrder[r] = t]

ASSUME MessageDomainConstants ==
  /\ TokenOrder \in Seq(STRING) /\ IsInjective(TokenOrder)
  /\ {"/", "_", ".", "@", "+", ",", "iso"} \cup Numerals \subseteq NamePart
  /\ \A w \in DOMAIN Lower : Lower[w] \in NamePart
  /\ \A alias \in DOMAIN LocaleAliases : LocaleAliases[alias] \in Name

(* strcmp on names: the first difference decides; the end of a name comes    *)
(* before everything.                                                        *)
Precedes(a, b) ==
  LET differ == {k \in 1..Min({Len(a), Len(b)}) : a[k] # b[k]}
  IN IF differ = {} THEN Len(a) < Len(b)
     ELSE \E k \in differ : /\ TokenRank[a[k]] < TokenRank[b[k]]
                            /\ \A j \in differ : k <= j

(* The place of a name in the list, which is sorted with the largest name    *)
(* first: an entry that does not come after it, or the end.                  *)
PlaceOf(list, filename) ==
  Min({k \in DOMAIN list : ~ Precedes(filename, list[k].filename)} \cup {Len(list) + 1})
IsListed(list, filename) ==
  LET k == PlaceOf(list, filename)
  IN k <= Len(list) /\ list[k].filename = filename

(* An entry that something points to.                                        *)
PositionOf(list, filename) == SelectInSeq(list, LAMBDA e : e.filename = filename)
ListEntry(list, filename)  == list[PositionOf(list, filename)]

(* The entry that _nl_make_l10nflist makes for some of the parts of a name.  *)
(* One that names a codeset twice stands for no file and counts as looked    *)
(* for already.                                                              *)
FreshEntry(dir, mask, parts, domain) ==
  LET below == Fallbacks(mask)
  IN [ filename  |-> FileName(dir, mask, parts, domain),
       decided   |-> {"codeset", "normalized_codeset"} \subseteq mask,
       data      |-> NULL,
       successor |-> [k \in DOMAIN below |-> FileName(dir, below[k], parts, domain)] ]

(* The entries for a name that has been taken apart: the first one has all   *)
(* parts, the others are what it falls back to.                              *)
EntriesOf(dir, name, domain) ==
  LET masks == <<name.mask>> \o Fallbacks(name.mask)
  IN [k \in DOMAIN masks |-> FreshEntry(dir, masks[k], name.parts, domain)]

(* _nl_make_l10nflist with do_allocate: an entry that is listed has all that *)
(* it falls back to; else it is made, and by recursion what it falls back to *)
(* and is not there yet.                                                     *)
NewEntryAtHead(list, entry) ==   \* mutant of NewEntry: not in its place
  IF IsListed(list, entry.filename) THEN list ELSE <<entry>> \o list

NewEntry(list, entry) ==
  IF IsListed(list, entry.filename) THEN list
  ELSE InsertAt(list, PlaceOf(list, entry.filename), entry)

MakeL10nflist(list, entries) ==
  IF IsListed(list, entries[1].filename) THEN list
  ELSE LET made[k \in 0..Len(entries)] ==
             IF k = 0 THEN list ELSE NewEntry(made[k - 1], entries[k])
       IN made[Len(entries)]

(* _nl_init_domain_conv: a converter from the codeset of the catalog to the  *)
(* one that is bound, or else that of the locale.                            *)
TargetOf(binding) == IF binding.codeset = NULL THEN LocaleCharset ELSE binding.codeset
InitDomainConv(filename, binding) ==
  LET charset == OnDisk[filename].charset
      target  == TargetOf(binding)
  IN [ codeset_cntr |-> binding.codeset_cntr,
       conv |-> IF charset # NULL /\ <<charset, target>> \in Convertible
                  THEN target ELSE NULL,
       conv_tab |-> NULL, no_table |-> FALSE ]

(* _nl_load_domain as its callers see it; its steps are in CatalogFile.tla.  *)
LoadDomain(entry, binding) ==
  IF entry.decided THEN entry
  ELSE [entry EXCEPT !.decided = TRUE,
                     !.data = IF entry.filename \in DOMAIN OnDisk
                                THEN InitDomainConv(entry.filename, binding) ELSE NULL]
HasData(entry) ==   \* once it is loaded
  entry.data # NULL \/ (~ entry.decided /\ entry.filename \in DOMAIN OnDisk)

(* An entry and its fallbacks are looked at in turn until one is wanted;     *)
(* those looked at are loaded.                                               *)
Chain(list, filename) == <<filename>> \o ListEntry(list, filename).successor
FirstIn(chain, wanted) == SelectInSeq(chain, LAMBDA f : f \in wanted)
LoadUntil(list, chain, wanted, binding) ==
  LET n == FirstIn(chain, wanted)
      tried == Range(IF n = 0 THEN chain ELSE SubSeq(chain, 1, n))
  IN [k \in DOMAIN list |-> IF list[k].filename \in tried
                               THEN LoadDomain(list[k], binding) ELSE list[k]]
WithData(list) == {list[k].filename : k \in {j \in DOMAIN list : HasData(list[j])}}

(* _nl_find_domain: an entry that has exactly the name asked for is taken as *)
(* it is; else an alias is replaced, the name is taken apart and its entries *)
(* are made. What comes first of it and has data is loaded.                  *)
LoadFirst(list, entry, binding) ==
  [ list  |-> LoadUntil(list, Chain(list, entry), WithData(list), binding),
    entry |-> entry ]
MakeAndLoad(list, entries, binding) ==
  LoadFirst(MakeL10nflist(list, entries), entries[1].filename, binding)
FindDomain(list, dir, locale, domain, binding) ==
  LET whole == FileName(dir, {}, [language |-> locale], domain)
      name  == Explode(IF locale \in DOMAIN Aliases THEN Aliases[locale] ELSE locale)
  IN IF IsListed(list, whole) THEN LoadFirst(list, whole, binding)
     ELSE MakeAndLoad(list, EntriesOf(dir, name, domain), binding)
=============================================================================
