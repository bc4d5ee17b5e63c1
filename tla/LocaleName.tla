----------------------------- MODULE LocaleName -----------------------------
(***************************************************************************)
(* The parts of a locale name, as explodename.c and l10nflist.c of intl/   *)
(* find them, and the names of the catalogs that the parts lead to. A name *)
(* is a sequence of words and of the separators between them, so that two  *)
(* names are equal exactly when their strings are.                         *)
(***************************************************************************)
EXTENDS Integers, Sequences, SequencesExt, FiniteSets, FiniteSetsExt, Functions

CONSTANTS
  Lower,      \* word of letters -> the same in lower case
  Numerals    \* words of digits

(* The bits of a mask, from the least one.                                 *)
MaskBits == <<"revision", "sponsor", "special", "normalized_codeset",
              "codeset", "territory", "audience", "modifier">>
CenSpecific == {"revision", "sponsor", "special", "audience"}
XpgSpecific == {"codeset", "normalized_codeset", "modifier"}

(* The elements of a sequence that are in a set, in their order.             *)
Selected(seq, S) ==
  LET upto[k \in 0..Len(seq)] ==
        IF k = 0 THEN <<>>
        ELSE IF seq[k] \in S THEN Append(upto[k - 1], seq[k]) ELSE upto[k - 1]
  IN upto[Len(seq)]

(* _nl_normalize_codeset: letters in lower case and digits; a name without   *)
(* letters is that of an ISO standard.                                       *)
Normalize(codeset) ==
  LET alnum == Selected(codeset, DOMAIN Lower \cup Numerals)
      low   == [k \in DOMAIN alnum |->
                  IF alnum[k] \in Numerals THEN alnum[k] ELSE Lower[alnum[k]]]
  IN IF Range(alnum) \subseteq Numerals THEN <<"iso">> \o low ELSE low

(* The first place from i on with one of the separators, or the end.         *)
StopAt(name, i, separators) ==
  Min({k \in i..Len(name) : name[k] \in separators} \cup {Len(name) + 1})
Sign(name, i) == IF i <= Len(name) THEN name[i] ELSE "NUL"

(* _nl_explode_name, with the cursor after each part: the language up to l,  *)
(* the territory to t and the codeset to c, if there are these two; and then *)
(* the modifier to m, the special part to s, the sponsor to p, the revision. *)
Slice(name, is, from, to) == IF is THEN SubSeq(name, from + 1, to - 1) ELSE <<>>
PartsFrom(name, l, t, c, terr, cs, codeset, norm) ==
  LET mod   == Sign(name, c) = "@" \/ (~ cs /\ Sign(name, c) = "+")
      xpg   == cs \/ Sign(name, c) = "@"
      m     == IF ~ mod THEN c
               ELSE IF xpg THEN Len(name) + 1 ELSE StopAt(name, c + 1, {"+", ",", "_"})
      spec  == ~ xpg /\ Sign(name, m) = "+"
      s     == IF spec THEN StopAt(name, m + 1, {",", "_"}) ELSE m
      spons == ~ xpg /\ Sign(name, s) = ","
      p     == IF spons THEN StopAt(name, s + 1, {"_"}) ELSE s
      rev   == ~ xpg /\ Sign(name, p) = "_"
      bits    == [ territory |-> terr, codeset |-> cs, modifier |-> mod,
                   audience |-> mod, special |-> spec, sponsor |-> spons,
                   revision |-> rev, normalized_codeset |-> norm # codeset ]
      empty   == {b \in {"territory", "codeset", "modifier"} :
                    CASE b = "territory" -> t = l + 1 [] b = "codeset" -> codeset = <<>>
                      [] b = "modifier"  -> m = c + 1}
      parts   == [ language |-> SubSeq(name, 1, l - 1),
                   territory |-> Slice(name, terr, l, t), codeset |-> codeset,
                   normalized_codeset |-> norm, modifier |-> Slice(name, mod, c, m),
                   special |-> Slice(name, spec, m, s),
                   sponsor |-> Slice(name, spons, s, p),
                   revision |-> Slice(name, rev, p, Len(name) + 1) ]
  IN IF l = 1   \* no language: not a name with parts
       THEN [mask |-> {}, parts |-> [parts EXCEPT !.language = name]]
       ELSE [ mask  |-> {b \in DOMAIN bits : bits[b]} \ (IF xpg THEN empty ELSE {}),
              parts |-> parts ]
Explode(name) ==
  LET l    == StopAt(name, 1, {"_", "@", "+", ","})
      terr == Sign(name, l) = "_"
      t    == IF terr THEN StopAt(name, l + 1, {".", "@", "+", ",", "_"}) ELSE l
      cs   == terr /\ Sign(name, t) = "."
      c    == IF cs THEN StopAt(name, t + 1, {"@"}) ELSE t
      codeset == Slice(name, cs, t, c)
      norm    == IF codeset = <<>> THEN codeset ELSE Normalize(codeset)
  IN PartsFrom(name, l, t, c, terr, cs, codeset, norm)

(* The file name that _nl_make_l10nflist builds from the parts in mask. A    *)
(* name that is an absolute path replaces the directory.                     *)
FileName(dir, mask, parts, domain) ==
  LET Or(bit, text) == IF bit \in mask THEN text ELSE <<>>
      both == mask \cap {"modifier", "audience"} # {}
      cen  == mask \cap {"sponsor", "revision"} # {}
  IN (IF Sign(parts.language, 1) = "/" THEN <<>> ELSE dir \o <<"/">>)
     \o parts.language
     \o Or("territory", <<"_">> \o parts.territory)
     \o Or("codeset", <<".">> \o parts.codeset)
     \o Or("normalized_codeset", <<".">> \o parts.normalized_codeset)
     \o (IF both THEN <<IF "audience" \in mask THEN "+" ELSE "@">> \o parts.modifier
         ELSE <<>>)
     \o Or("special", <<"+">> \o parts.special)
     \o (IF cen THEN <<",">> \o Or("sponsor", parts.sponsor)
                     \o Or("revision", <<"_">> \o parts.revision) ELSE <<>>)
     \o <<"/">> \o domain

(* The masks to which a file with this mask falls back: fewer parts, not of  *)
(* both syntaxes, at most one form of the codeset; counted down, so that the *)
(* part with the least bit goes first.                                       *)
OneSyntax(mask) ==
  /\ mask \cap CenSpecific = {} \/ mask \cap XpgSpecific = {}
  /\ ~ {"codeset", "normalized_codeset"} \subseteq mask
SubmasksDown(mask) ==
  LET down[j \in 0..8] ==
        IF j = 0 THEN <<{}>>
        ELSE LET rest == down[j - 1]
             IN IF MaskBits[j] \in mask
                  THEN [k \in DOMAIN rest |-> rest[k] \cup {MaskBits[j]}] \o rest
                  ELSE rest
  IN down[8]
Fallbacks(mask) ==
  Selected(SubmasksDown(mask), {sub \in (SUBSET mask) \ {mask} : OneSyntax(sub)})
=============================================================================
