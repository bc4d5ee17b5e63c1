---------------------------- MODULE CatalogFile -----------------------------
(***************************************************************************)
(* A message catalog on disk is loaded and asked for messages:             *)
(* _nl_load_domain of intl/loadmsgcat.c and the search of _nl_find_msg in  *)
(* intl/dcigettext.c. A text is a sequence of octets; octet 0 ends a C     *)
(* string. A 32-bit number of the file is a number and its byte order.     *)
(***************************************************************************)
EXTENDS Integers, Sequences, SequencesExt, FiniteSetsExt, Functions

CONSTANTS
  HashWord,       \* values of a 32-bit number, 2^HASHWORDBITS
  LongWord,       \* values of an unsigned long, of 32 bits or more
  DescSize,       \* sizeof (struct sysdep_string_desc), in 32-bit words
  MoFiles,        \* the files there may be, with the fields used below
  SegmentValues,  \* system dependent segment -> its text (external: inttypes.h)
  Asked,          \* msgids a program asks for, as C strings
  NoText          \* NULL

SEGMENTS_END == -1
Octet == 0..255
CText(text) ==
  LET nul == SelectInSeq(text, LAMBDA c : c = 0)
  IN IF nul = 0 THEN text ELSE SubSeq(text, 1, nul - 1)
(* strcmp *)
Below(a, b) ==
  \E k \in 1..Min({Len(b), Len(a) + 1}) :
    /\ k > Len(a) \/ a[k] < b[k]
    /\ SubSeq(a, 1, k - 1) = SubSeq(b, 1, k - 1)

(* What msgfmt writes: the originals are in order, and the hash table is for *)
(* a prime number of places, more than there are strings. A string with      *)
(* system dependent parts ends with a part that refers to no segment.        *)
IsPrime(p) == p > 1 /\ \A d \in 2..(p - 1) : p % d # 0
EndedText == {text \in Seq(Octet) : \E k \in DOMAIN text : text[k] = 0}
Segment == [static : Seq(Octet), ref : Nat \cup {SEGMENTS_END}]
SysdepString ==
  {s \in Seq(Segment) : /\ s # <<>> /\ s[Len(s)].static \in EndedText
                        /\ \A k \in DOMAIN s : s[k].ref = SEGMENTS_END <=> k = Len(s)}
MoFile ==
  [ short : BOOLEAN, size : Nat, magic : {"native", "swapped", "wrong"}, major : Nat,
    minor : Nat, hash_size : Nat, orig : Seq(EndedText), trans : Seq(Seq(Octet)),
    segments : Seq([name : STRING, ended : BOOLEAN]),
    sysdep : Seq(SysdepString \X SysdepString) ]
WellFormed(m) ==
  /\ Len(m.trans) = Len(m.orig)
  /\ \A j, k \in DOMAIN m.orig : j < k => Below(CText(m.orig[j]), CText(m.orig[k]))
  /\ m.hash_size > 2 =>
       IsPrime(m.hash_size) /\ m.hash_size > Len(m.orig) + Len(m.sysdep)

ASSUME CatalogConstants ==
  /\ HashWord \in Nat \ {0} /\ HashWord % 4096 = 0
  /\ LongWord \in Nat \ {0} /\ LongWord % HashWord = 0
  /\ DescSize \in Nat \ {0}
  /\ MoFiles \subseteq MoFile /\ \A m \in MoFiles : WellFormed(m)
  /\ \A name \in DOMAIN SegmentValues : SegmentValues[name] \in Seq(Octet \ {0})
  /\ Asked \subseteq Seq(Octet \ {0}) /\ <<>> \in Asked
  /\ NoText \notin Seq(Nat)

(* hash_string on a host whose unsigned long has so many values; the callers *)
(* keep 32 bits of them. g is four bits, which are exclusive-ored to the     *)
(* second hexadecimal digit and removed where they were.                     *)
XorDigit(a, b) ==
  LET Differ(v) == v * ((a \div v + b \div v) % 2)
  IN Differ(1) + Differ(2) + Differ(4) + Differ(8)
HashStep(values, hval, c) ==
  LET h == (hval * 16 + c) % values
      g == (h \div (HashWord \div 16)) % 16
      digit == (h \div 16) % 16
  IN IF g = 0 THEN h
     ELSE h + 16 * (XorDigit(digit, g) - digit) - g * (HashWord \div 16)
HashOn(values, text) ==
  LET hval[k \in 0..Len(text)] ==
        IF k = 0 THEN 0 ELSE HashStep(values, hval[k - 1], text[k])
  IN hval[Len(text)] % HashWord
Increment(hash, size) == 1 + (hash % (size - 2))
NextIdx(idx, incr, size) ==
  IF idx >= size - incr THEN idx - (size - incr) ELSE idx + incr

(* W: a number read in the wrong byte order is far out of range.             *)
Word(n, swapped) == [n |-> n, swapped |-> swapped]
W(swap, word) == IF swap = word.swapped THEN word.n ELSE word.n * 2^20

(* The hash table that msgfmt writes for the originals, on a 32-bit host.    *)
HashTable(size, originals) ==
  LET Place(tab, k) ==
        LET hash == HashOn(HashWord, CText(originals[k]))
            p(j) == (hash + j * Increment(hash, size)) % size
        IN p(Min({j \in 0..(size - 1) : tab[p(j)] = 0}))
      filled[k \in 0..Len(originals)] ==
        IF k = 0 THEN [idx \in 0..(size - 1) |-> 0]
        ELSE [filled[k - 1] EXCEPT ![Place(filled[k - 1], k)] = k]
  IN filled[Len(originals)]

NoDomain == [must_swap |-> FALSE]

VARIABLES
  mofile,      \* the file (external)
  mostep,      \* where _nl_load_domain or _nl_find_msg is
  fd,          \* the descriptor is open
  data,        \* "none", "mapped" or "malloced"
  to_read,     \* what read has not delivered
  domain,      \* domain_file->data
  at,          \* i in the loops over the system dependent strings
  memneed, mem,  \* memory for them, and how much of it is used
  probe,       \* [msgid, idx, incr] or [msgid, bottom, top]
  found,       \* what _nl_find_msg has returned
  trouble      \* some system call or malloc failed

fileVars == <<fd, data, to_read>>
tableVars == <<at, memneed, mem>>
catalogVars == <<mofile, mostep, fileVars, domain, tableVars, probe, found, trouble>>

CatalogInit ==
  /\ mofile \in MoFiles /\ mostep = "open"
  /\ fd = FALSE /\ data = "none" /\ to_read = 0
  /\ domain = NoDomain /\ at = 0 /\ memneed = 0 /\ mem = 0
  /\ probe = [msgid |-> <<>>] /\ found = NoText /\ trouble = FALSE

-----------------------------------------------------------------------------
(* The file comes into memory. *)
OpenFile ==
  /\ mostep = "open"
  /\ \/ fd' = TRUE /\ mostep' = "stat" /\ UNCHANGED trouble
     \/ UNCHANGED fd /\ mostep' = "failed" /\ trouble' = TRUE
  /\ UNCHANGED <<mofile, data, to_read, domain, tableVars, probe, found>>

StatForgetful ==   \* mutant of Stat: a short file stays open
  /\ mostep = "stat"
  /\ \/ ~ mofile.short /\ mostep' = "map" /\ UNCHANGED <<fd, trouble>>
     \/ mofile.short /\ mostep' = "failed" /\ UNCHANGED <<fd, trouble>>
     \/ mostep' = "failed" /\ fd' = FALSE /\ trouble' = TRUE
  /\ UNCHANGED <<mofile, data, to_read, domain, tableVars, probe, found>>

Stat ==
  /\ mostep = "stat"
  /\ \/ ~ mofile.short /\ mostep' = "map" /\ UNCHANGED <<fd, trouble>>
     \/ mofile.short /\ mostep' = "failed" /\ fd' = FALSE /\ UNCHANGED trouble
     \/ mostep' = "failed" /\ fd' = FALSE /\ trouble' = TRUE
  /\ UNCHANGED <<mofile, data, to_read, domain, tableVars, probe, found>>

Map ==
  /\ mostep = "map"
  /\ \/ data' = "mapped" /\ mostep' = "magic" /\ fd' = FALSE /\ UNCHANGED <<to_read, trouble>>
     \/ /\ data' = "malloced" /\ mostep' = "read" /\ to_read' = mofile.size
        /\ UNCHANGED <<fd, trouble>>
     \/ /\ mostep' = "failed" /\ trouble' = TRUE    \* no memory either
        /\ UNCHANGED <<fd, data, to_read>>
  /\ UNCHANGED <<mofile, domain, tableVars, probe, found>>

(* A call that is interrupted reads nothing and is made again. *)
Read ==
  /\ mostep = "read"
  /\ \/ \E nb \in 0..to_read :
          /\ to_read' = to_read - nb
          /\ IF to_read' = 0 THEN mostep' = "magic" /\ fd' = FALSE
             ELSE UNCHANGED <<mostep, fd>>
          /\ UNCHANGED trouble
     \/ /\ mostep' = "failed" /\ fd' = FALSE /\ trouble' = TRUE
        /\ UNCHANGED to_read
  /\ UNCHANGED <<mofile, data, domain, tableVars, probe, found>>

Magic ==
  /\ mostep = "magic"
  /\ \/ /\ mofile.magic = "wrong" /\ data' = "none" /\ mostep' = "failed"
        /\ UNCHANGED <<domain, trouble>>
     \/ /\ mofile.magic # "wrong" /\ mostep' = "revision"
        /\ domain' = [ must_swap |-> mofile.magic = "swapped",
                       must_swap_hash_tab |-> mofile.magic = "swapped",
                       hash_tab |->
                         IF mofile.hash_size > 2
                           THEN [idx \in 0..(mofile.hash_size - 1) |->
                                   Word(HashTable(mofile.hash_size, mofile.orig)[idx],
                                        mofile.magic = "swapped")]
                           ELSE << >>,
                       inmem |-> <<>> ]
        /\ UNCHANGED <<data, trouble>>
     \/ /\ mofile.magic # "wrong" /\ mostep' = "failed" /\ trouble' = TRUE
        /\ UNCHANGED <<data, domain>>
  /\ UNCHANGED <<mofile, fd, to_read, tableVars, probe, found>>

(* invalid: *)
Invalid ==
  /\ data' = "none" /\ domain' = NoDomain /\ mostep' = "failed"
  /\ UNCHANGED <<mofile, fd, to_read, tableVars, probe, found>>

(* The system dependent strings are counted only where the file has some and *)
(* a hash table; a name of a segment must end with a NUL.                    *)
NeedsHashTable == mofile.minor >= 1 /\ mofile.hash_size <= 2
Segmented == mofile.minor >= 1 /\ mofile.sysdep # <<>>
NamesEnd == \A k \in DOMAIN mofile.segments : mofile.segments[k].ended
Revision ==
  /\ mostep = "revision"
  /\ IF mofile.major \notin {0, 1} \/ NeedsHashTable \/ (Segmented /\ ~ NamesEnd)
       THEN Invalid
     ELSE IF Segmented
       THEN /\ mostep' = "measure" /\ at' = 1 /\ memneed' = mofile.hash_size
            /\ UNCHANGED <<mofile, fileVars, domain, mem, probe, found>>
       ELSE /\ mostep' = "find" /\ probe' = [msgid |-> <<>>]
            /\ UNCHANGED <<mofile, fileVars, domain, tableVars, found>>
  /\ UNCHANGED trouble

-----------------------------------------------------------------------------
(* A string is a sequence of [static, ref]; the walk over it stops at the    *)
(* end, at a segment that is not in the table, or at an undefined one.       *)
SegmentValue(ref) ==
  LET name == mofile.segments[ref + 1].name
  IN IF name \in DOMAIN SegmentValues THEN SegmentValues[name] ELSE NoText
OutOfTable(ref) == ref >= Len(mofile.segments)
StopRef(string) ==
  string[SelectInSeq(string, LAMBDA p : \/ p.ref = SEGMENTS_END \/ OutOfTable(p.ref)
                                        \/ SegmentValue(p.ref) = NoText)].ref
Whole(string) == StopRef(string) = SEGMENTS_END
Piece(p) == p.static \o IF p.ref = SEGMENTS_END THEN <<>> ELSE SegmentValue(p.ref)
Expanded(string) ==
  LET text[k \in 0..Len(string)] == IF k = 0 THEN <<>> ELSE text[k - 1] \o Piece(string[k])
  IN text[Len(string)]
Alone(string) == string[1].ref = SEGMENTS_END
Octets(p) == Len(p.static) + IF p.ref = SEGMENTS_END THEN 0 ELSE Len(SegmentValue(p.ref))
NeedOfStatic(string) ==   \* mutant of Need: what the segments stand for is not counted
  LET need[k \in 0..Len(string)] == IF k = 0 THEN 0 ELSE need[k - 1] + Len(string[k].static)
  IN IF Alone(string) THEN 0 ELSE need[Len(string)]

Need(string) ==
  LET need[k \in 0..Len(string)] == IF k = 0 THEN 0 ELSE need[k - 1] + Octets(string[k])
  IN IF Alone(string) THEN 0 ELSE need[Len(string)]

(* The first pass: what the pairs without undefined segments need. The       *)
(* translation is not looked at when the original is undefined.              *)
Pair == mofile.sysdep[at]
BrokenPair == \/ OutOfTable(StopRef(Pair[1]))
              \/ Whole(Pair[1]) /\ OutOfTable(StopRef(Pair[2]))
ValidPair  == Whole(Pair[1]) /\ Whole(Pair[2])
Measure ==
  /\ mostep = "measure" /\ at <= Len(mofile.sysdep)
  /\ IF BrokenPair THEN Invalid
     ELSE /\ at' = at + 1
          /\ memneed' = IF ValidPair
                          THEN memneed + Need(Pair[1]) + Need(Pair[2]) + 2 * DescSize
                          ELSE memneed
          /\ UNCHANGED <<mofile, mostep, fileVars, domain, mem, probe, found>>
  /\ UNCHANGED trouble

(* Each pair that counts has brought two descriptors. The memory begins with *)
(* them and the new hash table.                                              *)
AnyPair == memneed > mofile.hash_size
Allocate ==
  /\ mostep = "measure" /\ at > Len(mofile.sysdep)
  /\ \/ AnyPair /\ Invalid /\ trouble' = TRUE
     \/ /\ AnyPair /\ mostep' = "fill" /\ at' = 1
        /\ mem' = mofile.hash_size
        /\ UNCHANGED <<mofile, fileVars, domain, memneed, probe, found, trouble>>
     \/ /\ ~ AnyPair /\ mostep' = "find" /\ probe' = [msgid |-> <<>>]
        /\ UNCHANGED <<mofile, fileVars, domain, tableVars, found, trouble>>

(* The second pass. A string of one static segment stays in the file.        *)
Copied(string) == IF Alone(string) THEN 0 ELSE Len(Expanded(string))
Fill ==
  /\ mostep = "fill" /\ at <= Len(mofile.sysdep)
  /\ at' = at + 1
  /\ IF ValidPair
       THEN /\ mem' = mem + Copied(Pair[1]) + Copied(Pair[2]) + 2 * DescSize
            /\ domain' = [domain EXCEPT !.inmem =
                            Append(@, <<Expanded(Pair[1]), Expanded(Pair[2])>>)]
       ELSE UNCHANGED <<mem, domain>>
  /\ UNCHANGED <<mofile, mostep, fileVars, memneed, probe, found, trouble>>

(* Mutant of CopyHashTable: the numbers are copied as they are. *)
CopyHashTableAsIs ==
  /\ mostep = "fill" /\ at > Len(mofile.sysdep)
  /\ domain' = [domain EXCEPT !.must_swap_hash_tab = FALSE]
  /\ mostep' = "augment" /\ at' = 0 /\ probe' = [msgid |-> NoText]
  /\ UNCHANGED <<mofile, fileVars, memneed, mem, found, trouble>>

(* The hash table is copied in the byte order of the host. *)
CopyHashTable ==
  /\ mostep = "fill" /\ at > Len(mofile.sysdep)
  /\ domain' = [domain EXCEPT
       !.hash_tab = [idx \in DOMAIN @ |-> Word(W(domain.must_swap_hash_tab, @[idx]), FALSE)],
       !.must_swap_hash_tab = FALSE]
  /\ mostep' = "augment" /\ at' = 0 /\ probe' = [msgid |-> NoText]
  /\ UNCHANGED <<mofile, fileVars, memneed, mem, found, trouble>>

Started(msgid) ==
  LET hash == HashOn(LongWord, msgid)
      size == mofile.hash_size
  IN [msgid |-> msgid, idx |-> hash % size, incr |-> Increment(hash, size)]
Advanced == [probe EXCEPT !.idx = NextIdx(probe.idx, probe.incr, mofile.hash_size)]
(* Each new original is put into the first empty place. *)
Augment ==
  /\ mostep = "augment"
  /\ \/ /\ probe.msgid = NoText /\ at < Len(domain.inmem)
        /\ probe' = Started(CText(domain.inmem[at + 1][1]))
        /\ UNCHANGED <<mostep, domain, at>>
     \/ /\ probe.msgid = NoText /\ at = Len(domain.inmem)
        /\ mostep' = "find" /\ probe' = [msgid |-> <<>>]
        /\ UNCHANGED <<domain, at>>
     \/ /\ probe.msgid # NoText
        /\ IF domain.hash_tab[probe.idx].n = 0
             THEN /\ domain' = [domain EXCEPT !.hash_tab[probe.idx] =
                                  Word(1 + Len(mofile.orig) + at, FALSE)]
                  /\ at' = at + 1 /\ probe' = [msgid |-> NoText]
             ELSE probe' = Advanced /\ UNCHANGED <<domain, at>>
        /\ UNCHANGED mostep
  /\ UNCHANGED <<mofile, fileVars, memneed, mem, found, trouble>>

-----------------------------------------------------------------------------
(* _nl_find_msg. It is called for the header entry first, by                 *)
(* _nl_init_domain_conv, and then for what the program asks.                 *)
IsReady == mostep = "ready"
AskFor(msgid) ==
  /\ IsReady /\ mostep' = "find" /\ probe' = [msgid |-> msgid]
  /\ UNCHANGED <<mofile, fileVars, domain, tableVars, found, trouble>>

StartFind ==
  /\ mostep = "find"
  /\ IF domain.hash_tab # << >>
       THEN mostep' = "hash" /\ probe' = Started(probe.msgid)
       ELSE /\ mostep' = "bisect"
            /\ probe' = [msgid |-> probe.msgid, bottom |-> 0, top |-> Len(mofile.orig)]
  /\ UNCHANGED <<mofile, fileVars, domain, tableVars, found, trouble>>

Answer(text) == found' = text /\ mostep' = "ready" /\ UNCHANGED probe

(* String nstr, counted from 0, is the message: the length of one in the     *)
(* file does not count its NUL, the length of one in memory does.            *)
NStrings == Len(mofile.orig)
IsMessage(nstr) ==
  \/ /\ nstr < NStrings
     /\ Len(mofile.orig[nstr + 1]) - 1 >= Len(probe.msgid)
     /\ CText(mofile.orig[nstr + 1]) = probe.msgid
  \/ /\ nstr >= NStrings /\ nstr - NStrings < Len(domain.inmem)
     /\ Len(domain.inmem[nstr - NStrings + 1][1]) > Len(probe.msgid)
     /\ CText(domain.inmem[nstr - NStrings + 1][1]) = probe.msgid
Translation(nstr) == IF nstr < NStrings THEN mofile.trans[nstr + 1]
                     ELSE domain.inmem[nstr - NStrings + 1][2]
HashProbe ==
  /\ mostep = "hash"
  /\ LET nstr == W(domain.must_swap_hash_tab, domain.hash_tab[probe.idx])
     IN IF nstr = 0 THEN Answer(NoText)
        ELSE IF IsMessage(nstr - 1) THEN Answer(Translation(nstr - 1))
        ELSE probe' = Advanced /\ UNCHANGED <<found, mostep>>
  /\ UNCHANGED <<mofile, fileVars, domain, tableVars, trouble>>

Bisect ==
  /\ mostep = "bisect"
  /\ LET act  == (probe.bottom + probe.top) \div 2
         here == CText(mofile.orig[act + 1])
     IN IF probe.bottom >= probe.top THEN Answer(NoText)
        ELSE IF here = probe.msgid THEN Answer(Translation(act))
        ELSE /\ probe' = IF Below(probe.msgid, here) THEN [probe EXCEPT !.top = act]
                         ELSE [probe EXCEPT !.bottom = act + 1]
             /\ UNCHANGED <<found, mostep>>
  /\ UNCHANGED <<mofile, fileVars, domain, tableVars, trouble>>

LoadStep == \/ OpenFile \/ Stat \/ Map \/ Read \/ Magic \/ Revision \/ Measure
            \/ Allocate \/ Fill \/ CopyHashTable \/ Augment
FindStep == StartFind \/ HashProbe \/ Bisect
CatalogNext == LoadStep \/ FindStep \/ \E msgid \in Asked : AskFor(msgid)

CatalogSpec == CatalogInit /\ [][CatalogNext]_catalogVars

-----------------------------------------------------------------------------
(* What the file says: each of its messages, the system dependent ones only  *)
(* if all their segments are defined.                                        *)
Messages ==
  {<<CText(mofile.orig[k]), mofile.trans[k]>> : k \in DOMAIN mofile.orig}
  \cup (IF mofile.minor = 0 THEN {}
        ELSE {<<CText(Expanded(p[1])), Expanded(p[2])>> :
                p \in {q \in Range(mofile.sysdep) : Whole(q[1]) /\ Whole(q[2])}})
Defined(msgid) == {m \in Messages : m[1] = msgid}

(* A lookup finds a message exactly when the file defines it, and finds its  *)
(* own translation: in either byte order, with the hash table of the file,   *)
(* with the augmented one or without any, and whatever hosts the file was    *)
(* written and is read on (dcigettext.c:719-826, loadmsgcat.c:1317-1343).    *)
LookupIsExact ==
  IsReady => IF Defined(probe.msgid) = {} THEN found = NoText
            ELSE \E m \in Defined(probe.msgid) : found = m[2]

(* The second pass over the system dependent strings stays in the memory     *)
(* that the first pass asked for, and uses all of it; no probing meets a     *)
(* table without an empty place (loadmsgcat.c:1118-1315).                    *)
PassesAgree ==
  /\ mostep = "fill" => mem <= memneed
  /\ mostep = "augment" =>
       /\ mem = memneed
       /\ \E idx \in DOMAIN domain.hash_tab : domain.hash_tab[idx].n = 0

(* A file that is no catalog leaves nothing behind, if the system has not    *)
(* failed (loadmsgcat.c:925-1386).                                           *)
NothingStaysBehind ==
  ~ trouble /\ mostep = "failed" => ~ fd /\ data = "none" /\ domain = NoDomain
=============================================================================
