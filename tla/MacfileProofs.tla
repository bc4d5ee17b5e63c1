--------------------------- MODULE MacfileProofs ---------------------------
(* Proofs about Macfile for all streams: of any length, over any texts, with *)
(* or without the final newline, and whatever the stack held before.         *)
EXTENDS Macfile, TLAPS

(* A line is recognised exactly when it names a host, and then has an        *)
(* address; a port and a password come only with a host.                     *)
LEMMA LineShape ==
  ASSUME NEW l \in Line
  PROVE  /\ l \in Fields
         /\ l.host # Null => l.mac # Null
         /\ l.host = Null => l.port = Null /\ l.passwd = Null
         /\ Tokens(l) \subseteq Token
         /\ Tokens(l) = {} <=> l.host = Null
         /\ "PASS" \in Tokens(l) <=> l.passwd # Null
<1>1. /\ l \in Fields
      /\ l.host # Null => l.mac # Null
      /\ l.port # Null => l.host # Null
      /\ l.passwd # Null => l.host # Null
  BY DEF Line
<1>2. CASE l.host = Null
  <2>1. Tokens(l) = {}
    BY <1>2 DEF Tokens
  <2> QED BY <1>1, <1>2, <2>1
<1>3. CASE l.host # Null
  <2>1. Tokens(l) = {"MAC", "HOST"} \cup (IF l.port # Null THEN {"PORT"} ELSE {})
                                    \cup (IF l.passwd # Null THEN {"PASS"} ELSE {})
    BY <1>3 DEF Tokens
  <2>2. Tokens(l) \subseteq Token /\ Tokens(l) # {}
    BY <2>1 DEF Token
  <2>3. "PASS" \in Tokens(l) <=> l.passwd # Null
    BY <2>1
  <2> QED BY <1>1, <1>3, <2>2, <2>3
<1> QED BY <1>2, <1>3

(* The scanned arrays hold texts, and the fields a line gives. *)
LEMMA ScannedType ==
  ASSUME NEW l \in Line,
         NEW arrays \in [mac : MacText, host : HostText, passwd : PassText]
  PROVE  /\ Scanned(l, arrays) \in [mac : MacText, host : HostText, passwd : PassText]
         /\ l.mac # Null => Scanned(l, arrays).mac = l.mac
         /\ l.host # Null => Scanned(l, arrays).host = l.host
         /\ l.passwd # Null => Scanned(l, arrays).passwd = l.passwd
<1>1. l \in Fields
  BY LineShape
<1>2. /\ OrElse(l.mac, arrays.mac) \in MacText
      /\ OrElse(l.host, arrays.host) \in HostText
      /\ OrElse(l.passwd, arrays.passwd) \in PassText
  BY <1>1 DEF OrElse, Fields
<1> QED BY <1>2 DEF Scanned, OrElse

-----------------------------------------------------------------------------
(* What is known while a call is under way: it has recognised nothing and    *)
(* found no port yet, and the stream has not failed.                         *)
CallUnderWay ==
  /\ phase = "reading" => tokens = {} /\ mport = 0
  /\ phase # "ended" => ~ fp.err

(* The end of the stream is noticed between calls only behind a last line    *)
(* that was not terminated.                                                  *)
EndNoticed ==
  phase # "ended" /\ fp.eof => fp.lines = <<>> /\ ~ fp.newline

(* The inductive invariant. It says nothing of *port outside of a call: in   *)
(* the program that is the port of the command line.                         *)
ReaderInv ==
  /\ ReaderTypeOK
  /\ CallUnderWay
  /\ EndNoticed
  /\ EntryIsTheLineRead
  /\ NoLineOnlyAtABrokenEnd

(* It holds initially. *)
LEMMA ReaderInitInv == StreamInit => ReaderInv
<1> SUFFICES ASSUME StreamInit PROVE ReaderInv
  OBVIOUS
<1>1. PICK f \in Files : fp = [lines |-> f.lines, newline |-> f.newline,
                               eof |-> FALSE, err |-> FALSE]
  BY DEF StreamInit
<1>2. f \in [lines : Seq(Line), newline : BOOLEAN]
  BY MacfileConstants
<1>3. fp \in [lines : Seq(Line), newline : BOOLEAN, eof : BOOLEAN, err : BOOLEAN]
  BY <1>1, <1>2
<1>4. ReaderTypeOK
  BY <1>3, MacfileConstants DEF StreamInit, ReaderTypeOK
<1>5. ~ fp.eof /\ ~ fp.err
  BY <1>1
<1> QED BY <1>4, <1>5 DEF StreamInit, ReaderInv, CallUnderWay, EndNoticed,
                         EntryIsTheLineRead, NoLineOnlyAtABrokenEnd

(* A call begins: whatever is left on the stack, nothing is recognised yet.  *)
LEMMA BeginParseInv == ReaderInv /\ BeginParse => ReaderInv'
<1> SUFFICES ASSUME ReaderInv, BeginParse PROVE ReaderInv'
  OBVIOUS
<1>1. local' \in [mac : MacText, host : HostText, passwd : PassText]
  <2>1. PICK m \in {local.mac, Garbage}, h \in {local.host, Garbage},
             p \in {local.passwd, Garbage} :
               local' = [mac |-> m, host |-> h, passwd |-> p]
    BY DEF BeginParse
  <2>2. m \in MacText /\ h \in HostText /\ p \in PassText
    BY MacfileConstants DEF ReaderInv, ReaderTypeOK
  <2> QED BY <2>1, <2>2
<1>2. ReaderTypeOK'
  BY <1>1 DEF BeginParse, ReaderInv, ReaderTypeOK
<1>3. CallUnderWay' /\ EndNoticed'
  BY DEF BeginParse, ReaderInv, CallUnderWay, EndNoticed
<1> QED BY <1>2, <1>3 DEF BeginParse, ReaderInv, EntryIsTheLineRead, NoLineOnlyAtABrokenEnd

(* A line is read: recognised, it determines the whole entry; if not, it has *)
(* written neither the port nor a token.                                     *)
LEMMA ReadLineInv == ReaderInv /\ ReadLine => ReaderInv'
<1> SUFFICES ASSUME ReaderInv, ReadLine PROVE ReaderInv'
  OBVIOUS
<1> DEFINE l == Head(fp.lines)
<1>0. /\ fp \in [lines : Seq(Line), newline : BOOLEAN, eof : BOOLEAN, err : BOOLEAN]
      /\ local \in [mac : MacText, host : HostText, passwd : PassText]
      /\ tokens = {} /\ mport = 0 /\ ~ fp.err
  BY DEF ReaderInv, ReaderTypeOK, CallUnderWay, ReadLine
<1>1. l \in Line /\ Tail(fp.lines) \in Seq(Line)
  BY <1>0 DEF ReadLine
<1> DEFINE atEnd == Tail(fp.lines) = <<>> /\ ~ fp.newline
<1>2. /\ fp' = [fp EXCEPT !.lines = Tail(@), !.eof = atEnd]
      /\ willy' = l
      /\ local' = Scanned(l, local)
      /\ tokens' = Tokens(l)
      /\ mport' = IF l.port # Null THEN l.port ELSE 0
      /\ phase' = IF Tokens(l) = {} THEN "reading" ELSE "parsed"
  BY <1>0 DEF ReadLine
<1>3. atEnd \in BOOLEAN
  OBVIOUS
<1> HIDE DEF l, atEnd
<1>4. fp' = [lines |-> Tail(fp.lines), newline |-> fp.newline, eof |-> atEnd,
             err |-> fp.err]
  BY <1>0, <1>2
<1>5. ReaderTypeOK'
  <2>1. fp' \in [lines : Seq(Line), newline : BOOLEAN, eof : BOOLEAN, err : BOOLEAN]
    BY <1>0, <1>1, <1>3, <1>4
  <2>2. local' \in [mac : MacText, host : HostText, passwd : PassText]
    BY <1>0, <1>1, <1>2, ScannedType
  <2>4. willy' \in Line \cup {Null} /\ tokens' \subseteq Token
    BY <1>1, <1>2, LineShape
  <2>5. phase' \in {"idle", "reading", "parsed", "ended"}
    BY <1>2
  <2> QED BY <2>1, <2>2, <2>4, <2>5 DEF ReaderTypeOK
<1>6. CallUnderWay'
  BY <1>0, <1>1, <1>2, <1>4, LineShape DEF CallUnderWay
<1>7. EndNoticed'
  BY <1>4 DEF EndNoticed, atEnd
<1>8. EntryIsTheLineRead'
  <2> SUFFICES ASSUME phase' = "parsed", tokens' # {}
               PROVE  willy' # Null /\ Entry' = EntryOf(willy)'
    BY DEF EntryIsTheLineRead
  <2>1. l.host # Null /\ l.mac # Null
    BY <1>1, <1>2, LineShape
  <2>2. local'.mac = l.mac /\ local'.host = l.host
    BY <1>0, <1>1, <1>2, <2>1, ScannedType
  <2>3. (IF "PASS" \in tokens' THEN local'.passwd ELSE Null) = l.passwd
    BY <1>0, <1>1, <1>2, LineShape, ScannedType
  <2>4. mport' = IF l.port = Null THEN 0 ELSE l.port
    BY <1>2
  <2>5. Entry' = [mac |-> l.mac, host |-> l.host,
                  port |-> IF l.port = Null THEN 0 ELSE l.port, passwd |-> l.passwd]
    BY <2>2, <2>3, <2>4 DEF Entry
  <2>6. willy' # Null
    BY <1>1, <1>2, LineShape, MacfileConstants
  <2> QED BY <1>2, <2>5, <2>6 DEF EntryOf
<1>9. NoLineOnlyAtABrokenEnd'
  BY <1>2 DEF NoLineOnlyAtABrokenEnd
<1> QED BY <1>5, <1>6, <1>7, <1>8, <1>9 DEF ReaderInv

(* A call that fails: the program reads no further. *)
LEMMA ReadEndsInv == ReaderInv /\ (ReadPastEnd \/ ReadError) => ReaderInv'
<1> SUFFICES ASSUME ReaderInv, ReadPastEnd \/ ReadError PROVE ReaderInv'
  OBVIOUS
<1>1. /\ phase' = "ended"
      /\ UNCHANGED <<local, willy, tokens, mport>>
      /\ fp' = [fp EXCEPT !.eof = TRUE] \/ fp' = [fp EXCEPT !.err = TRUE]
  BY DEF ReadPastEnd, ReadError
<1>2. fp' \in [lines : Seq(Line), newline : BOOLEAN, eof : BOOLEAN, err : BOOLEAN]
  BY <1>1 DEF ReaderInv, ReaderTypeOK
<1>3. ReaderTypeOK'
  BY <1>1, <1>2 DEF ReaderInv, ReaderTypeOK
<1> QED BY <1>1, <1>3 DEF ReaderInv, CallUnderWay, EndNoticed, EntryIsTheLineRead,
                         NoLineOnlyAtABrokenEnd

(* The loop is left without a line: the stream has no error, so it has ended *)
(* behind an unterminated line.                                              *)
LEMMA LeaveLoopInv == ReaderInv /\ LeaveLoop => ReaderInv'
<1> SUFFICES ASSUME ReaderInv, LeaveLoop PROVE ReaderInv'
  OBVIOUS
<1>1. /\ phase = "reading" /\ ~ fp.err /\ fp.eof /\ tokens = {}
      /\ phase' = "parsed"
      /\ UNCHANGED <<fp, local, willy, tokens, mport>>
  BY DEF LeaveLoop, ReaderInv, CallUnderWay
<1>2. fp.lines = <<>> /\ ~ fp.newline
  BY <1>1 DEF ReaderInv, EndNoticed
<1>3. ReaderTypeOK'
  BY <1>1 DEF ReaderInv, ReaderTypeOK
<1> QED BY <1>1, <1>2, <1>3 DEF ReaderInv, CallUnderWay, EndNoticed, EntryIsTheLineRead,
                               NoLineOnlyAtABrokenEnd

(* The caller takes the entry. *)
LEMMA TakeEntryInv == ReaderInv /\ TakeEntry => ReaderInv'
<1> SUFFICES ASSUME ReaderInv, TakeEntry PROVE ReaderInv'
  OBVIOUS
<1>1. /\ phase = "parsed" /\ phase' = "idle"
      /\ UNCHANGED <<fp, local, willy, tokens, mport>>
  BY DEF TakeEntry
<1> QED BY <1>1 DEF ReaderInv, ReaderTypeOK, CallUnderWay, EndNoticed,
                   EntryIsTheLineRead, NoLineOnlyAtABrokenEnd

(* Every step of the reader preserves it. *)
LEMMA ReaderNextInv == ReaderInv /\ [FileNext]_fileVars => ReaderInv'
<1>1. ReaderInv /\ FileNext => ReaderInv'
  BY BeginParseInv, ReadLineInv, ReadEndsInv, LeaveLoopInv, TakeEntryInv
  DEF FileNext, ReadStep
<1>2. ReaderInv /\ UNCHANGED fileVars => ReaderInv'
  BY DEF fileVars, ReaderInv, ReaderTypeOK, CallUnderWay, EndNoticed,
         EntryIsTheLineRead, NoLineOnlyAtABrokenEnd, Entry, EntryOf
<1> QED BY <1>1, <1>2

(* All of it holds for every stream. *)
THEOREM ReaderInvariant == FileSpec => []ReaderInv
<1>1. FileInit => ReaderInv
  BY ReaderInitInv DEF FileInit
<1>2. ReaderInv /\ [FileNext]_fileVars => ReaderInv'
  BY ReaderNextInv
<1> QED BY <1>1, <1>2, PTL DEF FileSpec

(* The reader's state keeps its type; what it writes to *port is what the    *)
(* patterns can make of a port field, or 0.                                  *)
THEOREM ReaderTypeCorrect == FileSpec => []FileTypeOK
<1>1. FileInit => ReaderInv /\ FileTypeOK
  BY ReaderInitInv DEF ReaderInv, FileTypeOK, FileInit
<1>2. ReaderInv /\ FileTypeOK /\ [FileNext]_fileVars => (ReaderInv /\ FileTypeOK)'
  <2> SUFFICES ASSUME ReaderInv, FileTypeOK, [FileNext]_fileVars
               PROVE  ReaderInv' /\ FileTypeOK'
    OBVIOUS
  <2>1. ReaderInv'
    BY ReaderNextInv
  <2>2. mport' \in PortNum \cup {0}
    <3>1. CASE ReadLine
      <4>1. Head(fp.lines) \in Line
        BY <3>1 DEF ReadLine, ReaderInv, ReaderTypeOK
      <4> QED BY <3>1, <4>1, LineShape DEF ReadLine, FileTypeOK, Fields
    <3>2. CASE ~ ReadLine
      <4>1. mport' \in {0, mport}
        BY <3>2 DEF FileNext, ReadStep, BeginParse, ReadPastEnd, ReadError, LeaveLoop,
                    TakeEntry, fileVars
      <4> QED BY <4>1 DEF FileTypeOK
    <3> QED BY <3>1, <3>2
  <2> QED BY <2>1, <2>2 DEF ReaderInv, FileTypeOK
<1> QED BY <1>1, <1>2, PTL DEF FileSpec

(* An entry that comes from a recognised line is that line's and nothing     *)
(* else's, although the arrays it is copied from are never cleared.          *)
THEOREM EntryComesFromItsLine == FileSpec => []EntryIsTheLineRead
<1>1. ReaderInv => EntryIsTheLineRead
  BY DEF ReaderInv
<1> QED BY <1>1, ReaderInvariant, PTL

(* An entry that comes from no line occurs only at the end of a stream whose *)
(* last line is not terminated.                                              *)
THEOREM NoLineMeansBrokenEnd == FileSpec => []NoLineOnlyAtABrokenEnd
<1>1. ReaderInv => NoLineOnlyAtABrokenEnd
  BY DEF ReaderInv
<1> QED BY <1>1, ReaderInvariant, PTL
=============================================================================
