------------------------------ MODULE Macfile ------------------------------
(***************************************************************************)
(* The macfile reader of src/macfile.c.  Every call of macfile_parse reads *)
(* lines from the stream until get_tokens recognises one, and returns      *)
(* copies of the automatic arrays the fields were scanned into.  The same  *)
(* stack is used by every call, so an array nobody has written in a call   *)
(* holds what an earlier call left there, or something else altogether.    *)
(*                                                                         *)
(* A line is the record of the fields the scan patterns find in it, Null   *)
(* where a field is missing; comments and blank lines have no field.  The  *)
(* stream ends with a newline or in the middle of its last line.           *)
(***************************************************************************)
EXTENDS Integers, Sequences, Texts

CONSTANTS
  PortNum,    \* what ":%5u" can make of a port field
  Garbage,    \* content of an array nobody ever wrote
  Files       \* the streams: records of lines and of the final newline

VARIABLES
  fp,      \* the stream: lines to come, final newline, the two flags
  local,   \* the arrays mac, host and passwd of macfile_parse
  willy,   \* the last line getline returned in this call, or Null
  tokens,  \* parsed_tokens
  mport,   \* *port, which get_tokens writes through
  phase    \* idle, reading, or the outcome of a call: parsed, ended

fileVars == <<fp, local, willy, tokens, mport, phase>>

Fields == [ mac    : MacText \cup {Null},
            host   : HostText \cup {Null},
            port   : PortNum \cup {Null},
            passwd : PassText \cup {Null} ]

(* The patterns match left to right: no field without those before it. *)
Line == { l \in Fields : /\ l.host # Null => l.mac # Null
                         /\ l.port # Null => l.host # Null
                         /\ l.passwd # Null => l.host # Null }

Token == {"MAC", "HOST", "PORT", "PASS"}

ASSUME MacfileConstants ==
  /\ Null \notin MacText \cup HostText \cup PassText \cup PortNum
  /\ Null \notin Fields
  /\ Garbage \in MacText \cap HostText \cap PassText
  /\ PortNum \subseteq Nat
  /\ Files \subseteq [lines : Seq(Line), newline : BOOLEAN]

ReaderTypeOK ==
  /\ fp \in [lines : Seq(Line), newline : BOOLEAN, eof : BOOLEAN, err : BOOLEAN]
  /\ local \in [mac : MacText, host : HostText, passwd : PassText]
  /\ willy \in Line \cup {Null}
  /\ tokens \subseteq Token
  /\ phase \in {"idle", "reading", "parsed", "ended"}

FileTypeOK == ReaderTypeOK /\ mport \in PortNum \cup {0}

-----------------------------------------------------------------------------
(* get_tokens: which fields count.  Its first test, meant for comments,      *)
(* never succeeds ("%*s" assigns nothing); comment lines fall through all    *)
(* four patterns like any line without an address and a host.                *)
Tokens(l) ==
  IF l.host = Null THEN {}
  ELSE {"MAC", "HOST"} \cup (IF l.port # Null THEN {"PORT"} ELSE {})
                       \cup (IF l.passwd # Null THEN {"PASS"} ELSE {})

(* A pattern that fails half way has already stored the fields before.       *)
OrElse(field, old) == IF field # Null THEN field ELSE old

Scanned(l, arrays) ==
  [ mac    |-> OrElse(l.mac, arrays.mac),
    host   |-> OrElse(l.host, arrays.host),
    passwd |-> OrElse(l.passwd, arrays.passwd) ]

StreamInit ==
  /\ \E f \in Files : fp = [lines |-> f.lines, newline |-> f.newline,
                            eof |-> FALSE, err |-> FALSE]
  /\ local = [mac |-> Garbage, host |-> Garbage, passwd |-> Garbage]
  /\ willy = Null
  /\ tokens = {}
  /\ phase = "idle"

FileInit == StreamInit /\ mport = 0

(* Entry of macfile_parse: *port is cleared, the arrays are not.  Each holds *)
(* what the last call left, unless other calls have overwritten the stack.   *)
BeginParse ==
  /\ phase = "idle"
  /\ \E m \in {local.mac, Garbage}, h \in {local.host, Garbage},
        p \in {local.passwd, Garbage} :
       local' = [mac |-> m, host |-> h, passwd |-> p]
  /\ willy' = Null
  /\ tokens' = {}
  /\ mport' = 0
  /\ phase' = "reading"
  /\ UNCHANGED fp

(* The loop, when getline delivers a line.  Reading an unterminated last     *)
(* line makes the stream hit its end.                                        *)
ReadLine ==
  /\ phase = "reading"
  /\ ~ fp.eof /\ ~ fp.err
  /\ fp.lines # <<>>
  /\ LET l == Head(fp.lines)
     IN  /\ fp' = [fp EXCEPT !.lines = Tail(@),
                             !.eof = Tail(fp.lines) = <<>> /\ ~ fp.newline]
         /\ willy' = l
         /\ local' = Scanned(l, local)
         /\ tokens' = Tokens(l)
         /\ mport' = IF l.port # Null THEN l.port ELSE mport
         /\ phase' = IF Tokens(l) = {} THEN "reading" ELSE "parsed"

(* Mutants of ReadPastEnd: the loop is left instead of the function; the      *)
(* result of getline is not looked at.                                       *)
ReadPastEndBreaks ==
  /\ phase = "reading"
  /\ ~ fp.eof /\ ~ fp.err
  /\ fp.lines = <<>>
  /\ fp' = [fp EXCEPT !.eof = TRUE]
  /\ phase' = "parsed"
  /\ UNCHANGED <<local, willy, tokens, mport>>
ReadPastEndGoesOn ==
  /\ phase = "reading"
  /\ ~ fp.eof /\ ~ fp.err
  /\ fp.lines = <<>>
  /\ fp' = [fp EXCEPT !.eof = TRUE]
  /\ UNCHANGED <<phase, local, willy, tokens, mport>>

(* getline returns -1 because nothing is left. *)
ReadPastEnd ==
  /\ phase = "reading"
  /\ ~ fp.eof /\ ~ fp.err
  /\ fp.lines = <<>>
  /\ fp' = [fp EXCEPT !.eof = TRUE]
  /\ phase' = "ended"
  /\ UNCHANGED <<local, willy, tokens, mport>>

(* A read error; the caller is told the same as at the end of the file. *)
ReadError ==
  /\ phase = "reading"
  /\ ~ fp.eof /\ ~ fp.err
  /\ fp' = [fp EXCEPT !.err = TRUE]
  /\ phase' = "ended"
  /\ UNCHANGED <<local, willy, tokens, mport>>

(* The loop condition fails before a line was recognised: the call goes on   *)
(* behind the loop and duplicates the arrays as they are.                    *)
LeaveLoop ==
  /\ phase = "reading"
  /\ fp.eof \/ fp.err
  /\ phase' = IF fp.err THEN "ended" ELSE "parsed"
  /\ UNCHANGED <<fp, local, willy, tokens, mport>>

ReadStep == ReadLine \/ ReadPastEnd \/ ReadError \/ LeaveLoop

(* Mutant of Entry: the password array is duplicated without asking whether  *)
(* the line had a password.                                                  *)
EntryWithoutTest ==
  [ mac    |-> local.mac,
    host   |-> local.host,
    port   |-> mport,
    passwd |-> local.passwd ]

(* What a successful call hands out through its four pointers. *)
Entry ==
  [ mac    |-> local.mac,
    host   |-> local.host,
    port   |-> mport,
    passwd |-> IF "PASS" \in tokens THEN local.passwd ELSE Null ]

(* The caller takes the entry and calls again; it stops when a call fails. *)
TakeEntry ==
  /\ phase = "parsed"
  /\ phase' = "idle"
  /\ UNCHANGED <<fp, local, willy, tokens, mport>>

FileNext == BeginParse \/ ReadStep \/ TakeEntry

FileSpec == FileInit /\ [][FileNext]_fileVars

(* The reader runs on as long as it can: getline blocks on nothing but the   *)
(* end of the stream, which every stream of Files has.                       *)
FileFairSpec == FileSpec /\ WF_fileVars(FileNext)

-----------------------------------------------------------------------------
(* The fields a line stands for in the file format of doc/wol.texi. *)
EntryOf(l) ==
  [ mac |-> l.mac, host |-> l.host,
    port |-> IF l.port = Null THEN 0 ELSE l.port, passwd |-> l.passwd ]

(* A successful call that has recognised a line returns the fields of that   *)
(* line and only those: no address, port or password left on the stack by an *)
(* earlier line slips into an entry that does not give them.                 *)
EntryIsTheLineRead ==
  phase = "parsed" /\ tokens # {} => /\ willy # Null
                                    /\ Entry = EntryOf(willy)

(* A call succeeds without having recognised a line only when the stream has *)
(* ended, and it then had no final newline.                                  *)
NoLineOnlyAtABrokenEnd ==
  phase = "parsed" /\ tokens = {} => /\ fp.eof /\ ~ fp.newline
                                    /\ fp.lines = <<>>

(* The calls of the main loop come to an end on every stream whose last line *)
(* is terminated, and on every stream that has a read error.                 *)
TerminatedFileEnds == (fp.newline \/ fp.err) ~> (phase = "ended")

(* What the loops of main and macfile_parse are written for: whatever the    *)
(* stream holds, the calls come to an end (they do not, see the run          *)
(* macfile_unterminated).                                                    *)
EndOfFileIsReported == <>(phase = "ended")
=============================================================================
