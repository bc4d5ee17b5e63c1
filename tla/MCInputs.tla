------------------------------ MODULE MCInputs ------------------------------
(***************************************************************************)
(* What wol is given, and how it is read: argv by getopt_long, the options *)
(* found in it by parse_args, and the macfile.  A behaviour is about one   *)
(* of the three; Wol puts the last two together.                           *)
(***************************************************************************)
EXTENDS Getopt, Options, Macfile

CONSTANTS macA, macB, hostA, hostB, broadcast, passA, passB,
          dash, dashFile, fileA

MCMacText   == {macA, macB, Garbage}
MCHostText  == {hostA, hostB, broadcast, Garbage}
MCPassText  == {passA, passB, Garbage}
MCPathText  == {dash, dashFile, fileA}
MCDashPaths == {dash, dashFile}

(* Command lines of up to three options, every option with at least two      *)
(* arguments that the code treats differently.  The numerals are around the  *)
(* limits of a port, of five digits, and (scaled, see Word) of what still is *)
(* an int after the multiplication by 1000.                                  *)
MCNumeral == {0, 7, 65, 66, 65535, 65536, 400001, 655360}
O(ch, a)  == [c |-> ch, arg |-> a]
MCOpts ==
  {O(ch, Null) : ch \in {"V", "v", "u", "r"}}
  \cup {O("w", a) : a \in {7, 66, NotNum}}
  \cup {O("s", hostB), O("h", hostA), O("i", hostB)}
  \cup {O("p", a) : a \in {0, 7, 65535, 65536, 400001, 655360, NotNum}}
  \cup {O("f", a) : a \in {fileA, dash, dashFile}}
  \cup {O("P", passA), O("P", Null)}
MCOperands == {<<>>, <<macA>>, <<macA, dash>>, <<dash>>}
LinesOver(opts, n) ==
  [opts : UNION {[1..k -> opts] : k \in 0..n}, operands : MCOperands]
AllLines == LinesOver(MCOpts, 3)

(* Lines for the question about the prompt. *)
PasswdLines == LinesOver({O("P", passA), O("P", passB), O("P", Null)}, 3)

(* All vectors of up to three elements of every shape, and of up to six over *)
(* the shapes that make segments of different length.                        *)
ArgWord         == [kind |-> "word"]
DashDash        == [kind |-> "--"]
Long(ch, t)     == [kind |-> "long", c |-> ch, text |-> t]
Short(chars, t) == [kind |-> "short", cs |-> chars, text |-> t]
Shapes ==
  { ArgWord, DashDash, Long("v", FALSE), Long("v", TRUE), Long("p", FALSE),
    Long("p", TRUE), Long("P", FALSE), Long("P", TRUE), Long("?", FALSE),
    Short(<<"v">>, FALSE), Short(<<"v", "r", "-">>, FALSE), Short(<<"p">>, FALSE),
    Short(<<"u", "p">>, TRUE), Short(<<"?", "p">>, FALSE) }
FewShapes == {ArgWord, Long("v", FALSE), Long("p", FALSE)}
MCArgVectors ==
  UNION {[1..n -> Shapes] : n \in 0..3}
  \cup UNION {[1..n -> FewShapes] : n \in 4..6}
  \cup {v \in [1..5 -> FewShapes \cup {DashDash}] :
           \E j \in 1..5 : \A k \in 1..5 : v[k] = DashDash <=> k = j}

(* Streams of up to three lines over every shape of line get_tokens tells    *)
(* apart, with and without the final newline.                                *)
MCPortNum == {0, 7, 70000}
FileLine(m, h, n, p) == [mac |-> m, host |-> h, port |-> n, passwd |-> p]
MCLines ==
  { FileLine(Null, Null, Null, Null),   \* blank line or comment
    FileLine(macB, Null, Null, Null),   \* an address alone
    FileLine(macA, hostA, Null, Null),
    FileLine(macB, hostB, 7, Null),
    FileLine(macA, hostB, Null, passA),
    FileLine(macB, hostA, 70000, passB) }
FilesOf(newlines) ==
  [lines : UNION {[1..n -> MCLines] : n \in 0..3}, newline : newlines]
UnterminatedFiles == { f \in FilesOf({FALSE}) : f.lines # <<>> }
AllFiles          == FilesOf({TRUE}) \cup UnterminatedFiles

-----------------------------------------------------------------------------
CONSTANT Inputs   \* which of them, to look at one alone
VARIABLE input
inputVars == <<input, getoptVars, optionVars, fileVars>>

(* What a behaviour is not about stays as one initial state. *)
Only(name, resting) == IF input = name THEN TRUE ELSE resting
InputsInit ==
  /\ input \in Inputs
  /\ Only("argv", args = <<>> /\ ordering = "PERMUTE")
  /\ Only("options", cmd = [opts |-> <<>>, operands |-> <<>>])
  /\ Only("macfile", fp = [lines |-> <<>>, newline |-> TRUE, eof |-> FALSE, err |-> FALSE])
  /\ FileInit /\ GetoptInit /\ OptInit

OfArgv(A)    == input = "argv" /\ A /\ UNCHANGED <<input, optionVars, fileVars>>
OfOptions(A) == input = "options" /\ A /\ UNCHANGED <<input, getoptVars, fileVars>>
OfMacfile(A) == input = "macfile" /\ A /\ UNCHANGED <<input, getoptVars, optionVars>>
InputsNext   == OfArgv(GetoptNext) \/ OfOptions(ParseStep) \/ OfMacfile(FileNext)

(* The fairness of the components: each is one process that runs on. *)
InputsSpec ==
  InputsInit /\ [][InputsNext]_inputVars /\ WF_inputVars(InputsNext)

(* Types of all that reading the inputs works with: the indices of getopt    *)
(* and exchange stay within argv, products of --wait within an int, and the  *)
(* arrays and the port of macfile_parse hold what its patterns can store.    *)
InputTypeOK ==
  CASE input = "argv"    -> GetoptTypeOK
    [] input = "options" -> OptTypeOK
    [] input = "macfile" -> FileTypeOK

(* getopt_long is called until it returns -1, and does so (ScanEnds), and    *)
(* macfile_parse returns -1 to the loop of main after every stream that has  *)
(* its final newline or a read error (TerminatedFileEnds).                   *)
ArgvScanEnds == input = "argv" => ScanEnds
MacfileEnds  == input = "macfile" => TerminatedFileEnds
=============================================================================
