------------------------------ MODULE Options ------------------------------
(***************************************************************************)
(* The command line of src/wol.c: parse_args, one action per case of its   *)
(* switch, setting the globals that main works with afterwards.            *)
(*                                                                         *)
(* A command line is what getopt_long makes of argv: the options in their  *)
(* order, each a character with its argument (Null for none), and the      *)
(* operands it has moved behind them.  A pointer is a record of the text   *)
(* it points to and of the memory that text lives in, or Null.             *)
(***************************************************************************)
EXTENDS Integers, Sequences, Texts

CONSTANTS
  PathText,        \* texts that can be given as a file name
  Dash,            \* the operand and the file name "-"
  DashPaths,       \* file names that begin with "-"
  Numeral,         \* values the leading digits of a numeric argument have
  NotNum,          \* a numeric argument without leading digits
  Word,            \* the number of values of an unsigned int
  DEFAULT_IPADDR,  \* include/wol.h
  DEFAULT_PORT,
  CommandLines     \* the command lines considered

VARIABLES
  cmd,            \* the command line, sorted by getopt_long
  pos,            \* the option getopt_long delivers next
  packet_mode,    \* the bits set in packet_mode
  host_str,       \* pointers
  passwd,
  port,
  msecs,          \* in microseconds, in spite of its name
  pathname,
  password_set,
  request_stdin,
  asked,          \* how often a password was asked for
  misuse,         \* what was done to memory that must not be done
  pc,             \* options, parsed, ..., exited
  status          \* exit status

optionVars == <<cmd, pos, packet_mode, host_str, passwd, port, msecs, pathname,
                password_set, request_stdin, asked, misuse, pc, status>>

Mode == {"UDP", "RAW", "PROXY"}
Mem  == {"argv", "heap", "freed"}   \* "argv" is all memory malloc does not know
Ptr(Text) == [text : Text, mem : Mem] \cup {Null}

Running == -1
Aborted == 134   \* what the shell reports of a process killed by abort()
Killed  == 141   \* ... and by SIGPIPE

Number == Numeral \cup {NotNum}

(* What each option can be followed by. *)
Opt ==
       [c : {"H", "V", "v", "?", "-", "u", "r"}, arg : {Null}]
  \cup [c : {"w", "p"}, arg : Number]
  \cup [c : {"s", "h", "i"}, arg : HostText]
  \cup [c : {"f"}, arg : PathText]
  \cup [c : {"P"}, arg : PassText \cup {Null}]

(* The ports a datagram can be sent to. *)
MaxPort == 65535
ValidPort(n) == n \in 1..MaxPort

ASSUME DefaultConstants ==
  /\ DEFAULT_IPADDR \in HostText
  /\ ValidPort(DEFAULT_PORT)

ASSUME PathConstants ==
  /\ Dash \in DashPaths
  /\ DashPaths \subseteq PathText

(* Numerals of up to nine digits. *)
ASSUME NumberConstants ==
  /\ \A n \in Numeral : n \in Nat /\ n < 1000000000
  /\ NotNum \notin Nat
  /\ Word \in Nat \ {0}

ASSUME NullConstants ==
  /\ Null \notin MacText \cup HostText \cup PassText \cup PathText
  /\ \A T \in {MacText, HostText, PassText} : Null \notin [text : T, mem : Mem]

ASSUME CommandLineConstants ==
  CommandLines \subseteq [opts : Seq(Opt), operands : Seq(MacText \cup {Dash})]

(* What can be done to memory against the rules of malloc: see misuse. *)
Misuse == {"realloc argv", "free argv", "use after free", "double free"}

GlobalsOK ==
  /\ cmd \in CommandLines
  /\ pos \in Nat \ {0}
  /\ packet_mode \subseteq Mode
  /\ host_str \in Ptr(HostText) /\ passwd \in Ptr(PassText)
  /\ port \in Nat
  /\ msecs \in 0..Word - 1
  /\ pathname \in PathText \cup {Null}
  /\ password_set \in BOOLEAN /\ request_stdin \in BOOLEAN
  /\ asked \in Nat
  /\ misuse \subseteq Misuse
  /\ status \in {Running, 0, 1, Aborted, Killed}

OptTypeOK == GlobalsOK /\ pc \in {"options", "parsed", "exited"}

OptInit ==
  /\ cmd \in CommandLines
  /\ pos = 1
  /\ packet_mode = {"UDP"}
  /\ host_str = [text |-> DEFAULT_IPADDR, mem |-> "argv"]
  /\ passwd = Null
  /\ port = DEFAULT_PORT
  /\ msecs = 0
  /\ pathname = Null
  /\ password_set = FALSE /\ request_stdin = FALSE
  /\ asked = 0
  /\ misuse = {}
  /\ pc = "options"
  /\ status = Running

-----------------------------------------------------------------------------
(* getopt_long delivers one of the option characters cs. *)
Getopt(cs) ==
  /\ pc = "options"
  /\ pos <= Len(cmd.opts)
  /\ cmd.opts[pos].c \in cs

c      == cmd.opts[pos].c
optarg == cmd.opts[pos].arg

Continue == pos' = pos + 1 /\ UNCHANGED <<pc, status>>
Exit(s)  == pc' = "exited" /\ status' = s /\ UNCHANGED pos

(* --help and --version *)
HelpOrVersion ==
  /\ Getopt({"H", "V"})
  /\ Exit(0)
  /\ UNCHANGED <<cmd, packet_mode, host_str, passwd, port, msecs, pathname,
                 password_set, request_stdin, asked, misuse>>

(* --verbose, which only adds output, and characters without a case: "-" in  *)
(* a group of options and everything getopt_long has complained about.       *)
NothingToSet ==
  /\ Getopt({"v", "?", "-"})
  /\ Continue
  /\ UNCHANGED <<cmd, packet_mode, host_str, passwd, port, msecs, pathname,
                 password_set, request_stdin, asked, misuse>>

(* sscanf and the multiplication both keep the low bits only. *)
Microseconds(n) == ((n % Word) * 1000) % Word

SetWait ==
  /\ Getopt({"w"})
  /\ IF optarg = NotNum
       THEN Exit(1) /\ UNCHANGED msecs
       ELSE Continue /\ msecs' = Microseconds(optarg)
  /\ UNCHANGED <<cmd, packet_mode, host_str, passwd, port, pathname,
                 password_set, request_stdin, asked, misuse>>

SetUdp ==
  /\ Getopt({"u"})
  /\ Continue
  /\ packet_mode' = (packet_mode \cup {"UDP"}) \ {"RAW", "PROXY"}
  /\ UNCHANGED <<cmd, host_str, passwd, port, msecs, pathname,
                 password_set, request_stdin, asked, misuse>>

SetRaw ==
  /\ Getopt({"r"})
  /\ Continue
  /\ packet_mode' = (packet_mode \cup {"RAW"}) \ {"UDP", "PROXY"}
  /\ UNCHANGED <<cmd, host_str, passwd, port, msecs, pathname,
                 password_set, request_stdin, asked, misuse>>

(* Mutant of SetProxyOrHost: the case of --proxy has its own break. *)
SetProxyWithBreak ==
  /\ Getopt({"s", "h", "i"})
  /\ Continue
  /\ packet_mode' = IF c = "s" THEN (packet_mode \cup {"PROXY"}) \ {"UDP", "RAW"}
                               ELSE packet_mode
  /\ host_str' = IF c = "s" THEN host_str ELSE [text |-> optarg, mem |-> "argv"]
  /\ UNCHANGED <<cmd, passwd, port, msecs, pathname,
                 password_set, request_stdin, asked, misuse>>

(* The case of --proxy falls through into that of --host. *)
SetProxyOrHost ==
  /\ Getopt({"s", "h", "i"})
  /\ Continue
  /\ packet_mode' = IF c = "s" THEN (packet_mode \cup {"PROXY"}) \ {"UDP", "RAW"}
                               ELSE packet_mode
  /\ host_str' = [text |-> optarg, mem |-> "argv"]
  /\ UNCHANGED <<cmd, passwd, port, msecs, pathname,
                 password_set, request_stdin, asked, misuse>>

(* "%5u" converts the first five digits and leaves the others alone. *)
FirstFive(n) ==
  IF n < 100000 THEN n
  ELSE IF n < 1000000 THEN n \div 10
  ELSE IF n < 10000000 THEN n \div 100
  ELSE IF n < 100000000 THEN n \div 1000
  ELSE n \div 10000

SetPort ==
  /\ Getopt({"p"})
  /\ IF optarg = NotNum
       THEN Exit(1) /\ UNCHANGED port
       ELSE LET n == FirstFive(optarg)
            IN  /\ port' = n
                /\ IF n > MaxPort \/ n = 0 THEN Exit(1) ELSE Continue
  /\ UNCHANGED <<cmd, packet_mode, host_str, passwd, msecs, pathname,
                 password_set, request_stdin, asked, misuse>>

SetFile ==
  /\ Getopt({"f"})
  /\ Continue
  /\ pathname' = optarg
  /\ UNCHANGED <<cmd, packet_mode, host_str, passwd, port, msecs,
                 password_set, request_stdin, asked, misuse>>

SetPasswd ==
  /\ Getopt({"P"}) /\ optarg # Null
  /\ Continue
  /\ passwd' = [text |-> optarg, mem |-> "argv"]
  /\ UNCHANGED <<cmd, packet_mode, host_str, port, msecs, pathname,
                 password_set, request_stdin, asked, misuse>>

(* Mutant of AskPasswd: the prompt is forgotten. *)
AskPasswdAgain ==
  /\ Getopt({"P"}) /\ optarg = Null /\ ~ password_set
  /\ asked' = asked + 1
  /\ Continue
  /\ \E typed \in PassText : passwd' = [text |-> typed, mem |-> "heap"]
  /\ UNCHANGED <<cmd, packet_mode, host_str, port, msecs, pathname,
                 password_set, request_stdin, misuse>>

(* getpass4: no terminal or no input ends the program.  With a null pointer  *)
(* getline allocates; else it takes the text for its own buffer, of a size   *)
(* nobody has set: it writes into it, or fails to reallocate it.             *)
AskPasswd ==
  /\ Getopt({"P"}) /\ optarg = Null /\ ~ password_set
  /\ asked' = asked + 1
  /\ \/ /\ Exit(1)
        /\ UNCHANGED <<passwd, password_set, misuse>>
     \/ /\ Continue
        /\ \E typed \in PassText :
             passwd' = [text |-> typed,
                        mem  |-> IF passwd = Null THEN "heap" ELSE passwd.mem]
        /\ password_set' = TRUE
        /\ misuse' = IF passwd = Null THEN misuse ELSE misuse \cup {"realloc argv"}
     \/ /\ passwd # Null
        /\ Exit(Aborted)
        /\ misuse' = misuse \cup {"realloc argv"}
        /\ UNCHANGED <<passwd, password_set>>
  /\ UNCHANGED <<cmd, packet_mode, host_str, port, msecs, pathname, request_stdin>>

AskedBefore ==
  /\ Getopt({"P"}) /\ optarg = Null /\ password_set
  /\ Continue
  /\ UNCHANGED <<cmd, packet_mode, host_str, passwd, port, msecs, pathname,
                 password_set, request_stdin, asked, misuse>>

(* Behind the loop: is there anything to do, and is it on standard input?    *)
(* The file name is looked at only when there is no operand, and only its    *)
(* first character is.                                                       *)
NothingToDo == cmd.operands = <<>> /\ pathname = Null

EndOfOptions ==
  /\ pc = "options" /\ pos > Len(cmd.opts)
  /\ IF NothingToDo
       THEN Exit(1) /\ UNCHANGED request_stdin
       ELSE /\ pc' = "parsed"
            /\ request_stdin' =
                 IF cmd.operands # <<>>
                   THEN \E k \in 1..Len(cmd.operands) : cmd.operands[k] = Dash
                   ELSE pathname \in DashPaths
            /\ UNCHANGED <<pos, status>>
  /\ UNCHANGED <<cmd, packet_mode, host_str, passwd, port, msecs, pathname,
                 password_set, asked, misuse>>

ParseStep ==
  \/ HelpOrVersion \/ NothingToSet \/ SetWait \/ SetUdp \/ SetRaw
  \/ SetProxyOrHost \/ SetPort \/ SetFile \/ SetPasswd \/ AskPasswd
  \/ AskedBefore \/ EndOfOptions

OptSpec == OptInit /\ [][ParseStep]_optionVars /\ WF_optionVars(ParseStep)

-----------------------------------------------------------------------------
Parsed   == pc = "parsed"
Given(cs) == {k \in 1..Len(cmd.opts) : cmd.opts[k].c \in cs}
Last(ks)  == cmd.opts[CHOOSE k \in ks : \A j \in ks : j <= k]

(* The mode tests of main and assemble_and_send look at one bit at a time:   *)
(* they agree with each other because exactly one bit is ever set.           *)
OneMode == \E m \in Mode : packet_mode = {m}

(* The port handed to the network is one that a datagram can have.           *)
PortInRange == Parsed => ValidPort(port)

(* Of contradicting options the last one counts, in whatever order and       *)
(* number they come; what no option sets has the documented default.         *)
LastOptionWins ==
  Parsed =>
    /\ LET ks == Given({"u", "r", "s"})
           ModeOf == [u |-> "UDP", r |-> "RAW", s |-> "PROXY"]
       IN  packet_mode = IF ks = {} THEN {"UDP"} ELSE {ModeOf[Last(ks).c]}
    /\ LET ks == Given({"h", "i", "s"})
       IN  host_str.text = IF ks = {} THEN DEFAULT_IPADDR ELSE Last(ks).arg
    /\ LET ks == Given({"p"})
       IN  port = IF ks = {} THEN DEFAULT_PORT ELSE FirstFive(Last(ks).arg)
    /\ LET ks == Given({"f"})
       IN  pathname = IF ks = {} THEN Null ELSE Last(ks).arg

(* The password of the last --passwd=PASS is used, unless the prompt of the  *)
(* first --passwd came after it; the user is never prompted a second time.   *)
PasswordInEffect ==
  LET prompts == {k \in Given({"P"}) : cmd.opts[k].arg = Null}
      prompt  == CHOOSE k \in prompts : \A j \in prompts : k <= j
      given   == Given({"P"}) \ prompts
  IN  /\ asked <= 1
      /\ Parsed =>
           IF given # {} /\ (prompts = {} \/ \E k \in given : k > prompt)
             THEN passwd = [text |-> Last(given).arg, mem |-> "argv"]
           ELSE IF prompts # {} THEN asked = 1 /\ passwd # Null
           ELSE passwd = Null

(* lib/getstr.c on the pointer getline is given: "a pointer returned from    *)
(* malloc (or NULL), pointing to *N characters of space" (here it can point  *)
(* into argv, with N unset).                                                 *)
PromptUsesItsOwnMemory == misuse = {}

(* Parsing the command line comes to an end. *)
ParsingEnds == <>(pc # "options")
=============================================================================
