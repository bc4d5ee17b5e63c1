----------------------------- MODULE WolProofs -----------------------------
(* Proofs about the whole program, for every command line, every stream and  *)
(* every packet layout: types, the ownership of memory, what an exit status  *)
(* of 0 means, what goes out and when; and that in UDP mode every step is    *)
(* one that WakeUp promises, or none.                                        *)
EXTENDS Wol, MagicPacketProofs, SequenceTheorems, TLAPS

-----------------------------------------------------------------------------
(* The option getopt_long delivers has the argument its character calls for. *)
LEMMA OptionDelivered ==
  ASSUME OptTypeOK, NEW cs, Getopt(cs)
  PROVE  /\ cmd.opts[pos] \in Opt
         /\ c \in cs
         /\ c \in {"w", "p"} => optarg \in Number
         /\ c \in {"s", "h", "i"} => optarg \in HostText
         /\ c = "f" => optarg \in PathText
         /\ c = "P" => optarg \in PassText \cup {Null}
<1>1. cmd.opts \in Seq(Opt) /\ pos \in 1..Len(cmd.opts)
  BY CommandLineConstants DEF OptTypeOK, GlobalsOK, Getopt
<1>2. cmd.opts[pos] \in Opt
  BY <1>1
<1> QED BY <1>2 DEF Opt, c, optarg, Getopt

(* The largest port is a number. *)
LEMMA MaxPortType == MaxPort \in Nat
BY SMT DEF MaxPort

(* The first five digits of a numeral are a number. *)
LEMMA FirstFiveType ==
  ASSUME NEW n \in Numeral
  PROVE  FirstFive(n) \in Nat
<1>1. n \in Nat
  BY NumberConstants, SMT
<1>2. \A k \in Nat \ {0} : n \div k \in Nat
  BY <1>1, SMT
<1>3. n \div 10 \in Nat /\ n \div 100 \in Nat /\ n \div 1000 \in Nat /\ n \div 10000 \in Nat
  BY <1>2, SMT
<1> QED BY <1>1, <1>3, SMT DEF FirstFive

(* The waiting time fits its word. *)
LEMMA MicrosecondsType ==
  ASSUME NEW n \in Numeral
  PROVE  Microseconds(n) \in 0..Word - 1
<1>1. n \in Nat /\ Word \in Nat \ {0}
  BY NumberConstants
<1>2. n % Word \in Nat
  BY <1>1
<1>3. (n % Word) * 1000 \in Nat
  BY <1>2
<1> QED BY <1>1, <1>3 DEF Microseconds

-----------------------------------------------------------------------------
(* Ports are checked as soon as they are scanned, and a prompt that does not *)
(* end the program is remembered.                                            *)
PortChecked == pc # "exited" => ValidPort(port)
AskedOnce ==
  /\ asked <= 1
  /\ pc = "options" /\ asked # 0 => password_set

(* The inductive invariant. *)
OptionsInv == OptTypeOK /\ OneMode /\ PortChecked /\ AskedOnce

(* It holds initially. *)
LEMMA OptInitInv == OptInit => OptionsInv
<1> SUFFICES ASSUME OptInit PROVE OptionsInv
  OBVIOUS
<1>1. OptTypeOK
  <2>1. DEFAULT_PORT \in Nat
    BY DefaultConstants, MaxPortType, SMT DEF ValidPort
  <2>2. Word \in Nat \ {0}
    BY NumberConstants
  <2>3. 0 \in 0..Word - 1
    BY <2>2, SMT
  <2>4. host_str \in Ptr(HostText) /\ passwd \in Ptr(PassText)
    BY DefaultConstants DEF OptInit, Ptr, Mem
  <2>5. password_set \in BOOLEAN /\ request_stdin \in BOOLEAN
    BY Zenon DEF OptInit
  <2>6. packet_mode \subseteq Mode /\ misuse \subseteq Misuse
    BY DEF OptInit, Mode
  <2>7. pos \in Nat \ {0} /\ asked \in Nat /\ port \in Nat /\ msecs \in 0..Word - 1
    BY <2>1, <2>3 DEF OptInit
  <2> QED BY <2>4, <2>5, <2>6, <2>7 DEF OptInit, OptTypeOK, GlobalsOK
<1>2. OneMode
  BY DEF OptInit, OneMode, Mode
<1>3. PortChecked /\ AskedOnce
  BY DefaultConstants DEF OptInit, PortChecked, AskedOnce
<1> QED BY <1>1, <1>2, <1>3 DEF OptionsInv

(* The options that leave mode, port and password alone. *)
LEMMA OtherOptionsInv ==
  ASSUME OptionsInv, HelpOrVersion \/ NothingToSet \/ SetWait \/ SetFile \/ AskedBefore
  PROVE  OptionsInv'
<1> USE DEF OptionsInv
<1>1. UNCHANGED <<cmd, packet_mode, host_str, passwd, port, password_set,
                  request_stdin, asked, misuse>>
  BY DEF HelpOrVersion, NothingToSet, SetWait, SetFile, AskedBefore
<1>2. /\ pc = "options"
      /\ \/ pos' = pos + 1 /\ UNCHANGED <<pc, status>>
         \/ pc' = "exited" /\ status' \in {0, 1} /\ pos' = pos
  BY DEF HelpOrVersion, NothingToSet, SetWait, SetFile, AskedBefore, Getopt, Continue, Exit
<1>3. msecs' \in 0..Word - 1
  <2>1. CASE SetWait
    BY <2>1, OptionDelivered, MicrosecondsType, NumberConstants
    DEF SetWait, Number, OptTypeOK, GlobalsOK
  <2>2. CASE ~ SetWait
    BY <2>2 DEF OptTypeOK, GlobalsOK, HelpOrVersion, NothingToSet, SetFile, AskedBefore
  <2> QED BY <2>1, <2>2
<1>4. pathname' \in PathText \cup {Null}
  <2>1. CASE SetFile
    BY <2>1, OptionDelivered DEF SetFile
  <2>2. CASE ~ SetFile
    BY <2>2 DEF OptTypeOK, GlobalsOK, HelpOrVersion, NothingToSet, SetWait, AskedBefore
  <2> QED BY <2>1, <2>2
<1>5. OptTypeOK'
  BY <1>1, <1>2, <1>3, <1>4 DEF OptTypeOK, GlobalsOK
<1>6. OneMode' /\ PortChecked' /\ AskedOnce'
  BY <1>1, <1>2 DEF OneMode, PortChecked, AskedOnce
<1> QED BY <1>5, <1>6

(* --udp, --raw, --proxy and --host: one bit is set and the others go. *)
LEMMA ModeAndHostInv ==
  ASSUME OptionsInv, SetUdp \/ SetRaw \/ SetProxyOrHost
  PROVE  OptionsInv'
<1> USE DEF OptionsInv
<1>1. /\ UNCHANGED <<cmd, passwd, port, msecs, pathname, password_set,
                     request_stdin, asked, misuse, pc, status>>
      /\ pos' = pos + 1
  BY DEF SetUdp, SetRaw, SetProxyOrHost, Continue
<1>2. packet_mode \subseteq Mode
  BY DEF OptTypeOK, GlobalsOK
<1>3. OneMode'
  <2>1. CASE SetUdp
    <3>1. packet_mode' = {"UDP"}
      BY <1>2, <2>1 DEF SetUdp, Mode
    <3> QED BY <3>1 DEF OneMode, Mode
  <2>2. CASE SetRaw
    <3>1. packet_mode' = {"RAW"}
      BY <1>2, <2>2 DEF SetRaw, Mode
    <3> QED BY <3>1 DEF OneMode, Mode
  <2>3. CASE SetProxyOrHost
    <3>1. packet_mode' = {"PROXY"} \/ packet_mode' = packet_mode
      BY <1>2, <2>3 DEF SetProxyOrHost, Mode
    <3> QED BY <3>1 DEF OneMode, Mode
  <2> QED BY <2>1, <2>2, <2>3
<1>4. packet_mode' \subseteq Mode
  BY <1>3 DEF OneMode
<1>5. host_str' \in Ptr(HostText)
  <2>1. CASE SetProxyOrHost
    <3>1. optarg \in HostText
      BY <2>1, OptionDelivered DEF SetProxyOrHost
    <3> QED BY <2>1, <3>1 DEF SetProxyOrHost, Ptr, Mem
  <2>2. CASE ~ SetProxyOrHost
    BY <2>2 DEF OptTypeOK, GlobalsOK, SetUdp, SetRaw
  <2> QED BY <2>1, <2>2
<1>6. OptTypeOK'
  BY <1>1, <1>4, <1>5 DEF OptTypeOK, GlobalsOK
<1> QED BY <1>1, <1>3, <1>6 DEF PortChecked, AskedOnce

(* --port: a port out of range ends the program. *)
LEMMA PortInv ==
  ASSUME OptionsInv, SetPort
  PROVE  OptionsInv'
<1> USE DEF OptionsInv
<1>1. /\ UNCHANGED <<cmd, packet_mode, host_str, passwd, msecs, pathname,
                     password_set, request_stdin, asked, misuse>>
      /\ pc = "options"
      /\ \/ pos' = pos + 1 /\ UNCHANGED <<pc, status>>
         \/ pc' = "exited" /\ status' = 1 /\ pos' = pos
  BY DEF SetPort, Getopt, Continue, Exit
<1>2. port' \in Nat
  BY OptionDelivered, FirstFiveType DEF SetPort, Number, OptTypeOK, GlobalsOK
<1>3. PortChecked'
  <2>1. CASE optarg = NotNum
    BY <2>1, <1>1 DEF SetPort, PortChecked, Exit
  <2>2. CASE optarg # NotNum
    <3>1. IF port' > MaxPort \/ port' = 0 THEN Exit(1) ELSE Continue
      BY <2>2, SMT DEF SetPort
    <3>2. CASE port' > MaxPort \/ port' = 0
      BY <3>1, <3>2, SMT DEF Exit, PortChecked
    <3>3. CASE ~ (port' > MaxPort \/ port' = 0)
      <4>1. port' \in 1..MaxPort
        BY <1>2, <3>3, MaxPortType, SMT
      <4> QED BY <4>1 DEF ValidPort, PortChecked
    <3> QED BY <3>2, <3>3
  <2> QED BY <2>1, <2>2
<1>4. OptTypeOK'
  BY <1>1, <1>2 DEF OptTypeOK, GlobalsOK
<1> QED BY <1>1, <1>3, <1>4 DEF OneMode, AskedOnce

(* --passwd=PASS and the prompt of --passwd. *)
LEMMA PasswdInv ==
  ASSUME OptionsInv, SetPasswd \/ AskPasswd
  PROVE  OptionsInv'
<1> USE DEF OptionsInv
<1>1. /\ UNCHANGED <<cmd, packet_mode, host_str, port, msecs, pathname, request_stdin>>
      /\ pc = "options"
      /\ \/ pos' = pos + 1 /\ UNCHANGED <<pc, status>>
         \/ pc' = "exited" /\ status' \in {1, Aborted} /\ pos' = pos
  <2>1. CASE SetPasswd
    BY <2>1 DEF SetPasswd, Getopt, Continue
  <2>2. CASE AskPasswd
    BY <2>2 DEF AskPasswd, Getopt, Continue, Exit
  <2> QED BY <2>1, <2>2
<1>2. passwd' \in Ptr(PassText)
  <2>1. CASE SetPasswd
    <3>1. optarg \in PassText
      BY <2>1, OptionDelivered DEF SetPasswd
    <3> QED BY <2>1, <3>1 DEF SetPasswd, Ptr, Mem
  <2>2. CASE AskPasswd
    <3>1. passwd \in Ptr(PassText)
      BY DEF OptTypeOK, GlobalsOK
    <3>2. passwd # Null => passwd.mem \in Mem
      BY <3>1 DEF Ptr
    <3>3. PICK mem : mem = IF passwd = Null THEN "heap" ELSE passwd.mem
      OBVIOUS
    <3>4. mem \in Mem
      BY <3>2, <3>3 DEF Mem
    <3>5. passwd' = passwd \/ \E typed \in PassText : passwd' = [text |-> typed, mem |-> mem]
      BY <2>2, <3>3 DEF AskPasswd
    <3> QED BY <3>1, <3>4, <3>5 DEF Ptr
  <2> QED BY <2>1, <2>2
<1>3. /\ asked' \in Nat
      /\ password_set' \in BOOLEAN
      /\ misuse' \subseteq Misuse
  <2>1. asked \in Nat /\ password_set \in BOOLEAN /\ misuse \subseteq Misuse
    BY DEF OptTypeOK, GlobalsOK
  <2>2. CASE SetPasswd
    BY <2>1, <2>2 DEF SetPasswd
  <2>3. CASE AskPasswd
    <3>1. asked' = asked + 1
      BY <2>3 DEF AskPasswd
    <3>2. password_set' = TRUE \/ password_set' = password_set
      BY <2>3, Zenon DEF AskPasswd
    <3>3. misuse' = misuse \/ misuse' = misuse \cup {"realloc argv"}
      BY <2>3 DEF AskPasswd
    <3>4. asked' \in Nat
      BY <2>1, <3>1
    <3>5. password_set' \in BOOLEAN
      BY <2>1, <3>2, Zenon
    <3>6. misuse' \subseteq Misuse
      BY <2>1, <3>3 DEF Misuse
    <3> QED BY <3>4, <3>5, <3>6
  <2> QED BY <2>2, <2>3
<1>4. AskedOnce'
  <2>1. CASE SetPasswd
    BY <2>1, <1>1 DEF SetPasswd, AskedOnce
  <2>2. CASE AskPasswd
    <3>1. asked = 0
      BY <2>2, <1>1 DEF AskPasswd, AskedOnce
    <3>2. asked' = 1
      <4>1. asked' = asked + 1
        BY <2>2 DEF AskPasswd
      <4> QED BY <3>1, <4>1
    <3>3. pc' = "exited" \/ password_set'
      BY <2>2, Zenon DEF AskPasswd, Exit
    <3> QED BY <3>2, <3>3 DEF AskedOnce
  <2> QED BY <2>1, <2>2
<1>5. OptTypeOK'
  BY <1>1, <1>2, <1>3 DEF OptTypeOK, GlobalsOK
<1> QED BY <1>1, <1>4, <1>5 DEF OneMode, PortChecked

(* Behind the loop. *)
LEMMA EndOfOptionsInv ==
  ASSUME OptionsInv, EndOfOptions
  PROVE  OptionsInv'
<1> USE DEF OptionsInv
<1>1. /\ UNCHANGED <<cmd, pos, packet_mode, host_str, passwd, port, msecs, pathname,
                     password_set, asked, misuse>>
      /\ pc = "options"
      /\ \/ pc' = "parsed" /\ UNCHANGED status
         \/ pc' = "exited" /\ status' = 1
  BY DEF EndOfOptions, Exit
<1>2. request_stdin' \in BOOLEAN
  <2>1. CASE NothingToDo
    BY <2>1 DEF EndOfOptions, OptTypeOK, GlobalsOK
  <2>2. CASE ~ NothingToDo
    <3> DEFINE dash == \E k \in 1..Len(cmd.operands) : cmd.operands[k] = Dash
               path == pathname \in DashPaths
    <3>1. dash \in BOOLEAN /\ path \in BOOLEAN
      OBVIOUS
    <3>2. request_stdin' = IF cmd.operands # <<>> THEN dash ELSE path
      BY <2>2, Zenon DEF EndOfOptions
    <3> HIDE DEF dash, path
    <3>3. request_stdin' = dash \/ request_stdin' = path
      BY <3>2, Zenon
    <3> QED BY <3>1, <3>3, Zenon
  <2> QED BY <2>1, <2>2
<1>3. OptTypeOK'
  BY <1>1, <1>2 DEF OptTypeOK, GlobalsOK
<1> QED BY <1>1, <1>3 DEF OneMode, PortChecked, AskedOnce

(* Every step of parse_args preserves it. *)
LEMMA ParseStepInv == OptionsInv /\ [ParseStep]_optionVars => OptionsInv'
<1> SUFFICES ASSUME OptionsInv, [ParseStep]_optionVars PROVE OptionsInv'
  OBVIOUS
<1>1. CASE ParseStep
  BY <1>1, OtherOptionsInv, ModeAndHostInv, PortInv, PasswdInv, EndOfOptionsInv
  DEF ParseStep
<1>2. CASE UNCHANGED optionVars
  BY <1>2 DEF optionVars, OptionsInv, OptTypeOK, GlobalsOK, OneMode, PortChecked,
              AskedOnce
<1> QED BY <1>1, <1>2

(* All of it holds throughout parse_args, for every set of command lines. *)
THEOREM OptionsInvariant == OptSpec => []OptionsInv
<1>1. OptInit => OptionsInv
  BY OptInitInv
<1>2. OptionsInv /\ [ParseStep]_optionVars => OptionsInv'
  BY ParseStepInv
<1> QED BY <1>1, <1>2, PTL DEF OptSpec

(* The globals parse_args sets keep their types. *)
THEOREM OptionsTypeCorrect == OptSpec => []OptTypeOK
<1>1. OptionsInv => OptTypeOK
  BY DEF OptionsInv
<1> QED BY <1>1, OptionsInvariant, PTL

(* Exactly one mode bit is set, whatever options were given in what order:   *)
(* the tests in main and in assemble_and_send choose the same branch.        *)
THEOREM ExactlyOneMode == OptSpec => []OneMode
<1>1. OptionsInv => OneMode
  BY DEF OptionsInv
<1> QED BY <1>1, OptionsInvariant, PTL

(* parse_args returns with a port a datagram can be sent to. *)
THEOREM PortIsInRange == OptSpec => []PortInRange
<1>1. OptionsInv => PortInRange
  BY DEF OptionsInv, PortChecked, PortInRange, Parsed
<1> QED BY <1>1, OptionsInvariant, PTL

(* The user is asked for a password at most once. *)
THEOREM AtMostOnePrompt == OptSpec => [](asked <= 1)
<1>1. OptionsInv => asked <= 1
  BY DEF OptionsInv, AskedOnce
<1> QED BY <1>1, OptionsInvariant, PTL

-----------------------------------------------------------------------------
(* What counts on a command line. The invariants say of the options scanned  *)
(* so far what the properties say of all of them.                            *)
Upto(o, cs, m)  == {k \in 1..m : o[k].c \in cs}
Greatest(o, ks) == o[CHOOSE k \in ks : \A j \in ks : j <= k]

(* One more option is either the last of its kind or of another kind.        *)
LEMMA UptoNext ==
  ASSUME NEW o, NEW cs, NEW m \in Nat \ {0}
  PROVE  /\ o[m].c \in cs => /\ Upto(o, cs, m) # {}
                             /\ Greatest(o, Upto(o, cs, m)) = o[m]
         /\ o[m].c \notin cs => Upto(o, cs, m) = Upto(o, cs, m - 1)
<1>1. CASE o[m].c \in cs
  <2> DEFINE ks == Upto(o, cs, m)
  <2>1. m \in ks /\ \A j \in ks : j \in Nat /\ j <= m
    BY <1>1 DEF Upto
  <2> HIDE DEF ks
  <2>2. \A k \in ks : (\A j \in ks : j <= k) => k = m
    BY <2>1
  <2>3. (CHOOSE k \in ks : \A j \in ks : j <= k) = m
    BY <2>1, <2>2
  <2> QED
    BY <1>1, <2>1, <2>3 DEF Greatest, ks
<1>2. CASE o[m].c \notin cs
  <2>1. 1..m = (1..(m - 1)) \cup {m}
    OBVIOUS
  <2> QED
    BY <1>2, <2>1 DEF Upto
<1> QED
  BY <1>1, <1>2

Counted(o, cs, m, default, ValueOf(_)) ==
  IF Upto(o, cs, m) = {} THEN default ELSE ValueOf(Greatest(o, Upto(o, cs, m)))

ModeOfLast(x) == {[u |-> "UDP", r |-> "RAW", s |-> "PROXY"][x.c]}
ArgOfLast(x)  == x.arg
PortOfLast(x) == FirstFive(x.arg)

ModeCounts(m) == Counted(cmd.opts, {"u", "r", "s"}, m, {"UDP"}, ModeOfLast)
HostCounts(m) == Counted(cmd.opts, {"h", "i", "s"}, m, DEFAULT_IPADDR, ArgOfLast)
PortCounts(m) == Counted(cmd.opts, {"p"}, m, DEFAULT_PORT, PortOfLast)
FileCounts(m) == Counted(cmd.opts, {"f"}, m, Null, ArgOfLast)

LastOptionInv ==
  /\ pc # "exited" =>
       /\ pos <= Len(cmd.opts) + 1
       /\ packet_mode = ModeCounts(pos - 1) /\ host_str.text = HostCounts(pos - 1)
       /\ port = PortCounts(pos - 1) /\ pathname = FileCounts(pos - 1)
  /\ pc = "parsed" => pos = Len(cmd.opts) + 1

(* The option at hand counts, or what counted before it.                     *)
LEMMA CountsNext ==
  ASSUME OptTypeOK, pos <= Len(cmd.opts), cmd' = cmd, pos' = pos + 1
  PROVE  /\ ModeCounts(pos - 1)' = IF c \in {"u", "r", "s"}
              THEN {[u |-> "UDP", r |-> "RAW", s |-> "PROXY"][c]} ELSE ModeCounts(pos - 1)
         /\ HostCounts(pos - 1)' = IF c \in {"h", "i", "s"} THEN optarg
                                                          ELSE HostCounts(pos - 1)
         /\ PortCounts(pos - 1)' = IF c = "p" THEN FirstFive(optarg)
                                              ELSE PortCounts(pos - 1)
         /\ FileCounts(pos - 1)' = IF c = "f" THEN optarg ELSE FileCounts(pos - 1)
<1>1. pos \in Nat \ {0} /\ (pos - 1)' = pos
  BY DEF OptTypeOK, GlobalsOK
<1>2. /\ c \in {"u", "r", "s"} =>
           /\ Upto(cmd.opts, {"u", "r", "s"}, pos) # {}
           /\ Greatest(cmd.opts, Upto(cmd.opts, {"u", "r", "s"}, pos)) = cmd.opts[pos]
      /\ c \notin {"u", "r", "s"} =>
           Upto(cmd.opts, {"u", "r", "s"}, pos) = Upto(cmd.opts, {"u", "r", "s"}, pos - 1)
  BY <1>1, UptoNext DEF c
<1>3. /\ c \in {"h", "i", "s"} =>
           /\ Upto(cmd.opts, {"h", "i", "s"}, pos) # {}
           /\ Greatest(cmd.opts, Upto(cmd.opts, {"h", "i", "s"}, pos)) = cmd.opts[pos]
      /\ c \notin {"h", "i", "s"} =>
           Upto(cmd.opts, {"h", "i", "s"}, pos) = Upto(cmd.opts, {"h", "i", "s"}, pos - 1)
  BY <1>1, UptoNext DEF c
<1>4. /\ c \in {"p"} =>
           /\ Upto(cmd.opts, {"p"}, pos) # {}
           /\ Greatest(cmd.opts, Upto(cmd.opts, {"p"}, pos)) = cmd.opts[pos]
      /\ c \notin {"p"} =>
           Upto(cmd.opts, {"p"}, pos) = Upto(cmd.opts, {"p"}, pos - 1)
  BY <1>1, UptoNext DEF c
<1>5. /\ c \in {"f"} =>
           /\ Upto(cmd.opts, {"f"}, pos) # {}
           /\ Greatest(cmd.opts, Upto(cmd.opts, {"f"}, pos)) = cmd.opts[pos]
      /\ c \notin {"f"} =>
           Upto(cmd.opts, {"f"}, pos) = Upto(cmd.opts, {"f"}, pos - 1)
  BY <1>1, UptoNext DEF c
<1> QED
  BY <1>1, <1>2, <1>3, <1>4, <1>5
  DEF ModeCounts, HostCounts, PortCounts, FileCounts, Counted, ModeOfLast,
      ArgOfLast, PortOfLast, c, optarg

(* The prompt touches nothing but the password.                              *)
LEMMA AskPasswdFrame ==
  ASSUME AskPasswd
  PROVE  /\ Getopt({"P"}) /\ UNCHANGED <<cmd, packet_mode, host_str, port, pathname>>
         /\ Continue \/ Exit(1) \/ Exit(Aborted)
<1>1. Getopt({"P"}) /\ UNCHANGED <<cmd, packet_mode, host_str, port, pathname>>
  <2>1. Getopt({"P"})
    BY Zenon DEF AskPasswd
  <2>2. UNCHANGED <<cmd, packet_mode, host_str, port, msecs, pathname, request_stdin>>
    BY Zenon DEF AskPasswd
  <2> QED
    BY <2>1, <2>2
<1>2. Continue \/ Exit(1) \/ Exit(Aborted)
  BY Zenon DEF AskPasswd
<1> QED
  BY <1>1, <1>2

(* Every step of parse_args keeps the mode and the port that the
   options seen so far ask for. *)
LEMMA LastOptionStep ==
  ASSUME OptionsInv, LastOptionInv, ParseStep
  PROVE  LastOptionInv'
<1> USE DEF OptionsInv
<1>1. pc = "options" /\ cmd' = cmd /\ packet_mode \subseteq Mode /\ pos \in Nat \ {0}
      /\ cmd.opts \in Seq(Opt)
  <2>1. packet_mode \subseteq Mode /\ pos \in Nat \ {0} /\ cmd.opts \in Seq(Opt)
    BY CommandLineConstants DEF OptTypeOK, GlobalsOK
  <2>2. CASE HelpOrVersion \/ NothingToSet \/ SetWait \/ SetFile \/ AskedBefore
    BY <2>1, <2>2 DEF HelpOrVersion, NothingToSet, SetWait, SetFile, AskedBefore, Getopt
  <2>3. CASE SetUdp \/ SetRaw \/ SetProxyOrHost \/ SetPort
    BY <2>1, <2>3 DEF SetUdp, SetRaw, SetProxyOrHost, SetPort, Getopt
  <2>4. CASE SetPasswd \/ AskPasswd \/ EndOfOptions
    BY <2>1, <2>4, AskPasswdFrame DEF SetPasswd, EndOfOptions, Getopt
  <2> QED
    BY <2>2, <2>3, <2>4 DEF ParseStep
<1>2. /\ pos <= Len(cmd.opts) + 1
      /\ packet_mode = ModeCounts(pos - 1) /\ host_str.text = HostCounts(pos - 1)
      /\ port = PortCounts(pos - 1) /\ pathname = FileCounts(pos - 1)
  BY <1>1 DEF LastOptionInv
<1>3. ASSUME pc' = "exited"
      PROVE  LastOptionInv'
  BY <1>3 DEF LastOptionInv
<1>4. ASSUME pos <= Len(cmd.opts), Continue,
             packet_mode' = ModeCounts(pos - 1)', host_str'.text = HostCounts(pos - 1)',
             port' = PortCounts(pos - 1)', pathname' = FileCounts(pos - 1)'
      PROVE  LastOptionInv'
  <2>1. pc' = "options" /\ pos' <= Len(cmd'.opts) + 1
    BY <1>1, <1>4 DEF Continue
  <2> QED
    BY <1>4, <2>1 DEF LastOptionInv
<1>5. ASSUME pos <= Len(cmd.opts), pos' = pos + 1
      PROVE  /\ ModeCounts(pos - 1)' = IF c \in {"u", "r", "s"}
                  THEN {[u |-> "UDP", r |-> "RAW", s |-> "PROXY"][c]} ELSE packet_mode
             /\ HostCounts(pos - 1)' = IF c \in {"h", "i", "s"} THEN optarg
                                                              ELSE host_str.text
             /\ PortCounts(pos - 1)' = IF c = "p" THEN FirstFive(optarg) ELSE port
             /\ FileCounts(pos - 1)' = IF c = "f" THEN optarg ELSE pathname
  BY <1>1, <1>2, <1>5, CountsNext
<1>15. ASSUME pos <= Len(cmd.opts), Continue,
              c \notin {"u", "r", "s", "h", "i", "p", "f"},
              UNCHANGED <<packet_mode, host_str, port, pathname>>
       PROVE  LastOptionInv'
  <2>1. pos' = pos + 1
    BY <1>15 DEF Continue
  <2> QED
    BY <1>4, <1>5, <1>15, <2>1
<1>6. CASE HelpOrVersion
  BY <1>3, <1>6 DEF HelpOrVersion, Exit
<1>7. CASE NothingToSet \/ AskedBefore \/ SetPasswd
  BY <1>7, <1>15 DEF NothingToSet, AskedBefore, SetPasswd, Getopt, c
<1>8. CASE SetWait
  <2>1. CASE Continue
    BY <1>8, <1>15, <2>1 DEF SetWait, Getopt, c
  <2>2. CASE Exit(1)
    BY <1>3, <2>2 DEF Exit
  <2> QED
    BY <1>8, <2>1, <2>2 DEF SetWait
<1>9. CASE SetUdp \/ SetRaw
  <2>1. packet_mode' = {[u |-> "UDP", r |-> "RAW", s |-> "PROXY"][c]} /\ c \in {"u", "r"}
    <3>1. CASE SetUdp
      <4>1. c = "u"
        BY <3>1 DEF SetUdp, Getopt, c
      <4>2. packet_mode' = {"UDP"}
        BY <1>1, <3>1 DEF SetUdp, Mode
      <4> QED
        BY <4>1, <4>2
    <3>2. CASE SetRaw
      <4>1. c = "r"
        BY <3>2 DEF SetRaw, Getopt, c
      <4>2. packet_mode' = {"RAW"}
        BY <1>1, <3>2 DEF SetRaw, Mode
      <4> QED
        BY <4>1, <4>2
    <3> QED
      BY <1>9, <3>1, <3>2
  <2> QED
    BY <1>4, <1>5, <1>9, <2>1 DEF SetUdp, SetRaw, Getopt, Continue
<1>10. CASE SetProxyOrHost
  <2>1. /\ c \in {"s", "h", "i"}
        /\ packet_mode' = IF c = "s" THEN {"PROXY"} ELSE packet_mode
    BY <1>1, <1>10 DEF SetProxyOrHost, Getopt, c, Mode
  <2>2. host_str'.text = optarg
    BY <1>10 DEF SetProxyOrHost
  <2> QED
    BY <1>4, <1>5, <1>10, <2>1, <2>2 DEF SetProxyOrHost, Getopt, Continue
<1>11. CASE SetPort
  <2>1. Exit(1) \/ (Continue /\ port' = FirstFive(optarg))
    BY <1>11 DEF SetPort
  <2> QED
    BY <1>3, <1>4, <1>5, <1>11, <2>1 DEF SetPort, Getopt, Continue, Exit, c
<1>12. CASE SetFile
  BY <1>4, <1>5, <1>12 DEF SetFile, Getopt, Continue, c
<1>13. CASE AskPasswd
  <2>1. CASE Continue
    BY <1>13, <1>15, <2>1, AskPasswdFrame DEF Getopt, c
  <2>2. CASE Exit(1) \/ Exit(Aborted)
    BY <1>3, <2>2 DEF Exit
  <2> QED
    BY <1>13, <2>1, <2>2, AskPasswdFrame
<1>14. CASE EndOfOptions
  <2>1. CASE pc' = "parsed"
    <3>1. UNCHANGED <<cmd, pos, packet_mode, host_str, port, pathname>>
      BY <1>14 DEF EndOfOptions, Exit
    <3>2. pos = Len(cmd.opts) + 1
      BY <1>1, <1>2, <1>14 DEF EndOfOptions
    <3> QED
      BY <1>2, <2>1, <3>1, <3>2 DEF LastOptionInv, ModeCounts, HostCounts, PortCounts,
                                    FileCounts
  <2> QED
    BY <1>3, <1>14, <2>1 DEF EndOfOptions, Exit
<1> QED
  BY <1>6, <1>7, <1>8, <1>9, <1>10, <1>11, <1>12, <1>13, <1>14 DEF ParseStep

(* Of contradicting options the last one counts, on every command line; what *)
(* no option sets has its default (wol.c:174-303).                           *)
THEOREM TheLastOptionWins == OptSpec => []LastOptionWins
<1>1. OptInit => LastOptionInv
  <2> SUFFICES ASSUME OptInit PROVE LastOptionInv
    OBVIOUS
  <2>1. pos - 1 = 0 /\ \A o, cs : Upto(o, cs, 0) = {}
    BY DEF OptInit, Upto
  <2>2. 1 <= Len(cmd.opts) + 1
    BY CommandLineConstants DEF OptInit
  <2> QED
    BY <2>1, <2>2 DEF OptInit, LastOptionInv, ModeCounts, HostCounts, PortCounts,
                      FileCounts, Counted
<1>2. OptionsInv /\ LastOptionInv /\ [ParseStep]_optionVars => LastOptionInv'
  <2>1. OptionsInv /\ LastOptionInv /\ UNCHANGED optionVars => LastOptionInv'
    BY DEF optionVars, LastOptionInv, ModeCounts, HostCounts, PortCounts, FileCounts
  <2> QED
    BY <2>1, LastOptionStep
<1>3. LastOptionInv /\ OptionsInv => LastOptionWins
  <2> SUFFICES ASSUME LastOptionInv, OptionsInv, Parsed PROVE LastOptionWins
    BY DEF LastOptionWins
  <2>1. pos - 1 = Len(cmd.opts) /\ pc = "parsed"
    BY CommandLineConstants DEF LastOptionInv, OptionsInv, OptTypeOK, GlobalsOK, Parsed
  <2>2. /\ packet_mode = ModeCounts(Len(cmd.opts))
        /\ host_str.text = HostCounts(Len(cmd.opts))
        /\ port = PortCounts(Len(cmd.opts)) /\ pathname = FileCounts(Len(cmd.opts))
    BY <2>1 DEF LastOptionInv
  <2>3. \A cs : Given(cs) = Upto(cmd.opts, cs, Len(cmd.opts))
    BY DEF Given, Upto
  <2>4. \A ks : Last(ks) = Greatest(cmd.opts, ks)
    BY DEF Last, Greatest
  <2> QED
    BY <2>2, <2>3, <2>4 DEF LastOptionWins, ModeCounts, HostCounts, PortCounts,
       FileCounts, Counted, ModeOfLast, ArgOfLast, PortOfLast
<1> QED
  BY <1>1, <1>2, <1>3, OptionsInvariant, PTL DEF OptSpec

-----------------------------------------------------------------------------
(* The password. The prompts and the passwords among the first m options, and *)
(* what they make of passwd.                                                 *)
Prompts(m) == {k \in 1..m : cmd.opts[k].c \in {"P"} /\ cmd.opts[k].arg = Null}
Passwds(m) == {k \in 1..m : cmd.opts[k].c \in {"P"} /\ cmd.opts[k].arg # Null}
Smallest(ks) == CHOOSE k \in ks : \A j \in ks : k <= j
Largest(ks)  == CHOOSE k \in ks : \A j \in ks : j <= k
OnArgv(text) == [text |-> text, mem |-> "argv"]

PasswordSoFar(m) ==
  /\ password_set <=> Prompts(m) # {}
  /\ Prompts(m) # {} =>
       /\ asked = 1 /\ passwd # Null
       /\ Smallest(Prompts(m)) \in Prompts(m)
       /\ \A j \in Prompts(m) : Smallest(Prompts(m)) <= j
  /\ (Passwds(m) # {} /\ (Prompts(m) = {} \/ \E k \in Passwds(m) : k > Smallest(Prompts(m))))
       => passwd = OnArgv(cmd.opts[Largest(Passwds(m))].arg)
  /\ (Passwds(m) = {} /\ Prompts(m) = {}) => passwd = Null

PasswordInv ==
  /\ pc # "exited" => PasswordSoFar(pos - 1)
  /\ pc = "parsed" => pos = Len(cmd.opts) + 1
  /\ pc = "options" => pos <= Len(cmd.opts) + 1

(* Largest finds the largest number of a set that has one. *)
LEMMA LargestIs ==
  ASSUME NEW ks \in SUBSET Nat, NEW m \in ks, \A j \in ks : j <= m
  PROVE  Largest(ks) = m
<1>1. \A k \in ks : (\A j \in ks : j <= k) => k = m
  OBVIOUS
<1> QED
  BY <1>1 DEF Largest

(* Smallest finds the smallest one. *)
LEMMA SmallestIs ==
  ASSUME NEW ks \in SUBSET Nat, NEW m \in ks, \A j \in ks : m <= j
  PROVE  Smallest(ks) = m
<1>1. \A k \in ks : (\A j \in ks : k <= j) => k = m
  OBVIOUS
<1> QED
  BY <1>1 DEF Smallest

(* One more option joins one of the two, or none.                            *)
LEMMA PromptsNext ==
  ASSUME pos \in Nat \ {0}, cmd' = cmd, pos' = pos + 1
  PROVE  /\ Prompts(pos - 1)' = IF c = "P" /\ optarg = Null THEN Prompts(pos - 1) \cup {pos}
                                                            ELSE Prompts(pos - 1)
         /\ Passwds(pos - 1)' = IF c = "P" /\ optarg # Null THEN Passwds(pos - 1) \cup {pos}
                                                            ELSE Passwds(pos - 1)
         /\ Prompts(pos - 1) \subseteq 1..(pos - 1) /\ Passwds(pos - 1) \subseteq 1..(pos - 1)
<1>1. (pos - 1)' = pos /\ 1..pos = (1..(pos - 1)) \cup {pos}
  OBVIOUS
<1> QED
  BY <1>1 DEF Prompts, Passwds, c, optarg

(* An option other than --passwd leaves the password in effect. *)
LEMMA OtherOptionPassword ==
  ASSUME PasswordSoFar(pos - 1), pos \in Nat \ {0}, cmd' = cmd, pos' = pos + 1,
         c # "P", UNCHANGED <<passwd, password_set, asked>>
  PROVE  PasswordSoFar(pos - 1)'
<1>1. Prompts(pos - 1)' = Prompts(pos - 1) /\ Passwds(pos - 1)' = Passwds(pos - 1)
  BY PromptsNext
<1> QED
  BY <1>1 DEF PasswordSoFar

(* After --passwd=PASS that password is in effect. *)
LEMMA GivenPassword ==
  ASSUME PasswordSoFar(pos - 1), pos \in Nat \ {0}, cmd' = cmd, pos' = pos + 1,
         c = "P", optarg # Null, passwd' = OnArgv(optarg), passwd' # Null,
         UNCHANGED <<password_set, asked>>
  PROVE  PasswordSoFar(pos - 1)'
<1> DEFINE given == Passwds(pos - 1)'
<1>1. Prompts(pos - 1)' = Prompts(pos - 1) /\ given = Passwds(pos - 1) \cup {pos}
      /\ Passwds(pos - 1) \subseteq 1..(pos - 1)
  BY PromptsNext
<1>2. given \in SUBSET Nat /\ pos \in given /\ \A j \in given : j <= pos
  BY <1>1
<1> HIDE DEF given
<1>3. Largest(given) = pos
  BY <1>2, LargestIs
<1>4. passwd' = OnArgv(cmd'.opts[Largest(given)].arg)
  BY <1>3 DEF optarg
<1> QED
  BY <1>1, <1>2, <1>4 DEF PasswordSoFar, given

(* After the first --passwd without an argument what was typed is in effect. *)
LEMMA PromptedPassword ==
  ASSUME PasswordSoFar(pos - 1), pos \in Nat \ {0}, cmd' = cmd, pos' = pos + 1,
         c = "P", optarg = Null, ~ password_set, password_set', asked' = 1, passwd' # Null
  PROVE  PasswordSoFar(pos - 1)'
<1>1. Prompts(pos - 1)' = {pos} /\ Passwds(pos - 1)' = Passwds(pos - 1)
      /\ Passwds(pos - 1) \subseteq 1..(pos - 1)
  BY PromptsNext DEF PasswordSoFar
<1>2. Smallest({pos}) = pos
  BY SmallestIs
<1> DEFINE prompts == Prompts(pos - 1)'
           given   == Passwds(pos - 1)'
<1>3. prompts = {pos} /\ Smallest(prompts) = pos
  BY <1>1, <1>2
<1>4. prompts # {} /\ Smallest(prompts) \in prompts
      /\ \A j \in prompts : Smallest(prompts) <= j
  BY <1>3
<1>5. \A k \in given : ~ (k > Smallest(prompts))
  BY <1>1, <1>3
<1> HIDE DEF prompts, given
<1>6. /\ password_set' <=> prompts # {}
      /\ prompts # {} => asked' = 1 /\ passwd' # Null
  BY <1>4
<1>7. ~ (given # {} /\ (prompts = {} \/ \E k \in given : k > Smallest(prompts)))
      /\ ~ (given = {} /\ prompts = {})
  BY <1>4, <1>5
<1> QED
  BY <1>4, <1>6, <1>7 DEF PasswordSoFar, prompts, given

(* A further --passwd without an argument asks for nothing and changes nothing. *)
LEMMA PromptedBefore ==
  ASSUME PasswordSoFar(pos - 1), pos \in Nat \ {0}, cmd' = cmd, pos' = pos + 1,
         c = "P", optarg = Null, password_set, UNCHANGED <<passwd, password_set, asked>>
  PROVE  PasswordSoFar(pos - 1)'
<1> DEFINE old  == Prompts(pos - 1)
           prompts == Prompts(pos - 1)'
           first == Smallest(old)
<1>1. prompts = old \cup {pos} /\ Passwds(pos - 1)' = Passwds(pos - 1) /\ old \subseteq 1..(pos - 1)
  BY PromptsNext
<1>2. old # {} /\ first \in old /\ \A j \in old : first <= j
  BY DEF PasswordSoFar
<1>3. prompts \in SUBSET Nat /\ first \in prompts /\ \A j \in prompts : first <= j
  BY <1>1, <1>2
<1> HIDE DEF first, prompts
<1>4. Smallest(prompts) = first
  BY <1>3, SmallestIs
<1>5. prompts # {} /\ Smallest(prompts) \in prompts
      /\ \A j \in prompts : Smallest(prompts) <= j
  BY <1>3, <1>4
<1>6. asked = 1 /\ passwd # Null
  BY <1>2 DEF PasswordSoFar
<1>7. (Passwds(pos - 1) # {} /\ \E k \in Passwds(pos - 1) : k > first)
        => passwd = OnArgv(cmd.opts[Largest(Passwds(pos - 1))].arg)
  BY DEF PasswordSoFar, first
<1>8. (Passwds(pos - 1)' # {} /\ \E k \in Passwds(pos - 1)' : k > Smallest(prompts))
        => passwd' = OnArgv(cmd'.opts[Largest(Passwds(pos - 1)')].arg)
  BY <1>1, <1>4, <1>7
<1> QED
  BY <1>5, <1>6, <1>8 DEF PasswordSoFar, prompts

(* Every step of parse_args keeps the password in effect. *)
LEMMA PasswordStep ==
  ASSUME OptionsInv, PasswordInv, ParseStep
  PROVE  PasswordInv'
<1>1. pos \in Nat \ {0} /\ pc = "options" /\ cmd' = cmd /\ cmd.opts \in Seq(Opt)
  <2>1. pos \in Nat \ {0} /\ cmd.opts \in Seq(Opt)
    BY CommandLineConstants DEF OptionsInv, OptTypeOK, GlobalsOK
  <2>2. CASE HelpOrVersion \/ NothingToSet \/ SetWait \/ SetFile \/ AskedBefore
    BY <2>1, <2>2 DEF HelpOrVersion, NothingToSet, SetWait, SetFile, AskedBefore, Getopt
  <2>3. CASE SetUdp \/ SetRaw \/ SetProxyOrHost \/ SetPort
    BY <2>1, <2>3 DEF SetUdp, SetRaw, SetProxyOrHost, SetPort, Getopt
  <2>4. CASE SetPasswd \/ AskPasswd \/ EndOfOptions
    BY <2>1, <2>4, AskPasswdFrame DEF SetPasswd, EndOfOptions, Getopt
  <2> QED
    BY <2>2, <2>3, <2>4 DEF ParseStep
<1>2. PasswordSoFar(pos - 1) /\ pos <= Len(cmd.opts) + 1
  BY <1>1 DEF PasswordInv
<1>3. ASSUME pc' = "exited"
      PROVE  PasswordInv'
  BY <1>3 DEF PasswordInv
<1>4. ASSUME Continue, pos <= Len(cmd.opts), PasswordSoFar(pos - 1)'
      PROVE  PasswordInv'
  <2>1. pc' = "options" /\ pos' <= Len(cmd'.opts) + 1
    BY <1>1, <1>4 DEF Continue
  <2> QED
    BY <1>4, <2>1 DEF PasswordInv
<1>5. ASSUME Continue, pos <= Len(cmd.opts), c # "P", UNCHANGED <<passwd, password_set, asked>>
      PROVE  PasswordInv'
  <2>1. pos' = pos + 1
    BY <1>5 DEF Continue
  <2> QED
    BY <1>1, <1>2, <1>4, <1>5, <2>1, OtherOptionPassword
<1>6. CASE HelpOrVersion
  BY <1>3, <1>6 DEF HelpOrVersion, Exit
<1>7. CASE NothingToSet \/ SetFile
  BY <1>5, <1>7 DEF NothingToSet, SetFile, Getopt, c
<1>8. CASE SetUdp \/ SetRaw \/ SetProxyOrHost
  BY <1>5, <1>8 DEF SetUdp, SetRaw, SetProxyOrHost, Getopt, c
<1>9. CASE SetWait
  <2>1. CASE Continue
    BY <1>5, <1>9, <2>1 DEF SetWait, Getopt, c
  <2>2. CASE Exit(1)
    BY <1>3, <2>2 DEF Exit
  <2> QED
    BY <1>9, <2>1, <2>2 DEF SetWait
<1>10. CASE SetPort
  <2>1. CASE Continue
    BY <1>5, <1>10, <2>1 DEF SetPort, Getopt, c
  <2>2. CASE Exit(1)
    BY <1>3, <2>2 DEF Exit
  <2> QED
    BY <1>10, <2>1, <2>2 DEF SetPort
<1>11. CASE SetPasswd
  <2>1. pos' = pos + 1 /\ pos <= Len(cmd.opts) /\ c = "P" /\ optarg # Null
        /\ passwd' = OnArgv(optarg) /\ UNCHANGED <<password_set, asked>>
    BY <1>11 DEF SetPasswd, Getopt, Continue, OnArgv, c
  <2>2. optarg \in PassText
    BY <1>11, OptionDelivered DEF SetPasswd, OptionsInv
  <2>3. OnArgv(optarg) \in [text : PassText, mem : Mem]
    BY <2>2 DEF OnArgv, Mem
  <2>4. passwd' # Null
    BY <2>1, <2>3, NullConstants
  <2> QED
    BY <1>1, <1>2, <1>4, <1>11, <2>1, <2>4, GivenPassword DEF SetPasswd
<1>12. CASE AskedBefore
  <2>1. pos' = pos + 1 /\ pos <= Len(cmd.opts) /\ c = "P" /\ optarg = Null
        /\ UNCHANGED <<passwd, password_set, asked>>
    BY <1>12 DEF AskedBefore, Getopt, Continue, c
  <2>2. password_set
    BY <1>12, Zenon DEF AskedBefore
  <2> QED
    BY <1>1, <1>2, <1>4, <1>12, <2>1, <2>2, PromptedBefore DEF AskedBefore
<1>13. CASE AskPasswd
  <2>1. CASE Exit(1) \/ Exit(Aborted)
    BY <1>3, <2>1 DEF Exit
  <2>2. CASE ~ Exit(1) /\ ~ Exit(Aborted)
    <3>1. Continue /\ password_set' = TRUE
      BY <1>13, <2>2, Zenon DEF AskPasswd
    <3>2. PICK typed \in PassText :
            passwd' = [text |-> typed, mem |-> IF passwd = Null THEN "heap" ELSE passwd.mem]
      BY <1>13, <2>2, Zenon DEF AskPasswd
    <3>3. passwd \in Ptr(PassText)
      BY DEF OptionsInv, OptTypeOK, GlobalsOK
    <3>4. passwd' # Null
      <4>1. passwd # Null => passwd.mem \in Mem
        BY <3>3 DEF Ptr
      <4>2. (IF passwd = Null THEN "heap" ELSE passwd.mem) \in Mem
        BY <4>1 DEF Mem
      <4>3. passwd' \in [text : PassText, mem : Mem]
        BY <3>2, <4>2
      <4> QED
        BY <4>3, NullConstants
    <3>5. pos' = pos + 1 /\ pos <= Len(cmd.opts) /\ c = "P"
      BY <1>13, <3>1, AskPasswdFrame DEF Getopt, Continue, c
    <3>6. optarg = Null /\ ~ password_set /\ asked' = asked + 1
      BY <1>13, Zenon DEF AskPasswd
    <3>7. asked' = 1
      BY <1>1, <3>6 DEF OptionsInv, AskedOnce, OptTypeOK, GlobalsOK
    <3>8. PasswordSoFar(pos - 1)'
      BY <1>1, <1>2, <3>1, <3>4, <3>5, <3>6, <3>7, PromptedPassword
    <3> QED
      BY <1>4, <3>1, <3>5, <3>8
  <2> QED
    BY <2>1, <2>2
<1>14. CASE EndOfOptions
  <2>1. CASE pc' = "parsed"
    <3>1. UNCHANGED <<cmd, pos, passwd, password_set, asked>>
      BY <1>14 DEF EndOfOptions, Exit
    <3>2. pos = Len(cmd.opts) + 1
      BY <1>1, <1>2, <1>14 DEF EndOfOptions
    <3> QED
      BY <1>2, <2>1, <3>1, <3>2 DEF PasswordInv, PasswordSoFar, Prompts, Passwds
  <2> QED
    BY <1>3, <1>14, <2>1 DEF EndOfOptions, Exit
<1> QED
  BY <1>6, <1>7, <1>8, <1>9, <1>10, <1>11, <1>12, <1>13, <1>14 DEF ParseStep

(* The last password on the command line is used, unless the prompt came     *)
(* after it, and nobody is asked twice (wol.c:257-268).                      *)
THEOREM ThePasswordInEffect == OptSpec => []PasswordInEffect
<1>1. OptInit => PasswordInv
  <2> SUFFICES ASSUME OptInit PROVE PasswordInv
    OBVIOUS
  <2>1. pos - 1 = 0 /\ Prompts(0) = {} /\ Passwds(0) = {}
    BY DEF OptInit, Prompts, Passwds
  <2>2. ~ password_set /\ passwd = Null /\ pos = 1 /\ pc = "options"
    BY DEF OptInit
  <2>3. PasswordSoFar(pos - 1)
    BY <2>1, <2>2 DEF PasswordSoFar
  <2>4. 1 <= Len(cmd.opts) + 1
    BY CommandLineConstants DEF OptInit
  <2> QED
    BY <2>2, <2>3, <2>4 DEF PasswordInv
<1>2. OptionsInv /\ PasswordInv /\ [ParseStep]_optionVars => PasswordInv'
  <2>1. OptionsInv /\ PasswordInv /\ UNCHANGED optionVars => PasswordInv'
    BY DEF optionVars, PasswordInv, PasswordSoFar, Prompts, Passwds
  <2> QED
    BY <2>1, PasswordStep
<1>3. PasswordInv /\ OptionsInv => PasswordInEffect
  <2> SUFFICES ASSUME PasswordInv, OptionsInv PROVE PasswordInEffect
    OBVIOUS
  <2> DEFINE prompts == {k \in Given({"P"}) : cmd.opts[k].arg = Null}
             given   == Given({"P"}) \ prompts
  <2>1. asked <= 1
    BY DEF OptionsInv, AskedOnce
  <2>2. prompts = Prompts(Len(cmd.opts)) /\ given = Passwds(Len(cmd.opts))
    BY DEF Given, Prompts, Passwds
  <2>3. Parsed => PasswordSoFar(Len(cmd.opts))
    <3>1. ASSUME Parsed PROVE pos - 1 = Len(cmd.opts)
      BY <3>1, CommandLineConstants
      DEF PasswordInv, OptionsInv, OptTypeOK, GlobalsOK, Parsed
    <3> QED
      BY <3>1 DEF PasswordInv, Parsed
  <2>4. ASSUME NEW ks PROVE Last(ks) = cmd.opts[Largest(ks)]
    BY DEF Last, Largest
  <2> QED
    BY <2>1, <2>2, <2>3, <2>4 DEF PasswordInEffect, PasswordSoFar, Smallest, OnArgv
<1> QED
  BY <1>1, <1>2, <1>3, OptionsInvariant, PTL DEF OptSpec


Reader == INSTANCE MacfileProofs WITH mport <- port

-----------------------------------------------------------------------------
(* Where main is. At is a call of assemble_and_send; it is made for the      *)
(* operand main is at, or for the entry it holds.                            *)
At         == pc \in {"assemble", "send", "sent", "return"}
AtOperand  == At /\ from = "argv"
AtEntry    == At /\ from = "file"
Starting   == pc \in {"options", "parsed", "socket"}
InOperands == pc = "argv" \/ AtOperand
InFile     == pc = "file" \/ AtEntry

(* Operands come first, the stream behind the last of them; with standard    *)
(* input there are none, and without it "-" is not among them.               *)
ListInv ==
  /\ i >= 1 /\ host_str # Null
  /\ Starting => i = 1
  /\ pc \notin {"options", "exited"} /\ ~ request_stdin =>
       \A k \in 1..Len(cmd.operands) : cmd.operands[k] \in MacText
  /\ InOperands => ~ request_stdin /\ i <= Len(cmd.operands) + 1
  /\ AtOperand => i <= Len(cmd.operands) /\ mac.text = cmd.operands[i] /\ mac # Null
  /\ pc \in {"fopen", "close"} \/ InFile =>
       i = IF request_stdin THEN 1 ELSE Len(cmd.operands) + 1
  /\ pc = "fopen" \/ InFile => request_stdin \/ pathname # Null

(* The stream is read only for the file; an entry is held from the return of *)
(* macfile_parse to the end of the call made for it.                         *)
StreamInv ==
  /\ Reader!ReaderInv
  /\ Starting \/ InOperands \/ pc = "fopen" => phase = "idle" /\ mac_str = Null
  /\ AtEntry => phase = "idle" /\ mac_str # Null /\ mac = mac_str
  /\ pc = "close" => phase = "ended" \/ (~ request_stdin /\ pathname = Null)

(* The port is one that a datagram can have, except while the reader has it. *)
PortFits ==
  Starting \/ pc = "argv" \/ At => ValidPort(port)

(* The buffer is well formed, and holds what is to be sent.                  *)
PacketInv ==
  /\ magic # Null => Consistent(magic)
  /\ pc \notin {"options", "parsed", "exited"} => magic # Null
  /\ pc \in {"send", "sent"} =>
       ~ ProxyMode /\ AssembleResult(mac.text, TextOf(passwd)) = 0
  /\ pc = "send" => /\ magic.packet = MagicPacketFor(mac.text, TextOf(passwd))
                    /\ magic.size = DatagramSize(TextOf(passwd))

(* The heap, in UDP mode: the strings of an entry, and what is left of them. *)
OnHeap(p) == p = Null \/ p.mem = "heap"
IsFreed(p) == p = Null \/ p.mem = "freed"

HeapInv ==
  UdpMode =>
    /\ AtEntry => OnHeap(mac_str) /\ OnHeap(host_str) /\ OnHeap(passwd)
    /\ pc \in {"file", "close"} /\ mac_str # Null =>
         IsFreed(mac_str) /\ IsFreed(host_str) /\ IsFreed(passwd)

(* While options are scanned, what OptionsInv knows of them; and that a      *)
(* password that is in the way of the prompt was given.                      *)
GivenBefore ==
  \E j \in 1..Len(cmd.opts) :
    j < pos /\ cmd.opts[j].c = "P" /\ cmd.opts[j].arg # Null

MisuseInv ==
  /\ OneMode
  /\ pc = "options" => AskedOnce
  /\ pc = "options" /\ passwd # Null /\ ~ password_set => GivenBefore
  /\ (pc = "options" \/ UdpMode) /\ ~ GivenBeforePrompt => misuse = {}

(* What the failures counted say of the operands that are done.              *)
Usable ==
  /\ \A k \in 1..Len(cmd.operands) : k < i => KnownMac(cmd.operands[k])
  /\ i > 1 /\ ~ (pc = "assemble" /\ from = "file") => ValidPass(TextOf(passwd))

StatusInv ==
  /\ ret = 0 => Usable
  /\ ProxyMode /\ pc # "options" /\ (i > 1 \/ pc = "return") => ret # 0
  /\ AtOperand /\ pc = "return" /\ ret = 0 =>
       KnownMac(mac.text) /\ ValidPass(TextOf(passwd))
  /\ pc = "exited" /\ status = 0 => i = 1 \/ ret = 0

(* The pauses: one for each packet that went out, the last still to come.    *)
WaitInv ==
  /\ pc = "options" => wire = <<>> /\ waits = 0
  /\ msecs # 0 =>
       /\ UdpMode => waits = Len(wire) - (IF pc = "sent" THEN 1 ELSE 0)
       /\ RawMode => waits >= Len(wire) - (IF pc = "sent" THEN 1 ELSE 0)

(* The inductive invariant.                                                  *)
WolInv ==
  /\ WolTypeOK
  /\ ListInv /\ StreamInv /\ PortFits /\ PacketInv
  /\ HeapInv /\ MisuseInv /\ StatusInv /\ WaitInv

-----------------------------------------------------------------------------
(* What a command line consists of.                                          *)
LEMMA CommandType ==
  ASSUME GlobalsOK
  PROVE  /\ cmd.opts \in Seq(Opt)
         /\ cmd.operands \in Seq(MacText \cup {Dash})
         /\ Len(cmd.operands) \in Nat
<1>1. cmd \in [opts : Seq(Opt), operands : Seq(MacText \cup {Dash})]
  BY CommandLineConstants DEF GlobalsOK
<1> QED BY <1>1

(* A pointer that is not Null is a text and its memory.                      *)
LEMMA PtrType ==
  ASSUME NEW Text, NEW p \in Ptr(Text)
  PROVE  /\ p # Null => p \in [text : Text, mem : Mem] /\ p.text \in Text /\ p.mem \in Mem
         /\ TextOf(p) \in Text \cup {Null}
BY DEF Ptr, TextOf

(* The assumptions on the reader are those of this program.                  *)
LEMMA ReaderConstants == Reader!MacfileConstants
BY StreamConstants DEF Reader!MacfileConstants, File!MacfileConstants, Reader!Fields,
   File!Fields, Reader!Line, File!Line

(* What the reader keeps is typed as the program needs it.                   *)
LEMMA ReaderTyped == Reader!ReaderInv => File!ReaderTypeOK
BY DEF Reader!ReaderInv, Reader!ReaderTypeOK, File!ReaderTypeOK, Reader!Line, File!Line,
   Reader!Fields, File!Fields, Reader!Token, File!Token

(* Between its calls the reader does not mind what happens to the port.      *)
LEMMA ReaderKept ==
  ASSUME Reader!ReaderInv, UNCHANGED readerVars, UNCHANGED port \/ phase = "idle"
  PROVE  Reader!ReaderInv'
BY DEF readerVars, Reader!ReaderInv, Reader!ReaderTypeOK, Reader!CallUnderWay,
   Reader!EndNoticed, Reader!EntryIsTheLineRead, Reader!NoLineOnlyAtABrokenEnd,
   Reader!Entry, Reader!EntryOf

(* A step of macfile_parse.                                                  *)
LEMMA ReaderMoves ==
  ASSUME Reader!ReaderInv, File!BeginParse \/ File!ReadStep
  PROVE  Reader!ReaderInv' /\ File!ReaderTypeOK'
<1>1. File!BeginParse => Reader!BeginParse
  BY DEF File!BeginParse, Reader!BeginParse
<1>2. File!ReadStep => Reader!ReadStep
  <2>1. File!ReadLine => Reader!ReadLine
    BY DEF File!ReadLine, Reader!ReadLine, File!Scanned, Reader!Scanned, File!OrElse,
           Reader!OrElse, File!Tokens, Reader!Tokens
  <2>2. File!ReadPastEnd => Reader!ReadPastEnd
    BY DEF File!ReadPastEnd, Reader!ReadPastEnd
  <2>3. File!ReadError => Reader!ReadError
    BY DEF File!ReadError, Reader!ReadError
  <2>4. File!LeaveLoop => Reader!LeaveLoop
    BY DEF File!LeaveLoop, Reader!LeaveLoop
  <2> QED BY <2>1, <2>2, <2>3, <2>4 DEF File!ReadStep, Reader!ReadStep
<1>3. Reader!FileNext
  BY <1>1, <1>2 DEF Reader!FileNext
<1>4. Reader!ReaderInv'
  BY <1>3, ReaderConstants, Reader!ReaderNextInv
<1> QED BY <1>4 DEF Reader!ReaderInv, Reader!ReaderTypeOK, File!ReaderTypeOK, Reader!Line,
        File!Line, Reader!Fields, File!Fields, Reader!Token, File!Token

(* It begins with nothing read.                                              *)
LEMMA ReaderStarts == File!StreamInit => Reader!ReaderInv
<1>1. File!StreamInit => Reader!StreamInit
  BY DEF File!StreamInit, Reader!StreamInit
<1> QED BY <1>1, ReaderConstants, Reader!ReaderInitInv

(* The invariant holds when the program starts.                              *)
LEMMA WolInitInv == WolInit => WolInv
<1> SUFFICES ASSUME WolInit PROVE WolInv
  OBVIOUS
<1>1. OptionsInv /\ pc = "options"
  BY OptInitInv DEF WolInit, OptInit
<1>2. Reader!ReaderInv /\ phase = "idle" /\ File!ReaderTypeOK
  BY ReaderStarts, ReaderTyped DEF WolInit, File!StreamInit
<1>3. WolTypeOK
  BY <1>1, <1>2 DEF WolInit, WolTypeOK, OptionsInv, OptTypeOK, Ptr
<1>4. ListInv /\ StreamInv
  <2>1. host_str # Null
    BY NullConstants, DefaultConstants DEF WolInit, OptInit, Ptr, Mem
  <2> QED BY <1>1, <1>2, <2>1 DEF WolInit, ListInv, StreamInv, Starting, InOperands,
          InFile, AtOperand, AtEntry, At
<1>5. PortFits
  BY <1>1 DEF PortFits, OptionsInv, PortChecked
<1>6. PacketInv /\ HeapInv
  BY <1>1 DEF WolInit, PacketInv, HeapInv, AtEntry, At
<1>7. MisuseInv
  BY <1>1 DEF WolInit, OptInit, MisuseInv, OptionsInv
<1>8. StatusInv
  <2>1. Usable
    <3>1. Len(cmd.operands) \in Nat
      BY <1>3, CommandType DEF WolTypeOK
    <3> QED BY <3>1 DEF WolInit, Usable
  <2> QED BY <1>1, <2>1 DEF WolInit, StatusInv, AtOperand, At
<1>9. WaitInv
  BY <1>1 DEF WolInit, WaitInv
<1> QED BY <1>3, <1>4, <1>5, <1>6, <1>7, <1>8, <1>9 DEF WolInv

(* parse_args: the options module's own invariant carries over.              *)
LEMMA ParseArgsInv ==
  ASSUME WolInv, ParseArgs
  PROVE  WolInv'
<1>1. ParseStep /\ UNCHANGED <<readerVars, machineVars>>
  BY DEF ParseArgs
<1>2. pc = "options"
  BY <1>1 DEF ParseStep, HelpOrVersion, NothingToSet, SetWait, SetUdp, SetRaw,
     SetProxyOrHost, SetPort, SetFile, SetPasswd, AskPasswd, AskedBefore, EndOfOptions,
     Getopt
<1>3. OptionsInv
  BY <1>2 DEF WolInv, WolTypeOK, PortFits, Starting, MisuseInv, OptionsInv, OptTypeOK,
              PortChecked
<1>4. OptionsInv'
  BY <1>1, <1>3, ParseStepInv
<1>5. /\ cmd' = cmd
      /\ misuse' = misuse \/ AskPasswd
      /\ pos' \in {pos, pos + 1}
      /\ pc' = "options" => pos' = pos + 1
      /\ pc' \in {"options", "parsed", "exited"}
      /\ host_str' = host_str \/ SetProxyOrHost
  BY <1>1, <1>2, <1>4 DEF ParseStep, HelpOrVersion, NothingToSet, SetWait, SetUdp, SetRaw,
     SetProxyOrHost, SetPort, SetFile, SetPasswd, AskPasswd, AskedBefore, EndOfOptions,
     Continue, Exit, OptionsInv, OptTypeOK
<1>6. i = 1 /\ wire = <<>> /\ waits = 0 /\ phase = "idle" /\ mac_str = Null
  BY <1>2 DEF WolInv, ListInv, StreamInv, WaitInv, Starting
<1>7. WolTypeOK'
  BY <1>1, <1>4, <1>5 DEF WolInv, WolTypeOK, OptionsInv, OptTypeOK, readerVars, machineVars,
     File!ReaderTypeOK
<1>8. ListInv'
  <2>1. host_str' # Null
    <3>1. CASE SetProxyOrHost
      <4>1. host_str' = [text |-> optarg, mem |-> "argv"] /\ optarg \in HostText
        BY <1>3, <3>1, OptionDelivered DEF SetProxyOrHost, OptionsInv
      <4> QED BY <4>1, NullConstants DEF Mem
    <3> QED BY <1>5, <3>1 DEF WolInv, ListInv
  <2>2. ASSUME pc' = "parsed", ~ request_stdin', NEW k \in 1..Len(cmd.operands)
        PROVE  cmd.operands[k] \in MacText
    <3>1. EndOfOptions
      BY <1>1, <1>2, <2>2 DEF ParseStep, HelpOrVersion, NothingToSet, SetWait, SetUdp, SetRaw,
         SetProxyOrHost, SetPort, SetFile, SetPasswd, AskPasswd, AskedBefore, Continue, Exit
    <3>2. cmd.operands # <<>>
      BY <2>2
    <3>3. request_stdin' = \E j \in 1..Len(cmd.operands) : cmd.operands[j] = Dash
      BY <2>2, <3>1, <3>2 DEF EndOfOptions, Exit
    <3>4. cmd.operands[k] # Dash
      BY <2>2, <3>3
    <3> QED BY <3>4, CommandType DEF WolInv, WolTypeOK
  <2> QED BY <1>1, <1>5, <1>6, <2>1, <2>2 DEF ListInv, InOperands, InFile, AtOperand,
          AtEntry, At, machineVars
<1>9. StreamInv'
  <2>1. Reader!ReaderInv'
    BY <1>1, <1>6, ReaderKept DEF WolInv, StreamInv
  <2> QED BY <1>1, <1>5, <1>6, <2>1 DEF StreamInv, Starting, InOperands, AtOperand, AtEntry,
          At, machineVars, readerVars
<1>10. PortFits' /\ PacketInv' /\ HeapInv'
  BY <1>1, <1>4, <1>5 DEF WolInv, OptionsInv, PortChecked, PortFits, Starting, At, PacketInv,
     HeapInv, AtEntry, machineVars
<1>11. MisuseInv'
  <2>1. OneMode' /\ (pc' = "options" => AskedOnce')
    BY <1>4 DEF OptionsInv
  <2>2. ASSUME pc' = "options", passwd' # Null, ~ password_set' PROVE GivenBefore'
    <3>1. pos' = pos + 1 /\ pos \in Nat
      BY <1>3, <1>5, <2>2 DEF OptionsInv, OptTypeOK, GlobalsOK
    <3>2. CASE SetPasswd
      <4>1. cmd.opts[pos].c = "P" /\ cmd.opts[pos].arg # Null /\ pos \in 1..Len(cmd.opts)
        BY <1>3, <3>2, CommandType DEF SetPasswd, Getopt, c, optarg, OptionsInv, OptTypeOK,
           GlobalsOK
      <4> QED BY <1>5, <3>1, <4>1 DEF GivenBefore
    <3>3. CASE ~ SetPasswd
      <4>0. ~ AskPasswd
        BY <2>2, Zenon DEF AskPasswd, Exit
      <4>1. passwd # Null /\ ~ password_set
        BY <1>1, <2>2, <3>3, <4>0 DEF ParseStep, HelpOrVersion, NothingToSet, SetWait, SetUdp,
           SetRaw, SetProxyOrHost, SetPort, SetFile, AskedBefore, EndOfOptions, Exit
      <4>2. GivenBefore
        BY <1>2, <4>1 DEF WolInv, MisuseInv
      <4> QED BY <1>5, <3>1, <4>2, CommandType DEF GivenBefore, WolInv, WolTypeOK
    <3> QED BY <3>2, <3>3
  <2>3. ASSUME ~ GivenBeforePrompt PROVE misuse' = {}
    <3>1. misuse = {}
      BY <1>2, <2>3 DEF WolInv, MisuseInv
    <3>2. CASE AskPasswd /\ passwd # Null
      <4>0. ~ password_set /\ pos <= Len(cmd.opts)
        BY <3>2, Zenon DEF AskPasswd, Getopt
      <4>1. GivenBefore /\ pos \in 1..Len(cmd.opts)
        BY <1>2, <3>2, <1>3, <4>0, CommandType DEF WolInv, MisuseInv, OptionsInv,
           OptTypeOK, GlobalsOK
      <4>2. cmd.opts[pos].c = "P" /\ cmd.opts[pos].arg = Null
        BY <3>2 DEF AskPasswd, Getopt, c, optarg
      <4> QED BY <2>3, <4>1, <4>2 DEF GivenBefore, GivenBeforePrompt
    <3>3. CASE AskPasswd /\ passwd = Null
      BY <3>1, <3>3 DEF AskPasswd
    <3> QED BY <1>5, <3>1, <3>2, <3>3
  <2> QED BY <1>5, <2>1, <2>2, <2>3 DEF MisuseInv, GivenBeforePrompt
<1>12. StatusInv'
  <2>1. Len(cmd.operands) \in Nat
    BY CommandType DEF WolInv, WolTypeOK
  <2> QED BY <1>1, <1>5, <1>6, <2>1 DEF StatusInv, Usable, AtOperand, At, machineVars
<1>13. WaitInv'
  BY <1>1, <1>5, <1>6 DEF WaitInv, machineVars
<1> QED BY <1>7, <1>8, <1>9, <1>10, <1>11, <1>12, <1>13 DEF WolInv

(* The buffer and the socket: one action, one failure that ends the program. *)
LEMMA OpeningInv ==
  ASSUME WolInv, CreateMagic \/ OpenSocket
  PROVE  WolInv'
<1> USE DEF WolInv, GoTo, Leave, cmdVars, stringVars, memoryVars
<1>1. /\ UNCHANGED <<cmdVars, stringVars, memoryVars, readerVars, i, mac, from, ret, wire,
                     waits>>
      /\ pc \in {"parsed", "socket"}
      /\ \/ pc' = "socket" /\ status' = status
         \/ pc' = "exited" /\ status' = 1
         \/ pc' = "fopen" /\ request_stdin /\ status' = status
         \/ pc' = "argv" /\ ~ request_stdin /\ status' = status
  BY DEF CreateMagic, OpenSocket
<1>2. /\ magic' \in Magic \cup {Null} /\ (magic' # Null => Consistent(magic'))
      /\ pc' \in {"socket", "argv", "fopen"} => magic' # Null
  <2>1. CASE CreateMagic
    <3>1. (passwd # Null) \in BOOLEAN
      OBVIOUS
    <3>2. Created(passwd # Null) \in Magic /\ Consistent(Created(passwd # Null))
      BY <3>1, CreatedType
    <3> QED BY <2>1, <3>2, PointerConstants DEF CreateMagic, WolTypeOK, PacketInv
  <2>2. CASE OpenSocket
    BY <2>2 DEF OpenSocket, WolTypeOK, PacketInv
  <2> QED BY <2>1, <2>2
<1>3. sockfd' \in {"none", "open", "closed"}
  BY DEF CreateMagic, OpenSocket, WolTypeOK
<1>4. WolTypeOK'
  BY <1>1, <1>2, <1>3 DEF WolTypeOK, GlobalsOK, File!ReaderTypeOK, readerVars
<1>5. ListInv'
  BY <1>1, CommandType DEF WolTypeOK, ListInv, Starting, InOperands, InFile, AtOperand,
     AtEntry, At
<1>6. StreamInv'
  <2>1. Reader!ReaderInv'
    BY <1>1, ReaderKept DEF StreamInv
  <2> QED BY <1>1, <2>1 DEF StreamInv, Starting, InOperands, AtOperand, AtEntry, At, readerVars
<1>7. PortFits' /\ PacketInv' /\ HeapInv' /\ MisuseInv'
  BY <1>1, <1>2 DEF PortFits, PacketInv, HeapInv, MisuseInv, Starting, AtEntry, At,
     GivenBeforePrompt, OneMode, UdpMode
<1>8. StatusInv' /\ WaitInv'
  BY <1>1 DEF StatusInv, Usable, WaitInv, AtOperand, At, Starting, ListInv, ProxyMode,
     UdpMode, RawMode
<1> QED BY <1>4, <1>5, <1>6, <1>7, <1>8

(* The loop over the operands and the way to the file; failures of fopen.    *)
LEMMA NextOperandInv ==
  ASSUME WolInv, NextOperand
  PROVE  WolInv'
<1> USE DEF WolInv, GoTo, cmdVars, stringVars, memoryVars
<1>1. /\ UNCHANGED <<cmdVars, stringVars, memoryVars, readerVars, magic, sockfd, i, ret,
                     wire, waits, status>>
      /\ pc = "argv" /\ pc' = "assemble" /\ i <= Len(cmd.operands) /\ from' = "argv"
      /\ mac' = [text |-> cmd.operands[i], mem |-> "argv"]
  BY DEF NextOperand
<1>2. i \in 1..Len(cmd.operands) /\ ~ request_stdin
  BY <1>1, CommandType DEF WolTypeOK, ListInv, InOperands
<1>3. mac'.text = cmd.operands[i] /\ mac' # Null /\ mac' \in Ptr(MacText)
  <2>1. cmd.operands[i] \in MacText
    BY <1>1, <1>2 DEF ListInv
  <2> QED BY <1>1, <2>1, NullConstants DEF Ptr, Mem
<1>4. WolTypeOK'
  BY <1>1, <1>3 DEF WolTypeOK, GlobalsOK, File!ReaderTypeOK, readerVars
<1>5. ListInv'
  BY <1>1, <1>2, <1>3 DEF ListInv, Starting, InOperands, InFile, AtOperand, AtEntry, At
<1>6. StreamInv'
  <2>1. Reader!ReaderInv'
    BY <1>1, ReaderKept DEF StreamInv
  <2> QED BY <1>1, <2>1 DEF StreamInv, InOperands, AtEntry, At, readerVars
<1>7. PortFits' /\ PacketInv' /\ HeapInv' /\ MisuseInv'
  BY <1>1 DEF PortFits, PacketInv, HeapInv, MisuseInv, Starting, AtEntry, At,
     GivenBeforePrompt, OneMode, UdpMode
<1>8. StatusInv' /\ WaitInv'
  BY <1>1 DEF StatusInv, Usable, WaitInv, AtOperand, At, ProxyMode, UdpMode, RawMode
<1> QED BY <1>4, <1>5, <1>6, <1>7, <1>8

(* The ends of the two loops, fopen, and the end of the program.             *)
LEMMA LoopsEndInv ==
  ASSUME WolInv, OperandsDone \/ OpenFile \/ FileDone \/ Finish
  PROVE  WolInv'
<1> USE DEF WolInv, GoTo, Leave, cmdVars, stringVars, memoryVars, machineVars
<1>1. /\ UNCHANGED <<cmdVars, stringVars, memoryVars, readerVars, i, mac, from, ret, wire,
                     waits>>
      /\ magic' = magic \/ (magic' = Null /\ pc' = "exited")
  BY DEF OperandsDone, OpenFile, FileDone, Finish
<1>2. \/ /\ pc = "argv" /\ i > Len(cmd.operands) /\ status' = status
         /\ pc' = IF pathname # Null THEN "fopen" ELSE "close"
      \/ pc = "fopen" /\ pc' = "file" /\ status' = status
      \/ pc = "fopen" /\ pc' = "exited" /\ status' = 1
      \/ pc = "file" /\ phase = "ended" /\ pc' = "close" /\ status' = status
      \/ pc = "close" /\ pc' = "exited" /\ status' = IF ret # 0 THEN 1 ELSE 0
  BY DEF OperandsDone, OpenFile, FileDone, Finish
<1>3. sockfd' \in {"none", "open", "closed"}
  BY DEF OperandsDone, OpenFile, FileDone, Finish, WolTypeOK
<1>4. WolTypeOK'
  BY <1>1, <1>2, <1>3 DEF WolTypeOK, GlobalsOK, File!ReaderTypeOK, readerVars
<1>5. ListInv'
  BY <1>1, <1>2, CommandType DEF WolTypeOK, ListInv, Starting, InOperands, InFile, AtOperand,
     AtEntry, At
<1>6. StreamInv'
  <2>1. Reader!ReaderInv'
    BY <1>1, ReaderKept DEF StreamInv
  <2> QED BY <1>1, <1>2, <2>1 DEF StreamInv, ListInv, Starting, InOperands, AtOperand,
          AtEntry, At, readerVars
<1>7. PortFits' /\ PacketInv' /\ HeapInv' /\ MisuseInv'
  BY <1>1, <1>2 DEF PortFits, PacketInv, HeapInv, StreamInv, MisuseInv, Starting, InOperands,
     AtEntry, At, GivenBeforePrompt, OneMode, UdpMode
<1>8. StatusInv' /\ WaitInv'
  BY <1>1, <1>2 DEF StatusInv, Usable, WaitInv, AtOperand, At, ProxyMode, UdpMode, RawMode
<1> QED BY <1>4, <1>5, <1>6, <1>7, <1>8

(* macfile_parse under way.                                                  *)
LEMMA ParseEntryInv ==
  ASSUME WolInv, ParseEntry
  PROVE  WolInv'
<1> USE DEF WolInv, cmdVars, memoryVars, machineVars
<1>1. /\ UNCHANGED <<cmdVars, pc, status, host_str, passwd, memoryVars, machineVars>>
      /\ pc = "file"
      /\ File!BeginParse \/ File!ReadStep
  BY DEF ParseEntry
<1>2. Reader!ReaderInv' /\ File!ReaderTypeOK'
  BY <1>1, ReaderMoves DEF StreamInv
<1>3. port' \in Nat
  <2>1. CASE File!ReadLine
    <3>1. Head(fp.lines) \in File!Line
      BY <2>1 DEF File!ReadLine, WolTypeOK, File!ReaderTypeOK
    <3>2. Head(fp.lines).port \in PortNum \cup {Null}
      BY <3>1 DEF File!Line, File!Fields
    <3> QED BY <2>1, <3>2, StreamConstants DEF File!MacfileConstants, File!ReadLine,
            WolTypeOK, GlobalsOK
  <2>2. CASE ~ File!ReadLine
    <3>1. port' \in {0, port}
      BY <1>1, <2>2 DEF File!BeginParse, File!ReadStep, File!ReadPastEnd, File!ReadError,
         File!LeaveLoop
    <3> QED BY <3>1 DEF WolTypeOK, GlobalsOK
  <2> QED BY <2>1, <2>2
<1>4. WolTypeOK'
  BY <1>1, <1>2, <1>3 DEF WolTypeOK, GlobalsOK
<1>5. ListInv' /\ StreamInv' /\ PortFits' /\ PacketInv' /\ HeapInv' /\ MisuseInv'
  BY <1>1, <1>2 DEF ListInv, StreamInv, PortFits, PacketInv, HeapInv, MisuseInv, Starting,
     InOperands, InFile, AtOperand, AtEntry, At, GivenBeforePrompt, OneMode, UdpMode
<1>6. StatusInv' /\ WaitInv'
  BY <1>1 DEF StatusInv, Usable, WaitInv, AtOperand, At, ProxyMode, UdpMode, RawMode
<1> QED BY <1>4, <1>5, <1>6

(* The strings main takes from macfile_parse are texts on the heap.          *)
LEMMA EntryType ==
  ASSUME GlobalsOK, File!ReaderTypeOK
  PROVE  /\ File!Entry.mac \in MacText /\ File!Entry.host \in HostText
         /\ File!Entry.passwd \in PassText \cup {Null}
         /\ File!Entry.port = port
         /\ Null \notin MacText /\ Null \notin HostText /\ Null \notin PassText
<1>1. local \in [mac : MacText, host : HostText, passwd : PassText]
  BY DEF File!ReaderTypeOK
<1>2. /\ File!Entry.mac = local.mac /\ File!Entry.host = local.host
      /\ File!Entry.passwd \in {local.passwd, Null}
      /\ File!Entry.port = port
  BY DEF File!Entry
<1> QED BY <1>1, <1>2, NullConstants

(* A port that can be sent to.                                               *)
LEMMA PortOrDefaultFits ==
  ASSUME NEW n \in Nat
  PROVE  ValidPort(PortOrDefault(n)) /\ PortOrDefault(n) \in 1..MaxPort
<1>1. CASE n = 0 \/ n > MaxPort
  BY <1>1, DefaultConstants, SMT DEF PortOrDefault, ValidPort
<1>2. CASE ~ (n = 0 \/ n > MaxPort)
  BY <1>2, MaxPortType, SMT DEF PortOrDefault, ValidPort
<1> QED BY <1>1, <1>2

(* An entry is taken: its strings are on the heap.                           *)
LEMMA TakeEntryInv ==
  ASSUME WolInv, TakeEntry
  PROVE  WolInv'
<1> USE DEF WolInv, GoTo, cmdVars, memoryVars
<1> DEFINE E == File!Entry
           pass == IF E.passwd = Null THEN Null ELSE [text |-> E.passwd, mem |-> "heap"]
<1>1. /\ UNCHANGED <<cmdVars, memoryVars, fp, local, willy, tokens, magic, sockfd, i, ret,
                     wire, waits, status>>
      /\ pc = "file" /\ phase = "parsed" /\ phase' = "idle"
      /\ pc' = "assemble" /\ from' = "file"
      /\ port' = PortOrDefault(E.port)
  BY DEF TakeEntry
<1>2. GlobalsOK /\ File!ReaderTypeOK
  BY DEF WolTypeOK
<1>3. /\ mac_str' = [text |-> E.mac, mem |-> "heap"] /\ mac' = mac_str'
      /\ host_str' = [text |-> E.host, mem |-> "heap"]
      /\ passwd' = pass
  BY <1>2, EntryType DEF TakeEntry
<1>4. /\ mac_str' \in Ptr(MacText) /\ host_str' \in Ptr(HostText)
      /\ passwd' \in Ptr(PassText)
      /\ mac_str' # Null /\ host_str' # Null
  BY <1>2, <1>3, EntryType, NullConstants DEF Ptr, Mem
<1>5. port' \in Nat /\ ValidPort(port')
  <2>1. E.port \in Nat
    BY <1>2, EntryType DEF GlobalsOK
  <2>2. port' \in 1..MaxPort /\ ValidPort(port')
    BY <1>1, <2>1, PortOrDefaultFits
  <2> QED BY <2>2, MaxPortType
<1> HIDE DEF E, pass
<1>6. WolTypeOK'
  BY <1>1, <1>3, <1>4, <1>5 DEF WolTypeOK, GlobalsOK, File!ReaderTypeOK
<1>7. ListInv'
  BY <1>1, <1>4 DEF ListInv, Starting, InOperands, InFile, AtOperand, AtEntry, At
<1>8. StreamInv'
  <2>1. Reader!ReaderInv'
    BY <1>1 DEF StreamInv, Reader!ReaderInv, Reader!ReaderTypeOK, Reader!CallUnderWay,
       Reader!EndNoticed, Reader!EntryIsTheLineRead, Reader!NoLineOnlyAtABrokenEnd
  <2> QED BY <1>1, <1>3, <1>4, <2>1 DEF StreamInv, Starting, InOperands, AtOperand, AtEntry, At
<1>9. PortFits' /\ PacketInv' /\ MisuseInv'
  BY <1>1, <1>5 DEF PortFits, PacketInv, MisuseInv, Starting, AtEntry, At,
     GivenBeforePrompt, OneMode, UdpMode
<1>10. HeapInv'
  BY <1>1, <1>3 DEF HeapInv, AtEntry, At, OnHeap, pass
<1>11. StatusInv' /\ WaitInv'
  BY <1>1 DEF StatusInv, Usable, WaitInv, AtOperand, At, ProxyMode, UdpMode, RawMode
<1> QED BY <1>6, <1>7, <1>8, <1>9, <1>10, <1>11

(* magic_assemble: only a packet that is complete is sent.                   *)
LEMMA AssembleInv ==
  ASSUME WolInv, Assemble
  PROVE  WolInv'
<1> USE DEF WolInv, GoTo, Failed, cmdVars, stringVars, memoryVars
<1> DEFINE pass == TextOf(passwd)
<1>1. /\ UNCHANGED <<cmdVars, stringVars, memoryVars, readerVars, sockfd, i, mac, from, wire,
                     waits, status>>
      /\ pc = "assemble" /\ ~ ProxyMode
      /\ magic' = Assembled(magic, mac.text, pass)
      /\ \/ AssembleResult(mac.text, pass) = 0 /\ pc' = "send" /\ ret' = ret
         \/ AssembleResult(mac.text, pass) # 0 /\ pc' = "return" /\ ret' = ret + 1
  BY DEF Assemble
<1>2. ret \in Nat /\ passwd \in Ptr(PassText) /\ mac \in Ptr(MacText) /\ mac # Null
  BY <1>1 DEF WolTypeOK, GlobalsOK, ListInv, StreamInv, AtOperand, AtEntry, At
<1>3. mac.text \in MacText /\ pass \in PassText \cup {Null}
  BY <1>2, PtrType
<1>4. magic \in Magic /\ Consistent(magic)
  BY <1>1 DEF WolTypeOK, PacketInv
<1>5. /\ magic' \in Magic /\ Consistent(magic')
      /\ AssembleResult(mac.text, pass) = 0 =>
           /\ magic'.packet = MagicPacketFor(mac.text, pass)
           /\ magic'.size = DatagramSize(pass)
  BY <1>1, <1>3, <1>4, AssembledType
<1>6. AssembleResult(mac.text, pass) = 0 => KnownMac(mac.text) /\ ValidPass(pass)
  BY DEF AssembleResult
<1>7. pass' = pass
  BY <1>1 DEF TextOf
<1> HIDE DEF pass
<1>8. WolTypeOK'
  BY <1>1, <1>2, <1>5 DEF WolTypeOK, GlobalsOK, File!ReaderTypeOK, readerVars
<1>9. ListInv'
  BY <1>1 DEF ListInv, Starting, InOperands, InFile, AtOperand, AtEntry, At
<1>10. StreamInv'
  <2>1. Reader!ReaderInv'
    BY <1>1, ReaderKept DEF StreamInv
  <2> QED BY <1>1, <2>1 DEF StreamInv, Starting, InOperands, AtOperand, AtEntry, At, readerVars
<1>11. PacketInv'
  <2>1. magic' # Null
    BY <1>5, PointerConstants
  <2> QED BY <1>1, <1>5, <1>7, <2>1 DEF PacketInv, ProxyMode, UdpMode, pass
<1>12. PortFits' /\ HeapInv' /\ MisuseInv'
  BY <1>1 DEF PortFits, HeapInv, MisuseInv, Starting, AtEntry, At, GivenBeforePrompt, OneMode,
     UdpMode, OnHeap, IsFreed
<1>13. StatusInv'
  BY <1>1, <1>2, <1>6, <1>7 DEF StatusInv, Usable, AtOperand, At, ProxyMode, UdpMode, pass
<1>14. WaitInv'
  BY <1>1 DEF WaitInv, UdpMode, ProxyMode, RawMode
<1> QED BY <1>8, <1>9, <1>10, <1>11, <1>12, <1>13, <1>14

(* Sending by UDP or on a raw socket.                                        *)
LEMMA SendInv ==
  ASSUME WolInv, SendUdp \/ SendRaw
  PROVE  WolInv'
<1> USE DEF WolInv, GoTo, Failed, cmdVars, stringVars, memoryVars
<1>1. /\ UNCHANGED <<cmdVars, stringVars, memoryVars, readerVars, magic, sockfd, i, mac, from,
                     waits, status>>
      /\ pc = "send"
      /\ \/ pc' = "sent" /\ ret' = ret
         \/ pc' = "return" /\ ret' = ret + 1 /\ UdpMode /\ wire' = wire
  BY DEF SendUdp, SendRaw
<1>2. /\ ret \in Nat /\ magic \in Magic /\ passwd \in Ptr(PassText) /\ mac \in Ptr(MacText)
      /\ host_str \in Ptr(HostText) /\ host_str # Null
      /\ wire \in Seq(UdpDatagram \cup RawFrame \cup ProxyReply)
  BY <1>1 DEF WolTypeOK, GlobalsOK, ListInv, PacketInv
<1>3. \/ wire' = wire /\ (UdpMode => pc' = "return") /\ UdpMode \in BOOLEAN
      \/ \E m \in UdpDatagram \cup RawFrame : wire' = Append(wire, m) /\ pc' = "sent"
  <2>1. CASE SendUdp
    <3> DEFINE m == [packet |-> magic.packet, size |-> magic.size,
                     host |-> host_str.text, port |-> port]
    <3>1. m \in UdpDatagram
      <4>1. port \in 1..MaxPort
        BY <1>1 DEF PortFits, At, ValidPort
      <4>2. host_str.text \in HostText
        BY <1>2, PtrType
      <4>3. magic.packet \in Packet /\ magic.size \in Nat
        BY <1>2, Sizes DEF Magic
      <4> QED BY <4>1, <4>2, <4>3 DEF UdpDatagram
    <3>2. (wire' = Append(wire, m) /\ pc' = "sent") \/ (wire' = wire /\ pc' = "return")
      BY <2>1 DEF SendUdp
    <3> QED BY <3>1, <3>2 DEF UdpMode
  <2>2. CASE SendRaw
    <3> DEFINE m == [packet |-> magic.packet, size |-> magic.size]
    <3>1. m \in RawFrame
      BY <1>2, Sizes DEF Magic, RawFrame
    <3>2. ~ UdpMode /\ pc' = "sent" /\ (wire' = Append(wire, m) \/ wire' = wire)
      BY <2>2 DEF SendRaw, RawMode
    <3> QED BY <3>1, <3>2 DEF UdpMode
  <2> QED BY <2>1, <2>2
<1>4. /\ wire' \in Seq(UdpDatagram \cup RawFrame \cup ProxyReply)
      /\ Len(wire') \in {Len(wire), Len(wire) + 1}
      /\ pc' = "sent" /\ UdpMode => Len(wire') = Len(wire) + 1
      /\ pc' = "return" => Len(wire') = Len(wire)
  BY <1>1, <1>2, <1>3
<1>5. AssembleResult(mac.text, TextOf(passwd)) = 0 /\ ~ ProxyMode
  BY <1>1 DEF PacketInv
<1>6. TextOf(passwd)' = TextOf(passwd)
  BY <1>1 DEF TextOf
<1>7. WolTypeOK'
  BY <1>1, <1>2, <1>4 DEF WolTypeOK, GlobalsOK, File!ReaderTypeOK, readerVars
<1>8. ListInv'
  BY <1>1 DEF ListInv, Starting, InOperands, InFile, AtOperand, AtEntry, At
<1>9. StreamInv'
  <2>1. Reader!ReaderInv'
    BY <1>1, ReaderKept DEF StreamInv
  <2> QED BY <1>1, <2>1 DEF StreamInv, Starting, InOperands, AtOperand, AtEntry, At, readerVars
<1>10. PacketInv'
  BY <1>1, <1>5, <1>6 DEF PacketInv, ProxyMode, UdpMode
<1>11. PortFits' /\ HeapInv' /\ MisuseInv'
  BY <1>1 DEF PortFits, HeapInv, MisuseInv, Starting, AtEntry, At, GivenBeforePrompt, OneMode,
     UdpMode, OnHeap, IsFreed
<1>12. StatusInv'
  <2>1. KnownMac(mac.text) /\ ValidPass(TextOf(passwd))
    BY <1>5 DEF AssembleResult
  <2> QED BY <1>1, <1>2, <1>5, <1>6, <2>1 DEF StatusInv, Usable, AtOperand, At, ProxyMode,
          UdpMode
<1>13. WaitInv'
  <2>1. Len(wire) \in Nat /\ waits \in Nat
    BY <1>2 DEF WolTypeOK
  <2> QED BY <1>1, <1>4, <2>1 DEF WaitInv, UdpMode, ProxyMode, RawMode
<1> QED BY <1>7, <1>8, <1>9, <1>10, <1>11, <1>12, <1>13

(* The pause behind the report, and the way back to the operands.            *)
LEMMA ReturnsInv ==
  ASSUME WolInv, ReportAndWait \/ ReturnToOperands
  PROVE  WolInv'
<1> USE DEF WolInv, GoTo, cmdVars, stringVars, memoryVars
<1>1. /\ UNCHANGED <<cmdVars, stringVars, memoryVars, readerVars, magic, sockfd, mac, from,
                     ret, wire, status>>
      /\ \/ /\ pc = "sent" /\ pc' = "return" /\ i' = i
            /\ waits' = IF msecs # 0 THEN waits + 1 ELSE waits
         \/ /\ pc = "return" /\ from = "argv" /\ pc' = "argv" /\ i' = i + 1
            /\ waits' = waits
  BY DEF ReportAndWait, ReturnToOperands
<1>2. i \in Nat /\ waits \in Nat /\ Len(wire) \in Nat
  BY DEF WolTypeOK
<1>3. TextOf(passwd)' = TextOf(passwd)
  BY <1>1 DEF TextOf
<1>4. WolTypeOK'
  BY <1>1, <1>2 DEF WolTypeOK, GlobalsOK, File!ReaderTypeOK, readerVars
<1>5. ListInv'
  BY <1>1, <1>2, CommandType DEF WolTypeOK, ListInv, Starting, InOperands, InFile, AtOperand,
     AtEntry, At
<1>6. StreamInv'
  <2>1. Reader!ReaderInv'
    BY <1>1, ReaderKept DEF StreamInv
  <2> QED BY <1>1, <2>1 DEF StreamInv, Starting, InOperands, AtOperand, AtEntry, At, readerVars
<1>7. PacketInv' /\ PortFits' /\ HeapInv' /\ MisuseInv'
  BY <1>1 DEF PacketInv, PortFits, HeapInv, MisuseInv, Starting, AtEntry, At,
     GivenBeforePrompt, OneMode, UdpMode, OnHeap, IsFreed
<1>8. StatusInv'
  <2>1. pc = "sent" => KnownMac(mac.text) /\ ValidPass(TextOf(passwd)) /\ ~ ProxyMode
    BY DEF PacketInv, AssembleResult
  <2>2. CASE pc = "sent"
    BY <1>1, <1>3, <2>1, <2>2 DEF StatusInv, Usable, AtOperand, At, ProxyMode, UdpMode
  <2>3. CASE pc = "return"
    <3>1. AtOperand /\ mac.text = cmd.operands[i] /\ i \in Nat
      BY <1>1, <1>2, <2>3 DEF ListInv, AtOperand, At
    <3>2. \A k \in 1..Len(cmd.operands) : k < i + 1 => k < i \/ k = i
      BY <1>2, CommandType DEF WolTypeOK
    <3> QED BY <1>1, <1>2, <1>3, <2>3, <3>1, <3>2 DEF StatusInv, Usable, AtOperand, At,
            ProxyMode, UdpMode
  <2> QED BY <1>1, <2>2, <2>3
<1>9. WaitInv'
  BY <1>1, <1>2 DEF WaitInv, UdpMode, ProxyMode, RawMode
<1> QED BY <1>4, <1>5, <1>6, <1>7, <1>8, <1>9

(* Proxy mode: whatever comes of it, nothing but a failure is returned.      *)
LEMMA ProxyInv ==
  ASSUME WolInv, AskProxyPasswd \/ ProxyWithPasswd \/ ProxyKills
  PROVE  WolInv'
<1> USE DEF WolInv, GoTo, Leave, Failed, MayAbort, cmdVars, stringVars, memoryVars, machineVars
<1>1. /\ UNCHANGED <<cmdVars, host_str, port, mac_str, readerVars, magic, sockfd, i, mac, from,
                     waits>>
      /\ pc = "assemble" /\ ProxyMode
      /\ asked' \in {asked, asked + 1}
      /\ \/ pc' = "exited" /\ status' \in {1, Killed, Aborted} /\ ret' = ret
         \/ pc' = "return" /\ ret' = ret + 1 /\ status' = status
  BY DEF AskProxyPasswd, ProxyWithPasswd, ProxyKills
<1>2. /\ ret \in Nat /\ passwd \in Ptr(PassText) /\ mac \in Ptr(MacText)
      /\ mac # Null /\ asked \in Nat
      /\ wire \in Seq(UdpDatagram \cup RawFrame \cup ProxyReply)
  BY <1>1 DEF WolTypeOK, GlobalsOK, ListInv, StreamInv, AtOperand, AtEntry, At
<1>3. wire' = wire \/ \E m \in ProxyReply : wire' = Append(wire, m)
  <2>1. mac.text \in MacText /\ (passwd # Null => passwd.text \in PassText)
    BY <1>2, PtrType
  <2>2. ASSUME NEW t \in PassText, wire' = Append(wire, [mac |-> Prefix[mac.text], pass |-> t])
        PROVE  \E m \in ProxyReply : wire' = Append(wire, m)
    <3>1. [mac |-> Prefix[mac.text], pass |-> t] \in ProxyReply
      BY <2>1 DEF ProxyReply
    <3> QED BY <2>2, <3>1
  <2>3. CASE AskProxyPasswd
    BY <2>2, <2>3 DEF AskProxyPasswd
  <2>4. CASE ProxyWithPasswd
    BY <2>1, <2>2, <2>4 DEF ProxyWithPasswd
  <2>5. CASE ProxyKills
    BY <2>5 DEF ProxyKills
  <2> QED BY <2>3, <2>4, <2>5
<1>4. misuse' \subseteq Misuse
  <2>1. misuse \subseteq Misuse
    BY DEF WolTypeOK, GlobalsOK
  <2> QED BY <2>1 DEF AskProxyPasswd, ProxyWithPasswd, ProxyKills, FreeErrors, Misuse
<1>5. passwd' \in Ptr(PassText)
  <2>1. Free(passwd) \in Ptr(PassText)
    BY <1>2 DEF Free, Ptr, Mem
  <2> QED BY <1>2, <2>1 DEF AskProxyPasswd, ProxyWithPasswd, ProxyKills
<1>6. WolTypeOK'
  BY <1>1, <1>2, <1>3, <1>4, <1>5 DEF WolTypeOK, GlobalsOK, File!ReaderTypeOK, readerVars
<1>7. ListInv'
  BY <1>1 DEF ListInv, Starting, InOperands, InFile, AtOperand, AtEntry, At
<1>8. StreamInv'
  <2>1. Reader!ReaderInv'
    BY <1>1, ReaderKept DEF StreamInv
  <2> QED BY <1>1, <2>1 DEF StreamInv, Starting, InOperands, AtOperand, AtEntry, At, readerVars
<1>9. ~ UdpMode /\ ~ UdpMode' /\ ProxyMode'
  BY <1>1 DEF ProxyMode, UdpMode
<1>10. PacketInv' /\ PortFits' /\ HeapInv' /\ MisuseInv'
  BY <1>1, <1>9 DEF PacketInv, PortFits, HeapInv, MisuseInv, Starting, AtEntry, At,
     GivenBeforePrompt, OneMode
<1>11. StatusInv'
  <2>1. ret' = 0 => i' = 1
    BY <1>1, <1>2 DEF StatusInv, ListInv, WolTypeOK
  <2>2. Len(cmd.operands) \in Nat
    BY CommandType DEF WolTypeOK
  <2>3. ret' = 0 => Usable'
    BY <1>1, <2>1, <2>2 DEF Usable
  <2> QED BY <1>1, <1>2, <2>1, <2>3, <1>9 DEF StatusInv, AtOperand, At, Killed, Aborted
<1>12. WaitInv'
  BY <1>1, <1>9 DEF WaitInv, RawMode
<1> QED BY <1>6, <1>7, <1>8, <1>10, <1>11, <1>12

(* The strings of an entry are freed.                                        *)
LEMMA ReturnToFileInv ==
  ASSUME WolInv, ReturnToFile
  PROVE  WolInv'
<1> USE DEF WolInv, GoTo, Leave, MayAbort, cmdVars, memoryVars
<1>1. /\ UNCHANGED <<cmdVars, port, asked, readerVars, magic, sockfd, i, mac, from, ret, wire,
                     waits>>
      /\ pc = "return" /\ AtEntry
      /\ \/ pc' = "file" /\ status' = status
         \/ pc' = "exited" /\ status' = Aborted
      /\ mac_str' = Free(mac_str) /\ host_str' = Free(host_str) /\ passwd' = Free(passwd)
      /\ misuse' = misuse \cup FreeErrors({mac_str, host_str, passwd})
  BY DEF ReturnToFile, AtEntry, At
<1>2. mac_str \in Ptr(MacText) /\ host_str \in Ptr(HostText) /\ passwd \in Ptr(PassText)
  BY DEF WolTypeOK, GlobalsOK
<1>3. ASSUME NEW Text \in {MacText, HostText, PassText}, NEW p \in Ptr(Text)
      PROVE  /\ Free(p) \in Ptr(Text) /\ (Free(p) = Null <=> p = Null)
             /\ TextOf(Free(p)) = TextOf(p)
             /\ OnHeap(p) => IsFreed(Free(p)) /\ FreeErrors({p}) = {}
  <2>1. p = Null \/ p \in [text : Text, mem : Mem]
    BY <1>3 DEF Ptr
  <2>2. CASE p = Null
    BY <2>2, <1>3 DEF Free, FreeErrors, IsFreed, Stale, Ptr
  <2>3. CASE p # Null
    <3>1. p \in [text : Text, mem : Mem] /\ Null \notin [text : Text, mem : Mem]
      BY <1>3, <2>1, <2>3, NullConstants
    <3>2. Free(p) \in [text : Text, mem : Mem] /\ Free(p).text = p.text
      BY <3>1 DEF Free, Mem
    <3>3. p.mem = "heap" => Free(p).mem = "freed" /\ FreeErrors({p}) = {}
      BY <2>3, <3>1 DEF Free, FreeErrors, Stale
    <3> QED BY <2>3, <3>1, <3>2, <3>3 DEF OnHeap, IsFreed, TextOf, Ptr
  <2> QED BY <2>2, <2>3
<1>4. /\ mac_str' \in Ptr(MacText) /\ host_str' \in Ptr(HostText) /\ passwd' \in Ptr(PassText)
      /\ mac_str' = Null <=> mac_str = Null
      /\ host_str' = Null <=> host_str = Null
      /\ TextOf(passwd)' = TextOf(passwd)
  <2>1. TextOf(passwd') = TextOf(passwd)'
    BY DEF TextOf
  <2> QED BY <1>1, <1>2, <1>3, <2>1
<1>5. misuse' \subseteq Misuse
  <2>1. misuse \subseteq Misuse
    BY DEF WolTypeOK, GlobalsOK
  <2> QED BY <1>1, <2>1 DEF FreeErrors, Misuse
<1>6. UdpMode => /\ FreeErrors({mac_str, host_str, passwd}) = {}
                 /\ IsFreed(mac_str') /\ IsFreed(host_str') /\ IsFreed(passwd')
  <2> SUFFICES ASSUME UdpMode
               PROVE  /\ FreeErrors({mac_str, host_str, passwd}) = {}
                      /\ IsFreed(mac_str') /\ IsFreed(host_str') /\ IsFreed(passwd')
    OBVIOUS
  <2>1. OnHeap(mac_str) /\ OnHeap(host_str) /\ OnHeap(passwd)
    BY <1>1 DEF HeapInv
  <2>2. \A p \in {mac_str, host_str, passwd} : p = Null \/ p.mem = "heap"
    BY <2>1 DEF OnHeap
  <2>3. FreeErrors({mac_str, host_str, passwd}) = {}
    BY <2>2 DEF FreeErrors, Stale
  <2> QED BY <1>1, <1>2, <1>3, <2>1, <2>3
<1>7. WolTypeOK'
  <2>1. GlobalsOK'
    BY <1>1, <1>4, <1>5 DEF WolTypeOK, GlobalsOK
  <2>2. File!ReaderTypeOK'
    BY <1>1 DEF WolTypeOK, File!ReaderTypeOK, readerVars
  <2> QED BY <1>1, <1>4, <2>1, <2>2 DEF WolTypeOK
<1>8. ListInv'
  BY <1>1, <1>4 DEF ListInv, Starting, InOperands, InFile, AtOperand, AtEntry, At
<1>9. StreamInv'
  <2>1. Reader!ReaderInv'
    BY <1>1, ReaderKept DEF StreamInv
  <2> QED BY <1>1, <2>1 DEF StreamInv, Starting, InOperands, AtOperand, AtEntry, At
<1>10. PacketInv' /\ PortFits'
  BY <1>1 DEF PacketInv, PortFits, Starting, At
<1>11. HeapInv' /\ MisuseInv'
  BY <1>1, <1>6 DEF HeapInv, MisuseInv, AtEntry, At, UdpMode, OneMode, GivenBeforePrompt
<1>12. StatusInv'
  BY <1>1, <1>4 DEF StatusInv, Usable, AtOperand, At, ProxyMode, UdpMode, Aborted
<1>13. WaitInv'
  BY <1>1 DEF WaitInv, UdpMode, ProxyMode, RawMode
<1> QED BY <1>7, <1>8, <1>9, <1>10, <1>11, <1>12, <1>13

(* Every step of the program preserves it.                                   *)
LEMMA WolNextInv == WolInv /\ [WolNext]_wolVars => WolInv'
<1> SUFFICES ASSUME WolInv, [WolNext]_wolVars PROVE WolInv'
  OBVIOUS
<1>1. CASE WolNext
  BY <1>1, ParseArgsInv, OpeningInv, NextOperandInv, LoopsEndInv, ParseEntryInv, TakeEntryInv,
     AssembleInv, SendInv, ProxyInv, ReturnsInv, ReturnToFileInv DEF WolNext
<1>2. CASE UNCHANGED wolVars
  <2> USE <1>2 DEF wolVars, optionVars, machineVars, WolInv
  <2>1. Reader!ReaderInv'
    BY ReaderKept DEF StreamInv
  <2>2. WolTypeOK' /\ ListInv' /\ StreamInv'
    BY <2>1 DEF WolTypeOK, GlobalsOK, File!ReaderTypeOK, ListInv, StreamInv, readerVars,
       Starting, InOperands, InFile, AtOperand, AtEntry, At
  <2>3. PortFits' /\ PacketInv' /\ HeapInv' /\ MisuseInv'
    BY DEF PortFits, PacketInv, HeapInv, MisuseInv, Starting, AtEntry, At, GivenBeforePrompt,
       GivenBefore, OneMode, AskedOnce, UdpMode, ProxyMode, OnHeap, IsFreed, TextOf
  <2>4. StatusInv' /\ WaitInv'
    BY DEF StatusInv, Usable, WaitInv, AtOperand, At, ProxyMode, UdpMode, RawMode, TextOf
  <2> QED BY <2>2, <2>3, <2>4
<1> QED BY <1>1, <1>2

(* All of it holds, whatever the command line, the stream, the network and   *)
(* the user do.                                                              *)
THEOREM WolInvariant == WolSpec => []WolInv
<1>1. WolInit => WolInv
  BY WolInitInv
<1>2. WolInv /\ [WolNext]_wolVars => WolInv'
  BY WolNextInv
<1> QED BY <1>1, <1>2, PTL DEF WolSpec

(* The program's variables keep their types: a datagram that went out has a  *)
(* port it can have, and is of one of the two sizes.                         *)
THEOREM WolTypeCorrect == WolSpec => []WolTypeOK
<1>1. WolInv => WolTypeOK
  BY DEF WolInv
<1> QED BY <1>1, WolInvariant, PTL

(* In UDP mode, what macfile_parse has allocated is freed exactly once, and  *)
(* before its next call; nothing else is freed.                              *)
THEOREM UdpMemoryManaged == WolSpec => []UdpMemoryIsManaged
<1>1. WolInv => UdpMemoryIsManaged
  BY DEF WolInv, UdpMemoryIsManaged, MemoryIsManaged, MisuseInv, HeapInv, IsFreed
<1> QED BY <1>1, WolInvariant, PTL

(* An exit status of 0 tells that every operand worked on stood for an       *)
(* address, and that the password was one.                                   *)
THEOREM ZeroIsUsable == WolSpec => []ZeroMeansUsable
<1>1. WolInv => ZeroMeansUsable
  <2> SUFFICES ASSUME WolInv, pc = "exited", status = 0, NEW k \in 1..Len(cmd.operands), k < i
               PROVE  AssembleResult(cmd.operands[k], TextOf(passwd)) = 0
    BY DEF ZeroMeansUsable
  <2>1. k \in Nat /\ k >= 1 /\ i \in Nat
    BY CommandType DEF WolInv, WolTypeOK
  <2>2. ret = 0
    BY <2>1 DEF WolInv, StatusInv
  <2>3. KnownMac(cmd.operands[k]) /\ ValidPass(TextOf(passwd))
    BY <2>1, <2>2 DEF WolInv, StatusInv, Usable
  <2> QED BY <2>3 DEF AssembleResult
<1> QED BY <1>1, WolInvariant, PTL

-----------------------------------------------------------------------------
(* What goes out. Only four of the actions send, and only from where a call  *)
(* has the packet or the proxy's challenge before it.                        *)
LEMMA WhoSends ==
  ASSUME WolInv, [WolNext]_wolVars, wire' # wire
  PROVE  SendUdp \/ SendRaw \/ AskProxyPasswd \/ ProxyWithPasswd
BY DEF WolNext, wolVars, machineVars, ParseArgs, CreateMagic, OpenSocket, NextOperand,
   OperandsDone, OpenFile, ParseEntry, TakeEntry, FileDone, Assemble, ProxyKills,
   ReportAndWait, ReturnToOperands, ReturnToFile, Finish

(* The call at hand is for the machine at hand.                              *)
LEMMA AtHand ==
  ASSUME WolInv, At
  PROVE  mac.text = IF from = "argv" THEN cmd.operands[i] ELSE mac_str.text
BY DEF WolInv, WolTypeOK, ListInv, StreamInv, AtOperand, AtEntry

(* A pause for every packet comes before the next one goes out.              *)
THEOREM PausesComeFirst == WolSpec => UdpWaitsBetweenPackets
<1>1. ASSUME WolInv, [WolNext]_wolVars
      PROVE  wire' # wire /\ msecs # 0 => /\ UdpMode => waits = Len(wire)
                                          /\ RawMode => waits >= Len(wire)
  <2> SUFFICES ASSUME wire' # wire, msecs # 0
               PROVE  (UdpMode => waits = Len(wire)) /\ (RawMode => waits >= Len(wire))
    OBVIOUS
  <2>1. pc = "send" \/ ProxyMode
    BY <1>1, WhoSends DEF SendUdp, SendRaw, AskProxyPasswd, ProxyWithPasswd
  <2>2. Len(wire) \in Nat
    BY <1>1 DEF WolInv, WolTypeOK
  <2> QED BY <1>1, <2>1, <2>2 DEF WolInv, WaitInv, ProxyMode, RawMode
<1> QED BY <1>1, WolInvariant, PTL DEF WolSpec, UdpWaitsBetweenPackets

(* A message is for the machine at hand, and the call that sent it ends.     *)
THEOREM MessagesAreInTurn == WolSpec => OneMessagePerRequest
<1> DEFINE m == wire'[Len(wire')]
           r == IF from = "argv" THEN cmd.operands[i] ELSE mac_str.text
           InTurn == /\ wire' = Append(wire, m)
                     /\ IF ProxyMode THEN m.mac = Prefix[r]
                        ELSE m.packet = MagicPacketFor(r, TextOf(passwd))
                     /\ ~ Settled /\ (Settled' \/ status' = Aborted)
<1>1. ASSUME WolInv, [WolNext]_wolVars, wire' # wire
      PROVE  InTurn
  <2>1. At /\ ~ Settled /\ mac.text = r
    BY <1>1, WhoSends, AtHand DEF SendUdp, SendRaw, AskProxyPasswd, ProxyWithPasswd, At, Settled
  <2>2. ASSUME NEW e, wire' = Append(wire, e) PROVE m = e /\ wire' = Append(wire, m)
    BY <1>1, <2>2 DEF WolInv, WolTypeOK
  <2>3. CASE SendUdp \/ SendRaw
    <3>1. \E e : wire' = Append(wire, e) /\ e.packet = magic.packet
      BY <1>1, <2>3 DEF SendUdp, SendRaw
    <3>2. ~ ProxyMode /\ magic.packet = MagicPacketFor(r, TextOf(passwd))
      BY <1>1, <2>1, <2>3 DEF SendUdp, SendRaw, WolInv, PacketInv
    <3>3. pc' = "sent"
      BY <1>1, <2>3 DEF SendUdp, SendRaw, GoTo
    <3> QED BY <2>1, <2>2, <3>1, <3>2, <3>3 DEF Settled
  <2>4. CASE AskProxyPasswd \/ ProxyWithPasswd
    <3>1. \E e : wire' = Append(wire, e) /\ e.mac = Prefix[r]
      <4>1. PICK t : wire' = Append(wire, [mac |-> Prefix[mac.text], pass |-> t])
        <5>1. CASE AskProxyPasswd
          BY <1>1, <5>1 DEF AskProxyPasswd
        <5>2. CASE ProxyWithPasswd
          BY <1>1, <5>2 DEF ProxyWithPasswd
        <5> QED BY <2>4, <5>1, <5>2
      <4> QED BY <2>1, <4>1
    <3>2. ProxyMode /\ (pc' = "return" \/ status' = Aborted)
      BY <1>1, <2>4 DEF AskProxyPasswd, ProxyWithPasswd, Failed, GoTo, MayAbort, Leave
    <3> QED BY <2>1, <2>2, <3>1, <3>2 DEF Settled
  <2> QED BY <1>1, <2>3, <2>4, WhoSends
<1> QED BY <1>1, WolInvariant, PTL DEF WolSpec, OneMessagePerRequest

-----------------------------------------------------------------------------
(* The promise of WakeUp. First the list of what is not settled: the lines   *)
(* of the stream, the operands, and the request at hand.                     *)
Asked      == Request \cup {Null}
RequestsOf(lines) == [k \in 1..Len(lines) |-> RequestOf(lines[k])]
AtHandNow  == RequestFor(mac.text, host_str.text, port, TextOf(passwd))

(* A line asks for a machine or for nothing.                                 *)
LEMMA LineAsks ==
  ASSUME NEW l \in File!Line
  PROVE  RequestOf(l) \in Asked
<1>1. /\ l.mac \in MacText \cup {Null} /\ l.host \in HostText \cup {Null}
      /\ l.port \in PortNum \cup {Null} /\ l.passwd \in PassText \cup {Null}
  BY DEF File!Line, File!Fields
<1>2. l.port # Null => PortOrDefault(l.port) \in 1..MaxPort
  BY <1>1, PortOrDefaultFits, StreamConstants DEF File!MacfileConstants, ValidPort
<1>3. DEFAULT_PORT \in 1..MaxPort
  BY PortOrDefaultFits DEF PortOrDefault, ValidPort
<1> QED BY <1>1, <1>2, <1>3 DEF RequestOf, RequestFor, Request, Asked

(* The list of a stream follows the stream line by line.                     *)
LEMMA LinesAsk ==
  ASSUME NEW lines \in Seq(File!Line)
  PROVE  /\ RequestsOf(lines) \in Seq(Asked)
         /\ lines = <<>> <=> RequestsOf(lines) = <<>>
         /\ lines # <<>> => /\ Head(RequestsOf(lines)) = RequestOf(Head(lines))
                            /\ Tail(RequestsOf(lines)) = RequestsOf(Tail(lines))
<1>1. RequestsOf(lines) \in Seq(Asked) /\ Len(RequestsOf(lines)) = Len(lines)
  <2>1. \A k \in 1..Len(lines) : RequestOf(lines[k]) \in Asked
    BY LineAsks
  <2> QED BY <2>1 DEF RequestsOf
<1>2. lines = <<>> <=> RequestsOf(lines) = <<>>
  BY <1>1, EmptySeq
<1>3. ASSUME lines # <<>>
      PROVE  /\ Head(RequestsOf(lines)) = RequestOf(Head(lines))
             /\ Tail(RequestsOf(lines)) = RequestsOf(Tail(lines))
  <2>1. Head(RequestsOf(lines)) = RequestOf(Head(lines))
    BY <1>1, <1>3 DEF RequestsOf
  <2>2. Tail(lines) \in Seq(File!Line) /\ Len(Tail(lines)) = Len(lines) - 1
    BY <1>3
  <2>3. Tail(RequestsOf(lines)) = RequestsOf(Tail(lines))
    BY <1>1, <1>3, <2>2 DEF RequestsOf
  <2> QED BY <2>1, <2>3
<1> QED BY <1>1, <1>2, <1>3

(* A sequence is its first element and the rest.                             *)
LEMMA FirstAndRest ==
  ASSUME NEW S, NEW s \in Seq(S), NEW T, NEW t \in Seq(T), NEW e,
         Len(s) = Len(t) + 1, s[1] = e, \A k \in 1..Len(t) : s[k + 1] = t[k]
  PROVE  s = <<e>> \o t
<1>1. <<e>> \in Seq(S \cup T \cup {e}) /\ t \in Seq(S \cup T \cup {e})
      /\ s \in Seq(S \cup T \cup {e})
  OBVIOUS
<1>2. /\ <<e>> \o t \in Seq(S \cup T \cup {e}) /\ Len(<<e>> \o t) = Len(s)
      /\ \A k \in 1..Len(s) : (<<e>> \o t)[k] = IF k = 1 THEN e ELSE t[k - 1]
  BY <1>1, ConcatProperties
<1>3. \A k \in 1..Len(s) : s[k] = IF k = 1 THEN e ELSE t[k - 1]
  <2> SUFFICES ASSUME NEW k \in 1..Len(s), k # 1 PROVE s[k] = t[k - 1]
    OBVIOUS
  <2>1. k - 1 \in 1..Len(t) /\ (k - 1) + 1 = k
    OBVIOUS
  <2> QED BY <2>1
<1> QED BY <1>1, <1>2, <1>3, SeqEqual

(* Behind the last operand nothing is left.                                  *)
LEMMA NoOperands ==
  ASSUME WolInv
  PROVE  OperandsFrom(Len(cmd.operands) + 1) = <<>>
<1>1. Len(cmd.operands) \in Nat
  BY CommandType DEF WolInv, WolTypeOK
<1> QED BY <1>1 DEF OperandsFrom

(* Where an element of the rest of a list is in the list.                    *)
LEMMA NextInList ==
  ASSUME NEW N \in Nat, NEW n \in 1..(N + 1), NEW k \in 1..(N + 1 - (n + 1))
  PROVE  /\ k \in 1..(N + 1 - (n + 1))
         /\ k + 1 \in 1..(N + 1 - n)
         /\ n + (k + 1) - 1 = (n + 1) + k - 1
OBVIOUS

(* The list from the next element on is shorter by one.                      *)
LEMMA ListGetsShorter ==
  ASSUME NEW N \in Nat, NEW n \in 1..(N + 1)
  PROVE  N + 1 - n = (N + 1 - (n + 1)) + 1
OBVIOUS

(* The list of the operands from one of them on.                             *)
LEMMA OperandsAsk ==
  ASSUME WolInv, ~ request_stdin, Starting \/ InOperands, pc # "options",
         NEW n \in 1..(Len(cmd.operands) + 1)
  PROVE  /\ OperandsFrom(n) \in Seq(Request)
         /\ n <= Len(cmd.operands) =>
              OperandsFrom(n) =
                <<RequestFor(cmd.operands[n], host_str.text, port, TextOf(passwd))>>
                  \o OperandsFrom(n + 1)
<1> DEFINE requestFor(m) == RequestFor(m, host_str.text, port, TextOf(passwd))
<1>1. Len(cmd.operands) \in Nat
  BY CommandType DEF WolInv, WolTypeOK
<1>2. ASSUME NEW k \in 1..Len(cmd.operands)
      PROVE  requestFor(cmd.operands[k]) \in Request
  <2>1. cmd.operands[k] \in MacText
    BY <1>2 DEF WolInv, ListInv, Starting, InOperands, AtOperand, At
  <2>2. host_str.text \in HostText /\ TextOf(passwd) \in PassText \cup {Null}
    BY PtrType DEF WolInv, WolTypeOK, GlobalsOK, ListInv
  <2>3. port \in 1..MaxPort
    BY DEF WolInv, PortFits, ValidPort, InOperands, AtOperand
  <2> QED BY <2>1, <2>2, <2>3 DEF RequestFor, Request
<1> HIDE DEF requestFor
<1>3. ASSUME NEW j \in 1..(Len(cmd.operands) + 1)
      PROVE  /\ OperandsFrom(j) \in Seq(Request)
             /\ Len(OperandsFrom(j)) = Len(cmd.operands) + 1 - j
             /\ \A k \in 1..(Len(cmd.operands) + 1 - j) :
                  OperandsFrom(j)[k] = requestFor(cmd.operands[j + k - 1])
  <2>1. OperandsFrom(j) =
          [k \in 1..(Len(cmd.operands) + 1 - j) |-> requestFor(cmd.operands[j + k - 1])]
    BY DEF OperandsFrom, requestFor
  <2>2. \A k \in 1..(Len(cmd.operands) + 1 - j) : j + k - 1 \in 1..Len(cmd.operands)
    BY <1>1, <1>3
  <2> QED BY <1>1, <1>2, <1>3, <2>1, <2>2
<1>4. ASSUME n <= Len(cmd.operands)
      PROVE  OperandsFrom(n) = <<requestFor(cmd.operands[n])>> \o OperandsFrom(n + 1)
  <2>1. n + 1 \in 1..(Len(cmd.operands) + 1)
    BY <1>1, <1>4
  <2>2. /\ OperandsFrom(n) \in Seq(Request) /\ OperandsFrom(n + 1) \in Seq(Request)
        /\ Len(OperandsFrom(n + 1)) = Len(cmd.operands) + 1 - (n + 1)
        /\ Len(OperandsFrom(n)) = Len(OperandsFrom(n + 1)) + 1
    <3>1. OperandsFrom(n) \in Seq(Request) /\ Len(OperandsFrom(n)) = Len(cmd.operands) + 1 - n
      BY <1>3
    <3>2. /\ OperandsFrom(n + 1) \in Seq(Request)
          /\ Len(OperandsFrom(n + 1)) = Len(cmd.operands) + 1 - (n + 1)
      BY <1>3, <2>1
    <3>3. Len(cmd.operands) + 1 - n = (Len(cmd.operands) + 1 - (n + 1)) + 1
      BY <1>1, ListGetsShorter
    <3> QED BY <3>1, <3>2, <3>3, Zenon
  <2>3. OperandsFrom(n)[1] = requestFor(cmd.operands[n])
    <3>1. 1 \in 1..(Len(cmd.operands) + 1 - n) /\ n + 1 - 1 = n
      BY <1>1, <1>4
    <3> QED BY <1>3, <3>1
  <2>4. ASSUME NEW k \in 1..Len(OperandsFrom(n + 1))
        PROVE  OperandsFrom(n)[k + 1] = OperandsFrom(n + 1)[k]
    <3>0. k \in 1..(Len(cmd.operands) + 1 - (n + 1))
      BY <2>2, Zenon
    <3>1. /\ k \in 1..(Len(cmd.operands) + 1 - (n + 1))
          /\ k + 1 \in 1..(Len(cmd.operands) + 1 - n)
          /\ n + (k + 1) - 1 = (n + 1) + k - 1
      BY <1>1, <3>0, NextInList
    <3>2. OperandsFrom(n + 1)[k] = requestFor(cmd.operands[(n + 1) + k - 1])
      BY <1>3, <2>1, <3>1
    <3>3. OperandsFrom(n)[k + 1] = requestFor(cmd.operands[n + (k + 1) - 1])
      BY <1>3, <3>1
    <3> QED BY <3>1, <3>2, <3>3
  <2> QED BY <2>2, <2>3, <2>4, FirstAndRest
<1> QED BY <1>3, <1>4 DEF requestFor

(* The list by where main is: the operands ahead or behind, the request at   *)
(* hand, and the lines of the stream.                                        *)
Ahead  == IF request_stdin THEN <<>> ELSE OperandsFrom(i)
Behind == IF from = "argv" THEN OperandsFrom(i + 1) ELSE <<>>
Rest   == Behind \o LinesLeft
FromEntry == RequestFor(File!Entry.mac, File!Entry.host, PortOrDefault(File!Entry.port),
                        File!Entry.passwd)

Listed ==
  /\ LinesLeft \in Seq(Asked)
  /\ pc \in {"options", "exited"} => Unsettled = <<>>
  /\ pc \in {"parsed", "socket", "argv"} =>
       Ahead \in Seq(Asked) /\ Unsettled = Ahead \o LinesLeft
  /\ pc \in {"fopen", "close"} \/ (pc = "file" /\ phase # "parsed") =>
       Unsettled = LinesLeft
  /\ pc = "file" /\ phase = "parsed" => Unsettled = <<FromEntry>> \o LinesLeft
  /\ pc \in {"assemble", "send"} =>
       AtHandNow \in Request /\ Unsettled = <<AtHandNow>> \o Rest
  /\ pc \in {"sent", "return"} => Unsettled = Rest
  /\ At => Rest \in Seq(Asked)

(* The list is that, wherever main is.                                       *)
LEMMA ListedInv == WolInv => Listed
<1> SUFFICES ASSUME WolInv PROVE Listed
  OBVIOUS
<1> DEFINE N == Len(cmd.operands)
<1>0. N \in Nat /\ i \in Nat /\ i >= 1
  BY CommandType DEF WolInv, WolTypeOK, ListInv
<1>1. LinesLeft \in Seq(Asked)
  <2>1. fp.lines \in Seq(File!Line)
    BY DEF WolInv, WolTypeOK, File!ReaderTypeOK
  <2>2. LinesLeft = <<>> \/ LinesLeft = RequestsOf(fp.lines)
    BY DEF LinesLeft, RequestsOf
  <2> QED BY <2>1, <2>2, LinesAsk, EmptySeq
<1>2. \A s \in Seq(Asked) : s \o <<>> = s /\ <<>> \o s = s
  BY ConcatEmptySeq
<1>3. Seq(Request) \subseteq Seq(Asked)
  BY SeqMonotonic DEF Asked
<1>4. pc \in {"options", "exited"} => Unsettled = <<>>
  BY DEF Unsettled
<1>5. ASSUME pc \in {"parsed", "socket", "argv"}
      PROVE  Ahead \in Seq(Asked) /\ Unsettled = Ahead \o LinesLeft
  <2>1. CASE request_stdin
    BY <1>2, <1>5, <2>1, EmptySeq DEF Ahead, Unsettled, OperandsLeft, EntryLeft
  <2>2. CASE ~ request_stdin
    <3>1. i \in 1..(N + 1)
      BY <1>0, <1>5, <2>2 DEF WolInv, ListInv, Starting, InOperands
    <3>2. OperandsFrom(i) \in Seq(Request)
      BY <1>5, <2>2, <3>1, OperandsAsk DEF Starting, InOperands
    <3> QED BY <1>2, <1>3, <1>5, <2>2, <3>2 DEF Ahead, Unsettled, OperandsLeft, EntryLeft,
            Settled
  <2> QED BY <2>1, <2>2
<1>6. ASSUME pc \in {"fopen", "close"} \/ InFile
      PROVE  OperandsLeft = <<>>
  <2>1. ~ (Settled /\ from = "argv")
    BY <1>6 DEF InFile, AtEntry, At, Settled
  <2> QED BY <1>6, <2>1, NoOperands DEF OperandsLeft, WolInv, ListInv
<1>7. pc \in {"fopen", "close"} \/ (pc = "file" /\ phase # "parsed") =>
        Unsettled = LinesLeft
  BY <1>1, <1>2, <1>6, EmptySeq DEF Unsettled, EntryLeft, InFile
<1>8. ASSUME pc = "file", phase = "parsed"
      PROVE  Unsettled = <<FromEntry>> \o LinesLeft
  <2>1. OperandsLeft = <<>> /\ EntryLeft = <<FromEntry>>
    BY <1>6, <1>8 DEF InFile, EntryLeft, FromEntry
  <2>2. <<>> \o <<FromEntry>> = <<FromEntry>>
    BY ConcatEmptySeq
  <2> QED BY <1>8, <2>1, <2>2 DEF Unsettled
<1>9. ASSUME At, from = "argv"
      PROVE  /\ ~ request_stdin /\ i \in 1..N
             /\ OperandsFrom(i + 1) \in Seq(Request)
             /\ OperandsFrom(i) = <<AtHandNow>> \o OperandsFrom(i + 1)
             /\ AtHandNow \in Request
  <2>1. ~ request_stdin /\ i \in 1..N /\ mac.text = cmd.operands[i] /\ pc # "options"
    BY <1>0, <1>9 DEF WolInv, ListInv, InOperands, AtOperand, At
  <2>2. i + 1 \in 1..(N + 1) /\ i \in 1..(N + 1)
    BY <1>0, <2>1
  <2>3. OperandsFrom(i + 1) \in Seq(Request) /\ OperandsFrom(i) \in Seq(Request)
    BY <1>9, <2>1, <2>2, OperandsAsk DEF InOperands, AtOperand
  <2>4. OperandsFrom(i) = <<AtHandNow>> \o OperandsFrom(i + 1)
    BY <1>9, <2>1, <2>2, OperandsAsk DEF InOperands, AtOperand, AtHandNow
  <2>5. AtHandNow \in Request
    <3>1. mac.text \in MacText
      BY <1>9, <2>1 DEF WolInv, ListInv, At
    <3>2. host_str.text \in HostText /\ TextOf(passwd) \in PassText \cup {Null}
      BY PtrType DEF WolInv, WolTypeOK, GlobalsOK, ListInv
    <3>3. port \in 1..MaxPort
      BY <1>9 DEF WolInv, PortFits, ValidPort
    <3> QED BY <3>1, <3>2, <3>3 DEF AtHandNow, RequestFor, Request
  <2> QED BY <2>1, <2>3, <2>4, <2>5
<1>10. ASSUME At, from = "file" PROVE AtHandNow \in Request
  <2>1. mac # Null
    BY <1>10 DEF WolInv, StreamInv, AtEntry
  <2>2. mac.text \in MacText /\ host_str.text \in HostText
        /\ TextOf(passwd) \in PassText \cup {Null}
    BY <2>1, PtrType DEF WolInv, WolTypeOK, GlobalsOK, ListInv
  <2>3. port \in 1..MaxPort
    BY <1>10 DEF WolInv, PortFits, ValidPort
  <2> QED BY <2>2, <2>3 DEF AtHandNow, RequestFor, Request
<1>11. from \in {"argv", "file"}
  BY DEF WolInv, WolTypeOK
<1>12. ASSUME At PROVE Behind \in Seq(Asked) /\ Rest \in Seq(Asked)
  <2>1. Behind \in Seq(Asked)
    BY <1>3, <1>9, <1>12, EmptySeq DEF Behind
  <2> QED BY <1>1, <2>1, ConcatProperties DEF Rest
<1>13. ASSUME pc \in {"assemble", "send"}
       PROVE  AtHandNow \in Request /\ Unsettled = <<AtHandNow>> \o Rest
  <2>1. At /\ <<AtHandNow>> \in Seq(Asked)
    BY <1>9, <1>10, <1>11, <1>13 DEF At, Asked
  <2>2. CASE from = "argv"
    <3>1. OperandsLeft = <<AtHandNow>> \o Behind /\ EntryLeft = <<>>
      BY <1>9, <1>13, <2>1, <2>2 DEF OperandsLeft, EntryLeft, Behind, Settled
    <3>2. OperandsLeft \in Seq(Asked)
      BY <1>12, <2>1, <3>1, ConcatProperties
    <3>3. Unsettled = (<<AtHandNow>> \o Behind) \o LinesLeft
      BY <1>2, <1>13, <3>1, <3>2 DEF Unsettled
    <3> QED BY <1>1, <1>9, <1>12, <2>1, <2>2, <3>3, ConcatAssociative DEF Rest
  <2>3. CASE from = "file"
    <3>1. OperandsLeft = <<>> /\ EntryLeft = <<AtHandNow>>
      BY <1>6, <1>13, <2>1, <2>3 DEF InFile, AtEntry, EntryLeft, AtHandNow
    <3>2. Unsettled = <<AtHandNow>> \o LinesLeft
      BY <1>2, <1>13, <2>1, <3>1 DEF Unsettled
    <3>3. Rest = LinesLeft
      BY <1>1, <1>2, <2>3 DEF Rest, Behind
    <3> QED BY <1>10, <2>1, <2>3, <3>2, <3>3
  <2> QED BY <1>11, <2>2, <2>3
<1>14. ASSUME pc \in {"sent", "return"} PROVE Unsettled = Rest
  <2>1. OperandsLeft = Behind /\ EntryLeft = <<>>
    BY <1>6, <1>9, <1>11, <1>14 DEF At, AtEntry, InFile, OperandsLeft, EntryLeft, Behind,
       Settled
  <2> QED BY <1>2, <1>12, <1>14, <2>1 DEF Unsettled, Rest, At
<1> QED BY <1>1, <1>4, <1>5, <1>7, <1>8, <1>12, <1>13, <1>14 DEF Listed

(* The stages of WakeUp.                                                     *)
LEMMA StageIs ==
  /\ pc = "options" => Stage = "starting"
  /\ pc = "exited" => Stage = IF status = 0 THEN "success" ELSE "failure"
  /\ pc \notin {"options", "exited"} => Stage = "running"
BY DEF Stage

(* The step before the list is made: the command line is accepted or not.    *)
LEMMA ParsePromised ==
  ASSUME WolInv, Listed, Listed', ParseArgs
  PROVE  [Promise!Next]_(Promise!vars)
<1>1. pc = "options" /\ pc' \in {"options", "parsed", "exited"}
      /\ UNCHANGED <<wire, ret>>
  BY DEF ParseArgs, machineVars, ParseStep, HelpOrVersion, NothingToSet, SetWait, SetUdp,
     SetRaw, SetProxyOrHost, SetPort, SetFile, SetPasswd, AskPasswd, AskedBefore,
     EndOfOptions, Getopt, Continue, Exit
<1>2. Stage = "starting" /\ Unsettled = <<>>
  BY <1>1, StageIs DEF Listed
<1>3. CASE pc' = "options"
  BY <1>1, <1>2, <1>3 DEF Promise!vars, Listed, Stage
<1>4. CASE pc' = "parsed"
  <2>1. Stage' = "running" /\ Unsettled' \in Seq(Asked)
    <3>1. Ahead' \in Seq(Asked) /\ LinesLeft' \in Seq(Asked)
          /\ Unsettled' = Ahead' \o LinesLeft'
      BY <1>4 DEF Listed, Asked
    <3> QED BY <1>4, <3>1, ConcatProperties DEF Stage
  <2>2. Promise!Accept
    BY <1>1, <1>2, <2>1 DEF Promise!Accept, Asked
  <2> QED BY <2>2 DEF Promise!Next
<1>5. CASE pc' = "exited"
  <2>1. Unsettled' = <<>> /\ Stage' \in {"success", "failure"}
    BY <1>5 DEF Listed, Stage
  <2>2. Promise!Decline
    BY <1>1, <1>2, <2>1 DEF Promise!Decline
  <2> QED BY <2>2 DEF Promise!Next
<1> QED BY <1>1, <1>3, <1>4, <1>5

(* A program that ends early has failed, and sends no more.                  *)
LEMMA GivesUp ==
  ASSUME Listed', pc \notin {"options", "exited"}, pc' = "exited", status' # 0,
         UNCHANGED <<wire, ret>>
  PROVE  Promise!GiveUp
<1>1. Stage = "running" /\ Stage' = "failure"
  BY DEF Stage
<1>2. Unsettled' = <<>>
  BY DEF Listed
<1> QED BY <1>1, <1>2 DEF Promise!GiveUp

(* Nothing is done where stage and list stay.                                *)
LEMMA Stutters ==
  ASSUME pc \notin {"options", "exited"}, pc' \notin {"options", "exited"},
         Unsettled' = Unsettled, UNCHANGED <<wire, ret>>
  PROVE  UNCHANGED Promise!vars
<1>1. Stage = "running" /\ Stage' = "running"
  BY DEF Stage
<1> QED BY <1>1 DEF Promise!vars

(* What the list is made of does not change by itself.                       *)
LEMMA ListStays ==
  ASSUME UNCHANGED <<cmd, request_stdin, pathname, fp, phase>>
  PROVE  /\ LinesLeft' = LinesLeft
         /\ UNCHANGED <<host_str, passwd, port>> =>
              /\ i' = i => Ahead' = Ahead
              /\ i' = i + 1 /\ from = "argv" /\ ~ request_stdin => Ahead' = Behind
              /\ i' = i /\ from' = from => Behind' = Behind
              /\ mac' = mac => AtHandNow' = AtHandNow
<1>1. LinesLeft' = LinesLeft
  BY DEF LinesLeft
<1>2. ASSUME UNCHANGED <<host_str, passwd, port>>
      PROVE  /\ i' = i => Ahead' = Ahead
             /\ i' = i + 1 /\ from = "argv" /\ ~ request_stdin => Ahead' = Behind
             /\ i' = i /\ from' = from => Behind' = Behind
             /\ mac' = mac => AtHandNow' = AtHandNow
  BY <1>2 DEF Ahead, Behind, AtHandNow, OperandsFrom
<1> QED BY <1>1, <1>2

(* The steps around the calls: nothing is done, or the program gives up.     *)
LEMMA OtherStepsPromised ==
  ASSUME WolInv, WolInv', Listed, Listed',
         \/ CreateMagic \/ OpenSocket \/ NextOperand \/ OperandsDone \/ OpenFile
         \/ FileDone \/ ReportAndWait \/ ReturnToOperands \/ ReturnToFile
  PROVE  [Promise!Next]_(Promise!vars)
<1> USE DEF cmdVars, stringVars, memoryVars, readerVars, machineVars
<1>1. UNCHANGED <<wire, ret, cmd, request_stdin, pathname, fp, phase>>
  BY DEF CreateMagic, OpenSocket, NextOperand, OperandsDone, OpenFile, FileDone,
     ReportAndWait, ReturnToOperands, ReturnToFile
<1>2. pc \notin {"options", "exited"}
  BY DEF CreateMagic, OpenSocket, NextOperand, OperandsDone, OpenFile, FileDone,
     ReportAndWait, ReturnToOperands, ReturnToFile
<1>3. ASSUME pc' = "exited" PROVE Promise!Next
  <2>1. status' # 0
    BY <1>3 DEF Aborted, CreateMagic, OpenSocket, NextOperand, OperandsDone, OpenFile,
       FileDone, ReportAndWait, ReturnToOperands, ReturnToFile, GoTo, Leave, MayAbort
  <2> QED BY <1>1, <1>2, <1>3, <2>1, GivesUp DEF Promise!Next
<1>4. ASSUME pc' # "exited" PROVE UNCHANGED Promise!vars
  <2>1. pc' \notin {"options", "exited"}
    BY <1>4 DEF CreateMagic, OpenSocket, NextOperand, OperandsDone, OpenFile,
       FileDone, ReportAndWait, ReturnToOperands, ReturnToFile, GoTo, Leave, MayAbort
  <2>2. LinesLeft' = LinesLeft /\ LinesLeft \in Seq(Asked)
    BY <1>1, ListStays DEF Listed
  <2>3. <<>> \o LinesLeft = LinesLeft
    BY <2>2, ConcatEmptySeq
  <2>4. CASE CreateMagic \/ OpenSocket
    <3>1. /\ pc \in {"parsed", "socket"} /\ Ahead' = Ahead
          /\ pc' \in {"socket", "argv"} \/ (pc' = "fopen" /\ request_stdin)
      BY <1>1, <1>4, <2>4, ListStays DEF CreateMagic, OpenSocket, GoTo, Leave
    <3>2. request_stdin => Ahead = <<>>
      BY DEF Ahead
    <3>3. Unsettled = Ahead \o LinesLeft
      BY <3>1 DEF Listed
    <3>4. CASE pc' \in {"socket", "argv"}
      BY <1>1, <1>2, <2>1, <2>2, <3>1, <3>3, <3>4, Stutters DEF Listed
    <3>5. CASE pc' = "fopen" /\ request_stdin
      <4>1. Unsettled' = LinesLeft'
        BY <3>5 DEF Listed
      <4>2. Unsettled' = Unsettled
        BY <2>2, <2>3, <3>2, <3>3, <3>5, <4>1
      <4> QED BY <1>1, <1>2, <2>1, <4>2, Stutters
    <3> QED BY <3>1, <3>4, <3>5
  <2>5. CASE NextOperand
    <3>1. /\ pc = "argv" /\ pc' = "assemble" /\ ~ request_stdin /\ Unsettled = Ahead \o LinesLeft
          /\ Ahead' = Ahead /\ i \in 1..Len(cmd.operands)
      BY <1>1, <2>5, ListStays DEF NextOperand, GoTo, Listed, WolInv, WolTypeOK, ListInv, InOperands
    <3>2. Unsettled' = Ahead \o LinesLeft
      BY <1>1, <2>2, <2>5, <3>1 DEF NextOperand, Unsettled, OperandsLeft, Settled, EntryLeft, Ahead
    <3> QED BY <1>1, <1>2, <2>1, <3>1, <3>2, Stutters
  <2>6. CASE OperandsDone
    <3>1. Ahead = <<>> /\ pc = "argv" /\ pc' \in {"fopen", "close"}
      <4>1. i = Len(cmd.operands) + 1
        BY <2>6, CommandType DEF OperandsDone, WolInv, WolTypeOK, ListInv, InOperands
      <4> QED BY <2>6, <4>1, NoOperands DEF Ahead, OperandsDone, GoTo
    <3>2. Unsettled' = Unsettled
      BY <2>2, <2>3, <3>1 DEF Listed
    <3> QED BY <1>1, <1>2, <2>1, <3>2, Stutters
  <2>7. CASE OpenFile \/ FileDone
    <3>1. /\ pc = "fopen" \/ (pc = "file" /\ phase = "ended")
          /\ pc' = "close" \/ (pc' = "file" /\ phase # "parsed")
      BY <1>4, <2>7 DEF OpenFile, FileDone, GoTo, Leave, WolInv, StreamInv
    <3>2. Unsettled' = Unsettled
      BY <1>1, <2>2, <3>1 DEF Listed
    <3> QED BY <1>1, <1>2, <2>1, <3>2, Stutters
  <2>8. CASE ReportAndWait
    <3>1. /\ pc = "sent" /\ pc' = "return" /\ Behind' = Behind
      BY <1>1, <2>8, ListStays DEF ReportAndWait, GoTo
    <3>2. Unsettled' = Unsettled
      BY <2>2, <3>1 DEF Listed, Rest
    <3> QED BY <1>1, <1>2, <2>1, <3>2, Stutters
  <2>9. CASE ReturnToOperands
    <3>1. /\ pc = "return" /\ pc' = "argv" /\ from = "argv" /\ i' = i + 1 /\ ~ request_stdin
      BY <2>9 DEF ReturnToOperands, GoTo, WolInv, ListInv, InOperands, AtOperand, At
    <3>2. Ahead' = Behind
      BY <1>1, <2>9, <3>1, ListStays DEF ReturnToOperands
    <3>3. Unsettled' = Unsettled
      BY <2>2, <3>1, <3>2 DEF Listed, Rest
    <3> QED BY <1>1, <1>2, <2>1, <3>3, Stutters
  <2>10. CASE ReturnToFile
    <3>1. /\ pc = "return" /\ pc' = "file" /\ from = "file" /\ phase = "idle"
      BY <1>4, <2>10 DEF ReturnToFile, GoTo, MayAbort, Leave, WolInv, StreamInv, AtEntry, At
    <3>2. Unsettled' = LinesLeft /\ Unsettled = LinesLeft
      BY <1>1, <2>2, <2>3, <3>1 DEF Listed, Rest, Behind
    <3> QED BY <1>1, <1>2, <2>1, <3>2, Stutters
  <2> QED BY <2>4, <2>5, <2>6, <2>7, <2>8, <2>9, <2>10
<1> QED BY <1>3, <1>4

(* A step of macfile_parse: a line that names no machine is passed over, an  *)
(* error cuts the list short, and nothing else changes it.                   *)
LEMMA ReadingPromised ==
  ASSUME WolInv, WolInv', Listed, Listed', fp.newline, ParseEntry
  PROVE  [Promise!Next]_(Promise!vars)
<1>1. /\ UNCHANGED <<wire, ret, cmd, request_stdin, pathname>>
      /\ pc = "file" /\ pc' = "file" /\ (File!BeginParse \/ File!ReadStep)
  BY DEF ParseEntry, cmdVars, machineVars
<1>2. Stage = "running" /\ Stage' = "running"
  BY <1>1 DEF Stage
<1>3. fp.lines \in Seq(File!Line) /\ LinesLeft \in Seq(Asked)
  BY DEF WolInv, WolTypeOK, File!ReaderTypeOK, Listed
<1>4. phase \in {"idle", "reading"} /\ Unsettled = LinesLeft
      /\ LinesLeft = RequestsOf(fp.lines) /\ (pathname # Null \/ request_stdin)
  <2>1. phase \in {"idle", "reading"}
    BY <1>1 DEF File!BeginParse, File!ReadStep, File!ReadLine, File!ReadPastEnd,
       File!ReadError, File!LeaveLoop
  <2>2. pathname # Null \/ request_stdin
    BY <1>1 DEF WolInv, ListInv, InFile
  <2> QED BY <1>1, <2>1, <2>2 DEF Listed, LinesLeft, RequestsOf
<1>5. CASE File!BeginParse
  <2>1. phase' = "reading" /\ fp' = fp
    BY <1>5 DEF File!BeginParse
  <2>2. LinesLeft' = LinesLeft /\ Unsettled' = LinesLeft'
    BY <1>1, <1>4, <2>1 DEF LinesLeft, Listed
  <2> QED BY <1>1, <1>2, <1>4, <2>2 DEF Promise!vars
<1>6. CASE File!ReadLine
  <2> DEFINE l == Head(fp.lines)
  <2>1. /\ fp.lines # <<>> /\ l \in File!Line
        /\ fp' = [fp EXCEPT !.lines = Tail(@), !.eof = Tail(fp.lines) = <<>> /\ ~ fp.newline]
        /\ willy' = l
        /\ tokens' = File!Tokens(l)
        /\ phase' = IF File!Tokens(l) = {} THEN "reading" ELSE "parsed"
    BY <1>3, <1>6 DEF File!ReadLine
  <2>2. fp'.lines = Tail(fp.lines)
    BY <2>1 DEF WolInv, WolTypeOK, File!ReaderTypeOK
  <2>3. LinesLeft' = RequestsOf(Tail(fp.lines))
    <3>1. phase' # "ended" /\ (pathname' # Null \/ request_stdin')
      BY <1>1, <1>4, <2>1
    <3> QED BY <2>2, <3>1 DEF LinesLeft, RequestsOf
  <2>4. /\ Unsettled # <<>> /\ Head(Unsettled) = RequestOf(l)
        /\ Tail(Unsettled) = LinesLeft'
    BY <1>3, <1>4, <2>1, <2>3, LinesAsk
  <2>5. l.host # Null => l.mac # Null
    BY <2>1 DEF File!Line
  <2>6. CASE l.host = Null
    <3>1. phase' = "reading" /\ RequestOf(l) = Null
      BY <2>1, <2>6 DEF File!Tokens, RequestOf
    <3>2. Unsettled' = LinesLeft'
      BY <1>1, <3>1 DEF Listed
    <3>3. Promise!PassOver
      BY <1>1, <1>2, <2>4, <3>1, <3>2 DEF Promise!PassOver
    <3> QED BY <3>3 DEF Promise!Next
  <2>7. CASE l.host # Null
    <3>1. phase' = "parsed" /\ tokens' # {}
      BY <2>1, <2>7 DEF File!Tokens
    <3>2. FromEntry' = RequestOf(l)
      <4>1. Reader!EntryIsTheLineRead'
        BY DEF WolInv, StreamInv, Reader!ReaderInv
      <4>2. /\ File!Entry'.mac = l.mac /\ File!Entry'.host = l.host
            /\ File!Entry'.port = (IF l.port = Null THEN 0 ELSE l.port)
            /\ File!Entry'.passwd = l.passwd
        BY <2>1, <3>1, <4>1 DEF Reader!EntryIsTheLineRead, Reader!Entry, File!Entry,
           Reader!EntryOf
      <4> QED BY <2>5, <2>7, <4>2 DEF FromEntry, RequestOf, PortOrDefault, RequestFor
    <3>3. Unsettled' = <<Head(Unsettled)>> \o Tail(Unsettled)
      BY <1>1, <2>4, <3>1, <3>2 DEF Listed
    <3>4. Unsettled' = Unsettled
      BY <1>3, <1>4, <2>4, <3>3
    <3> QED BY <1>1, <1>2, <3>4 DEF Promise!vars
  <2> QED BY <2>6, <2>7
<1>7. CASE File!ReadPastEnd \/ File!ReadError
  <2>1. phase' = "ended" /\ Unsettled' = <<>>
    <3>1. phase' = "ended"
      BY <1>7 DEF File!ReadPastEnd, File!ReadError
    <3> QED BY <1>1, <3>1 DEF Listed, LinesLeft
  <2>2. CASE Unsettled = <<>>
    BY <1>1, <1>2, <2>1, <2>2 DEF Promise!vars
  <2>3. CASE Unsettled # <<>>
    <3>1. Promise!Truncate
      BY <1>1, <1>2, <2>1, <2>3 DEF Promise!Truncate
    <3> QED BY <3>1 DEF Promise!Next
  <2> QED BY <2>2, <2>3
<1>8. ~ File!LeaveLoop
  BY <1>4 DEF File!LeaveLoop, WolInv, StreamInv, Reader!ReaderInv, Reader!CallUnderWay,
     Reader!EndNoticed
<1> QED BY <1>1, <1>5, <1>6, <1>7, <1>8 DEF File!ReadStep

(* An entry is taken: the request stays what it is.                          *)
LEMMA TakingPromised ==
  ASSUME WolInv, WolInv', Listed, Listed', TakeEntry
  PROVE  [Promise!Next]_(Promise!vars)
<1>1. /\ UNCHANGED <<wire, ret, cmd, request_stdin, pathname, fp>>
      /\ pc = "file" /\ pc' = "assemble" /\ phase = "parsed" /\ phase' = "idle"
      /\ from' = "file"
  BY DEF TakeEntry, cmdVars, GoTo
<1>2. /\ File!Entry.mac # Null /\ File!Entry.host # Null
      /\ mac'.text = File!Entry.mac /\ host_str'.text = File!Entry.host
      /\ TextOf(passwd') = File!Entry.passwd /\ port' = PortOrDefault(File!Entry.port)
  <2>1. File!Entry.mac # Null /\ File!Entry.host # Null
    BY NullConstants DEF File!Entry, WolInv, WolTypeOK, File!ReaderTypeOK
  <2>2. File!Entry.passwd # Null => File!Entry.passwd \in PassText
    BY DEF File!Entry, WolInv, WolTypeOK, File!ReaderTypeOK
  <2>3. \A t \in PassText : [text |-> t, mem |-> "heap"] # Null
    BY NullConstants DEF Mem
  <2> QED BY <2>1, <2>2, <2>3 DEF TakeEntry, TextOf
<1>3. AtHandNow' = FromEntry
  BY <1>2 DEF AtHandNow, FromEntry, RequestFor, TextOf
<1>4. LinesLeft' = LinesLeft /\ LinesLeft \in Seq(Asked)
  BY <1>1 DEF LinesLeft, Listed
<1>5. Rest' = LinesLeft
  <2>1. Behind' = <<>>
    BY <1>1 DEF Behind
  <2> QED BY <1>4, <2>1, ConcatEmptySeq DEF Rest
<1>6. Unsettled' = Unsettled
  BY <1>1, <1>3, <1>4, <1>5 DEF Listed
<1> QED BY <1>1, <1>6, Stutters

(* A call settles the request at hand: by a datagram that is exactly what    *)
(* was asked for, or by a failure that is counted.                           *)
LEMMA CallsPromised ==
  ASSUME WolInv, WolInv', Listed, Listed', UdpMode, Assemble \/ SendUdp
  PROVE  [Promise!Next]_(Promise!vars)
<1>1. /\ UNCHANGED <<cmd, request_stdin, pathname, fp, phase, host_str, passwd, port, i, from,
                     mac>>
      /\ pc \in {"assemble", "send"}
  BY DEF Assemble, SendUdp, cmdVars, stringVars, readerVars
<1>2. LinesLeft' = LinesLeft /\ Behind' = Behind /\ AtHandNow' = AtHandNow /\ Rest' = Rest
  BY <1>1, ListStays DEF Rest
<1>3. /\ Stage = "running" /\ AtHandNow \in Request /\ AtHandNow # Null
      /\ Unsettled = <<AtHandNow>> \o Rest /\ Rest \in Seq(Asked)
  BY <1>1, PointerConstants DEF Stage, Listed, At
<1>4. Unsettled # <<>> /\ Head(Unsettled) = AtHandNow /\ Tail(Unsettled) = Rest
  BY <1>3 DEF Asked
<1>5. ASSUME pc' \in {"sent", "return"}
      PROVE  Stage' = "running" /\ Unsettled' = Tail(Unsettled)
  BY <1>2, <1>4, <1>5 DEF Stage, Listed
<1>6. CASE Failed /\ wire' = wire
  <2>1. Promise!Fail
    BY <1>3, <1>4, <1>5, <1>6 DEF Failed, GoTo, Promise!Fail
  <2> QED BY <2>1 DEF Promise!Next
<1>7. CASE Assemble /\ pc' = "send"
  <2>1. UNCHANGED <<wire, ret>>
    BY <1>7 DEF Assemble, Failed, GoTo
  <2>2. Unsettled' = Unsettled /\ Stage' = "running"
    BY <1>2, <1>3, <1>7 DEF Listed, Stage
  <2> QED BY <1>3, <2>1, <2>2 DEF Promise!vars
<1>8. CASE SendUdp /\ ~ Failed
  <2>1. /\ wire' = Append(wire, [packet |-> magic.packet, size |-> magic.size,
                                 host |-> host_str.text, port |-> port])
        /\ pc = "send" /\ pc' = "sent" /\ ret' = ret
    BY <1>8 DEF SendUdp, GoTo
  <2>2. [packet |-> magic.packet, size |-> magic.size,
         host |-> host_str.text, port |-> port] = DatagramOf(AtHandNow)
    BY <2>1 DEF WolInv, PacketInv, DatagramOf, AtHandNow, RequestFor
  <2>3. DatagramOf(AtHandNow) # Null
    <3>1. [packet |-> magic.packet, size |-> magic.size,
           host |-> host_str.text, port |-> port] \in UdpDatagram
      <4>1. magic \in Magic
        BY <2>1 DEF WolInv, PacketInv, WolTypeOK
      <4>2. host_str.text \in HostText /\ port \in 1..MaxPort
        BY <1>3 DEF AtHandNow, RequestFor, Request
      <4> QED BY <4>1, <4>2, Sizes DEF Magic, UdpDatagram
    <3> QED BY <2>2, <3>1, PointerConstants
  <2>4. Promise!Deliver
    BY <1>3, <1>4, <1>5, <2>1, <2>2, <2>3 DEF Promise!Deliver
  <2> QED BY <2>4 DEF Promise!Next
<1>9. \/ Failed /\ wire' = wire
      \/ Assemble /\ pc' = "send"
      \/ SendUdp /\ ~ Failed
  BY DEF Assemble, SendUdp, GoTo, Failed
<1> QED BY <1>6, <1>7, <1>8, <1>9

(* The end of main: nothing is left, and the exit status tells of failures.  *)
LEMMA FinishPromised ==
  ASSUME WolInv, Listed, Listed', Finish
  PROVE  [Promise!Next]_(Promise!vars)
<1>1. /\ pc = "close" /\ pc' = "exited" /\ UNCHANGED <<wire, ret>>
      /\ status' = IF ret # 0 THEN 1 ELSE 0
  BY DEF Finish, Leave
<1>2. Stage = "running" /\ Stage' = IF ret = 0 THEN "success" ELSE "failure"
  BY <1>1 DEF Stage
<1>3. Unsettled = <<>> /\ Unsettled' = <<>>
  BY <1>1 DEF Listed, LinesLeft, WolInv, StreamInv
<1>4. Promise!Finish
  BY <1>1, <1>2, <1>3 DEF Promise!Finish
<1> QED BY <1>4 DEF Promise!Next

(* In UDP mode, with a file whose last line is terminated, the program does  *)
(* what WakeUp promises, step by step.                                       *)
THEOREM PromiseIsKept == WolSpec => UdpKeepsPromise
<1>1. WolInit => Promise!Init
  <2> SUFFICES ASSUME WolInit PROVE Promise!Init
    OBVIOUS
  <2>1. pc = "options" /\ wire = <<>> /\ ret = 0
    BY DEF WolInit, OptInit
  <2> QED BY <2>1 DEF Promise!Init, Stage, Unsettled
<1>2. ASSUME WolInv, WolInv', Listed, Listed', [WolNext]_wolVars
      PROVE  [UdpMode /\ fp.newline => Promise!Next]_(Promise!vars)
  <2> SUFFICES ASSUME UdpMode, fp.newline PROVE [Promise!Next]_(Promise!vars)
    OBVIOUS
  <2>1. CASE ParseArgs
    BY <1>2, <2>1, ParsePromised
  <2>2. CASE \/ CreateMagic \/ OpenSocket \/ NextOperand \/ OperandsDone \/ OpenFile
             \/ FileDone \/ ReportAndWait \/ ReturnToOperands \/ ReturnToFile
    BY <1>2, <2>2, OtherStepsPromised
  <2>3. CASE ParseEntry
    BY <1>2, <2>3, ReadingPromised
  <2>4. CASE TakeEntry
    BY <1>2, <2>4, TakingPromised
  <2>5. CASE Assemble \/ SendUdp
    BY <1>2, <2>5, CallsPromised
  <2>6. CASE Finish
    BY <1>2, <2>6, FinishPromised
  <2>7. ~ (SendRaw \/ AskProxyPasswd \/ ProxyWithPasswd \/ ProxyKills)
    BY DEF SendRaw, AskProxyPasswd, ProxyWithPasswd, ProxyKills, RawMode, ProxyMode
  <2>8. CASE UNCHANGED wolVars
    BY <2>8 DEF wolVars, optionVars, readerVars, machineVars, Promise!vars, Stage, Unsettled,
       OperandsLeft, OperandsFrom, Settled, EntryLeft, LinesLeft, File!Entry
  <2> QED BY <1>2, <2>1, <2>2, <2>3, <2>4, <2>5, <2>6, <2>7, <2>8 DEF WolNext
<1> QED BY <1>1, <1>2, WolInvariant, ListedInv, PTL DEF WolSpec, UdpKeepsPromise
=============================================================================
