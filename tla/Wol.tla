-------------------------------- MODULE Wol --------------------------------
(***************************************************************************)
(* The whole of src/wol.c: parse_args, then main, which creates one magic  *)
(* buffer and one socket and calls assemble_and_send for every operand and *)
(* for every entry of the macfile, counts what fails, and exits.           *)
(*                                                                         *)
(* Composed of Options (parse_args), Macfile (macfile_parse, which writes  *)
(* the port through a pointer to the global port) and MagicPacket          *)
(* (magic_create, magic_assemble).  Sockets, resolver, terminal and file   *)
(* system answer as they like.  One stream stands for the macfile and for  *)
(* standard input: a run reads at most one of the two.                     *)
(***************************************************************************)
EXTENDS Options, MagicPacket

CONSTANTS
  PortNum, Garbage, Files,   \* see Macfile
  Prefix                     \* see Proxy

VARIABLES
  fp, local, willy, tokens, phase,   \* macfile_parse
  magic,     \* the magic buffer
  sockfd,    \* none, open, closed
  i,         \* the operand main is at
  mac_str,   \* pointer main gets from macfile_parse
  mac,       \* parameter mac_str of assemble_and_send
  from,      \* where main called it from: argv or file
  ret,       \* ret of main
  wire,      \* what has been given to the network, in order
  waits      \* how often the program has slept

File == INSTANCE Macfile WITH mport <- port

readerVars  == <<fp, local, willy, tokens, phase>>
machineVars == <<magic, sockfd, i, mac_str, mac, from, ret, wire, waits>>
wolVars     == <<optionVars, readerVars, machineVars>>

(* The constants of the reader, and that a pointer can be told from what it  *)
(* could point to.                                                           *)
ASSUME StreamConstants == File!MacfileConstants

TextOf(p) == IF p = Null THEN Null ELSE p.text

Request == [ mac : MacText, host : HostText, port : 1..MaxPort,
             pass : PassText \cup {Null} ]

(* What the three ways of sending put on the wire. *)
UdpDatagram == [packet : Packet, size : Nat, host : HostText, port : 1..MaxPort]
RawFrame    == [packet : Packet, size : Nat]
ProxyReply  == [mac : {Prefix[m] : m \in MacText}, pass : PassText]

ASSUME PointerConstants ==
  /\ Null \notin Magic
  /\ Null \notin UdpDatagram
  /\ Null \notin Request

WolTypeOK ==
  /\ GlobalsOK
  /\ pc \in {"options", "parsed", "socket", "argv", "fopen", "file",
             "assemble", "send", "sent", "return", "close", "exited"}
  /\ File!ReaderTypeOK
  /\ magic \in Magic \cup {Null}
  /\ sockfd \in {"none", "open", "closed"}
  /\ i \in Nat
  /\ mac_str \in Ptr(MacText) /\ mac \in Ptr(MacText)
  /\ from \in {"argv", "file"}
  /\ ret \in Nat /\ waits \in Nat
  /\ wire \in Seq(UdpDatagram \cup RawFrame \cup ProxyReply)

WolInit ==
  /\ OptInit
  /\ File!StreamInit
  /\ magic = Null
  /\ sockfd = "none"
  /\ i = 1
  /\ mac_str = Null /\ mac = Null
  /\ from = "argv"
  /\ ret = 0
  /\ wire = <<>>
  /\ waits = 0

-----------------------------------------------------------------------------
GoTo(l) == pc' = l /\ UNCHANGED status
Leave(s) == pc' = "exited" /\ status' = s

cmdVars    == <<cmd, pos, packet_mode, msecs, pathname, password_set,
                request_stdin>>
stringVars == <<host_str, passwd, port, mac_str>>
memoryVars == <<asked, misuse>>

(* parse_args *)
ParseArgs == ParseStep /\ UNCHANGED <<readerVars, machineVars>>

(* magic_create; xmalloc ends the program when there is no memory. *)
CreateMagic ==
  /\ pc = "parsed"
  /\ \/ magic' = Created(passwd # Null) /\ GoTo("socket")
     \/ UNCHANGED magic /\ Leave(1)
  /\ UNCHANGED <<cmdVars, stringVars, memoryVars, readerVars,
                 sockfd, i, mac, from, ret, wire, waits>>

(* udp_open, tcp_open or raw_open, each of which can fail. *)
OpenSocket ==
  /\ pc = "socket"
  /\ \/ sockfd' = "open" /\ GoTo(IF request_stdin THEN "fopen" ELSE "argv")
     \/ UNCHANGED sockfd /\ Leave(1)
  /\ UNCHANGED <<cmdVars, stringVars, memoryVars, readerVars,
                 magic, i, mac, from, ret, wire, waits>>

(* Mutant of NextOperand: the first operand every time. *)
NextOperandIsFirst ==
  /\ pc = "argv" /\ i <= Len(cmd.operands)
  /\ mac' = [text |-> cmd.operands[1], mem |-> "argv"]
  /\ from' = "argv"
  /\ GoTo("assemble")
  /\ UNCHANGED <<cmdVars, stringVars, memoryVars, readerVars,
                 magic, sockfd, i, ret, wire, waits>>

(* The loop over the operands calls assemble_and_send, or ends. *)
NextOperand ==
  /\ pc = "argv" /\ i <= Len(cmd.operands)
  /\ mac' = [text |-> cmd.operands[i], mem |-> "argv"]
  /\ from' = "argv"
  /\ GoTo("assemble")
  /\ UNCHANGED <<cmdVars, stringVars, memoryVars, readerVars,
                 magic, sockfd, i, ret, wire, waits>>

OperandsDone ==
  /\ pc = "argv" /\ i > Len(cmd.operands)
  /\ GoTo(IF pathname # Null THEN "fopen" ELSE "close")
  /\ UNCHANGED <<cmdVars, stringVars, memoryVars, readerVars, machineVars>>

(* Standard input is open already; fopen can fail. *)
OpenFile ==
  /\ pc = "fopen"
  /\ GoTo("file") \/ (~ request_stdin /\ Leave(1))
  /\ UNCHANGED <<cmdVars, stringVars, memoryVars, readerVars, machineVars>>

(* macfile_parse, which clears and sets the global port. *)
ParseEntry ==
  /\ pc = "file"
  /\ File!BeginParse \/ File!ReadStep
  /\ UNCHANGED <<cmdVars, pc, status, host_str, passwd, memoryVars, machineVars>>

(* It returns 0: main has the duplicated strings, and puts the port right.   *)
PortOrDefault(n) == IF n = 0 \/ n > MaxPort THEN DEFAULT_PORT ELSE n

TakeEntry ==
  /\ pc = "file" /\ phase = "parsed"
  /\ phase' = "idle"
  /\ LET heap(t) == IF t = Null THEN Null ELSE [text |-> t, mem |-> "heap"]
     IN  /\ mac_str' = heap(File!Entry.mac)
         /\ mac' = heap(File!Entry.mac)
         /\ host_str' = heap(File!Entry.host)
         /\ passwd' = heap(File!Entry.passwd)
         /\ port' = PortOrDefault(File!Entry.port)
  /\ from' = "file"
  /\ GoTo("assemble")
  /\ UNCHANGED <<cmdVars, memoryVars, fp, local, willy, tokens,
                 magic, sockfd, i, ret, wire, waits>>

(* It returns -1. *)
FileDone ==
  /\ pc = "file" /\ phase = "ended"
  /\ GoTo("close")
  /\ UNCHANGED <<cmdVars, stringVars, memoryVars, readerVars, machineVars>>

-----------------------------------------------------------------------------
(* The tests of packet_mode in main and in assemble_and_send, in their order. *)
UdpMode   == "UDP" \in packet_mode
ProxyMode == ~ UdpMode /\ "PROXY" \in packet_mode
RawMode   == ~ UdpMode /\ ~ ProxyMode

(* assemble_and_send.  A call that returns -1 has the caller count it. *)
Failed    == GoTo("return") /\ ret' = ret + 1
Stale(p)  == p # Null /\ p.mem = "freed"

(* Mutant of Assemble: only -1 is taken for an error. *)
AssembleAnyPassword ==
  /\ pc = "assemble" /\ ~ ProxyMode
  /\ magic' = Assembled(magic, mac.text, TextOf(passwd))
  /\ IF AssembleResult(mac.text, TextOf(passwd)) # -1
       THEN GoTo("send") /\ UNCHANGED ret
       ELSE Failed
  /\ UNCHANGED <<cmdVars, stringVars, memoryVars, readerVars,
                 sockfd, i, mac, from, wire, waits>>

Assemble ==
  /\ pc = "assemble" /\ ~ ProxyMode
  /\ magic' = Assembled(magic, mac.text, TextOf(passwd))
  /\ IF AssembleResult(mac.text, TextOf(passwd)) = 0
       THEN GoTo("send") /\ UNCHANGED ret
       ELSE Failed
  /\ UNCHANGED <<cmdVars, stringVars, memoryVars, readerVars,
                 sockfd, i, mac, from, wire, waits>>

(* udp_send: the name may not resolve, sendto may fail. *)
SendUdp ==
  /\ pc = "send" /\ UdpMode
  /\ \/ /\ wire' = Append(wire, [packet |-> magic.packet, size |-> magic.size,
                                 host |-> host_str.text, port |-> port])
        /\ GoTo("sent")
        /\ UNCHANGED ret
     \/ Failed /\ UNCHANGED wire
  /\ UNCHANGED <<cmdVars, stringVars, memoryVars, readerVars,
                 magic, sockfd, i, mac, from, waits>>

(* raw_send, whose result nobody looks at. *)
SendRaw ==
  /\ pc = "send" /\ RawMode
  /\ \/ wire' = Append(wire, [packet |-> magic.packet, size |-> magic.size])
     \/ UNCHANGED wire
  /\ GoTo("sent")
  /\ UNCHANGED <<cmdVars, stringVars, memoryVars, readerVars,
                 magic, sockfd, i, mac, from, ret, waits>>

(* Freeing a pointer leaves the pointer as it is. *)
Free(p)   == IF p # Null /\ p.mem = "heap" THEN [p EXCEPT !.mem = "freed"] ELSE p
FreeErrors(ps) ==
  (IF \E p \in ps : p # Null /\ p.mem = "argv" THEN {"free argv"} ELSE {})
  \cup (IF \E p \in ps : Stale(p) THEN {"double free"} ELSE {})

(* An allocator that notices an error ends the program; it need not notice.  *)
MayAbort(errors) == errors # {} /\ Leave(Aborted)

(* Proxy mode.  The password is asked for only when there is none, but freed *)
(* in any case.  proxy_send returns -1, or the number of octets that went    *)
(* out, which is never 0: both count as an error.  Sending to a proxy that   *)
(* is gone kills the program (see Proxy).                                    *)
AskProxyPasswd ==
  /\ pc = "assemble" /\ ProxyMode
  /\ passwd = Null
  /\ asked' = asked + 1
  /\ \/ Leave(1) /\ UNCHANGED <<ret, wire>>
     \/ /\ Failed
        /\ \/ UNCHANGED wire
           \/ \E typed \in PassText :
                wire' = Append(wire, [mac |-> Prefix[mac.text], pass |-> typed])
     \/ Leave(Killed) /\ UNCHANGED <<ret, wire>>
  /\ UNCHANGED <<cmdVars, stringVars, misuse, readerVars,
                 magic, sockfd, i, mac, from, waits>>

ProxyKills ==
  /\ pc = "assemble" /\ ProxyMode
  /\ passwd # Null
  /\ Leave(Killed)
  /\ misuse' = misuse \cup (IF Stale(passwd) THEN {"use after free"} ELSE {})
  /\ UNCHANGED <<cmdVars, stringVars, asked, readerVars, machineVars>>

ProxyWithPasswd ==
  /\ pc = "assemble" /\ ProxyMode
  /\ passwd # Null
  /\ LET errors == FreeErrors({passwd})
     IN  /\ misuse' = misuse \cup errors
                       \cup (IF Stale(passwd) THEN {"use after free"} ELSE {})
         /\ Failed \/ (MayAbort(errors) /\ UNCHANGED ret)
  /\ \/ UNCHANGED wire
     \/ \E t \in IF Stale(passwd) THEN PassText ELSE {passwd.text} :
          wire' = Append(wire, [mac |-> Prefix[mac.text], pass |-> t])
  /\ passwd' = Free(passwd)
  /\ UNCHANGED <<cmdVars, host_str, port, mac_str, asked, readerVars,
                 magic, sockfd, i, mac, from, waits>>

(* Mutant of ReportAndWait: no pause. *)
ReportOnly ==
  /\ pc = "sent"
  /\ GoTo("return")
  /\ UNCHANGED <<cmdVars, stringVars, memoryVars, readerVars,
                 magic, sockfd, i, mac, from, ret, wire, waits>>

(* The report on standard output and the pause behind it. *)
ReportAndWait ==
  /\ pc = "sent"
  /\ waits' = IF msecs # 0 THEN waits + 1 ELSE waits
  /\ GoTo("return")
  /\ UNCHANGED <<cmdVars, stringVars, memoryVars, readerVars,
                 magic, sockfd, i, mac, from, ret, wire>>

-----------------------------------------------------------------------------
(* Back in main: on to the next operand, or the entry is freed. *)
ReturnToOperands ==
  /\ pc = "return" /\ from = "argv"
  /\ i' = i + 1
  /\ GoTo("argv")
  /\ UNCHANGED <<cmdVars, stringVars, memoryVars, readerVars,
                 magic, sockfd, mac, from, ret, wire, waits>>

(* Mutant of ReturnToFile: the password of the entry is not freed. *)
ReturnWithPasswd ==
  /\ pc = "return" /\ from = "file"
  /\ GoTo("file")
  /\ mac_str' = Free(mac_str)
  /\ host_str' = Free(host_str)
  /\ UNCHANGED <<cmdVars, passwd, port, memoryVars, readerVars,
                 magic, sockfd, i, mac, from, ret, wire, waits>>

ReturnToFile ==
  /\ pc = "return" /\ from = "file"
  /\ LET errors == FreeErrors({mac_str, host_str, passwd})
     IN  /\ misuse' = misuse \cup errors
         /\ GoTo("file") \/ MayAbort(errors)
  /\ mac_str' = Free(mac_str)
  /\ host_str' = Free(host_str)
  /\ passwd' = Free(passwd)
  /\ UNCHANGED <<cmdVars, port, asked, readerVars,
                 magic, sockfd, i, mac, from, ret, wire, waits>>

(* Mutant of Finish: the failures are not looked at. *)
FinishWithZero ==
  /\ pc = "close"
  /\ sockfd' = "closed"
  /\ magic' = Null
  /\ Leave(0)
  /\ UNCHANGED <<cmdVars, stringVars, memoryVars, readerVars,
                 i, mac, from, ret, wire, waits>>

(* net_close, magic_destroy, exit. *)
Finish ==
  /\ pc = "close"
  /\ sockfd' = "closed"
  /\ magic' = Null
  /\ Leave(IF ret # 0 THEN 1 ELSE 0)
  /\ UNCHANGED <<cmdVars, stringVars, memoryVars, readerVars,
                 i, mac, from, ret, wire, waits>>

WolNext ==
  \/ ParseArgs \/ CreateMagic \/ OpenSocket
  \/ NextOperand \/ OperandsDone \/ OpenFile \/ ParseEntry \/ TakeEntry \/ FileDone
  \/ Assemble \/ SendUdp \/ SendRaw \/ AskProxyPasswd \/ ProxyWithPasswd \/ ProxyKills
  \/ ReportAndWait \/ ReturnToOperands \/ ReturnToFile \/ Finish

WolSpec == WolInit /\ [][WolNext]_wolVars

(* One process that runs on: the calls it makes return, the resolver and the *)
(* terminal included.                                                        *)
WolFairSpec == WolSpec /\ WF_wolVars(WolNext)

-----------------------------------------------------------------------------
(* How this program keeps the promise of WakeUp.  The requests that are not  *)
(* settled are the operands main has not done, the entry it is at, and the   *)
(* lines of the stream that name an address and a host.                      *)
RequestFor(m, h, n, p) == [mac |-> m, host |-> h, port |-> n, pass |-> p]

Settled == pc \in {"sent", "return"}

OperandsFrom(n) ==
  [k \in 1..(Len(cmd.operands) + 1 - n) |->
     RequestFor(cmd.operands[n + k - 1], host_str.text, port, TextOf(passwd))]

OperandsLeft ==
  IF request_stdin THEN <<>>
  ELSE OperandsFrom(IF Settled /\ from = "argv" THEN i + 1 ELSE i)

EntryLeft ==
  IF pc \in {"assemble", "send"} /\ from = "file"
    THEN <<RequestFor(mac.text, host_str.text, port, TextOf(passwd))>>
  ELSE IF pc = "file" /\ phase = "parsed"
    THEN <<RequestFor(File!Entry.mac, File!Entry.host,
                      PortOrDefault(File!Entry.port), File!Entry.passwd)>>
  ELSE <<>>

RequestOf(l) ==
  IF l.mac = Null \/ l.host = Null THEN Null
  ELSE RequestFor(l.mac, l.host,
                  IF l.port = Null THEN DEFAULT_PORT ELSE PortOrDefault(l.port),
                  l.passwd)

LinesLeft ==
  IF phase = "ended" \/ (pathname = Null /\ ~ request_stdin) THEN <<>>
  ELSE [k \in 1..Len(fp.lines) |-> RequestOf(fp.lines[k])]

Unsettled ==
  IF pc \in {"options", "exited"} THEN <<>>
  ELSE OperandsLeft \o EntryLeft \o LinesLeft

Stage ==
  CASE pc = "options" -> "starting"
    [] pc = "exited"  -> IF status = 0 THEN "success" ELSE "failure"
    [] OTHER          -> "running"

DatagramOf(r) ==
  IF AssembleResult(r.mac, r.pass) # 0 THEN Null
  ELSE [ packet |-> MagicPacketFor(r.mac, r.pass), size |-> DatagramSize(r.pass),
         host   |-> r.host, port |-> r.port ]

Promise == INSTANCE WakeUp WITH
  Nothing <- Null, Datagram <- UdpDatagram, None <- Null, stage <- Stage, todo <- Unsettled,
  sent <- wire, failures <- ret

(* In UDP mode wol does what WakeUp promises: every operand and every entry  *)
(* of a file is settled once, in order, by the exact packet to its own host  *)
(* and port or by a counted failure, and the exit status is 0 exactly when   *)
(* nothing failed. The other modes do not (see the runs wol_raw and          *)
(* wol_proxy_status), nor do files without a final newline (see the run      *)
(* macfile_unterminated).                                                    *)
UdpKeepsPromise ==
  Promise!Init /\ [][UdpMode /\ fp.newline => Promise!Next]_(Promise!vars)

(* The one way to misuse memory in UDP mode: --passwd behind --passwd=PASS   *)
(* (see the run options_prompt).                                             *)
GivenBeforePrompt ==
  \E j, k \in 1..Len(cmd.opts) :
    /\ j < k /\ cmd.opts[j].c = "P" /\ cmd.opts[k].c = "P"
    /\ cmd.opts[j].arg # Null /\ cmd.opts[k].arg = Null

(* main and assemble_and_send free what macfile_parse has allocated, once,   *)
(* and nothing else: the string is dead before the next line is read.        *)
MemoryIsManaged ==
  /\ misuse = {}
  /\ pc \in {"file", "close"} => \A p \in {mac_str, host_str, passwd} :
                                   p # Null /\ mac_str # Null => p.mem = "freed"

(* So it is in UDP mode; proxy mode frees a password twice, see the run      *)
(* wol_proxy_free.                                                           *)
UdpMemoryIsManaged == UdpMode /\ ~ GivenBeforePrompt => MemoryIsManaged

(* doc/wol.texi: "Waits NUM milliseconds between Magic Packets": a second    *)
(* packet goes out only after the program has slept once for each packet     *)
(* before it (raw mode also waits for packets that could not be sent); in    *)
(* proxy mode assemble_and_send returns before the pause.                    *)
UdpWaitsBetweenPackets ==
  [][wire' # wire /\ msecs # 0 =>
       /\ UdpMode => waits = Len(wire)
       /\ RawMode => waits >= Len(wire)]_wolVars

(* In every mode a message is for the request at hand, and there is at most  *)
(* one for each: whatever is sent, the call that sent it then returns.       *)
OneMessagePerRequest ==
  [][wire' # wire =>
       LET m == wire'[Len(wire')]
           r == IF from = "argv" THEN cmd.operands[i] ELSE mac_str.text
       IN  /\ wire' = Append(wire, m)
           /\ IF ProxyMode THEN m.mac = Prefix[r]
              ELSE m.packet = MagicPacketFor(r, TextOf(passwd))
           /\ ~ Settled /\ (Settled' \/ status' = Aborted)]_wolVars

(* Exit status 0 is never given when an operand (before the macfile has      *)
(* replaced the password) could not be made into a packet.                   *)
ZeroMeansUsable ==
  pc = "exited" /\ status = 0 =>
    \A k \in 1..Len(cmd.operands) :
      k < i => AssembleResult(cmd.operands[k], TextOf(passwd)) = 0

(* However sending fares, the program comes to its end. *)
WolEnds == <>(pc = "exited")

(* What main's exit status, and assemble_and_send with its message "Cannot   *)
(* send magic packet", are meant to tell: status 0 says that a packet went   *)
(* out for every request that was worked on (raw mode: it does not).         *)
SuccessMeansSent ==
  pc = "exited" /\ status = 0 /\ i > 1 => Len(wire) = Len(cmd.operands)

(* ... and a packet that went out is not reported as a failure (proxy mode). *)
SentMeansSuccess ==
  pc = "return" => ret + Len(wire) <= i

(* wol.c: "free possible new password": only a password that assemble_and_   *)
(* send has asked for itself is freed (proxy mode frees the caller's).       *)
OnlyNewPasswordIsFreed == passwd # Null => passwd.mem # "freed"
=============================================================================
