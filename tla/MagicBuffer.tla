---------------------------- MODULE MagicBuffer ----------------------------
(***************************************************************************)
(* The life of one `struct magic': created once, refilled by any sequence  *)
(* of magic_assemble calls, some of which fail half way, and destroyed.    *)
(***************************************************************************)
EXTENDS MagicPacket

VARIABLES
  magic,   \* the buffer, or Null before magic_create and after magic_destroy
  last     \* the last magic_assemble call on it: arguments and return value

vars == <<magic, last>>

NoCall == [mac |-> Null, pass |-> Null, ret |-> -1]

TypeOK ==
  /\ magic \in Magic \cup {Null}
  /\ last \in [ mac  : MacText \cup {Null},
                pass : PassText \cup {Null},
                ret  : {0, -1, -2} ]

Init ==
  /\ magic = Null
  /\ last = NoCall

Create(with_passwd) ==
  /\ magic = Null
  /\ magic' = Created(with_passwd)
  /\ last' = NoCall

Assemble(mac, pass) ==
  /\ magic # Null
  /\ magic' = Assembled(magic, mac, pass)
  /\ last' = [mac |-> mac, pass |-> pass, ret |-> AssembleResult(mac, pass)]

Destroy ==
  /\ magic # Null
  /\ magic' = Null
  /\ last' = NoCall

Next ==
  \/ \E with_passwd \in BOOLEAN : Create(with_passwd)
  \/ \E mac \in MacText \cup {Null}, pass \in PassText \cup {Null} :
       Assemble(mac, pass)
  \/ Destroy

Spec == Init /\ [][Next]_vars

-----------------------------------------------------------------------------
(* magic_assemble returns 0 only when the reused buffer holds exactly the    *)
(* packet of this request, and has its length: no octet of an earlier        *)
(* request, none of uninitialised memory, no password nobody asked for.      *)
CompletePacket ==
  (magic # Null /\ last.ret = 0) =>
    /\ magic.packet = MagicPacketFor(last.mac, last.pass)
    /\ magic.size = DatagramSize(last.pass)

(* The recorded size never claims more memory than the buffer has, whatever  *)
(* sequence of successful and failed calls came before: size and allocation  *)
(* are changed together, also on the path that gives up on the password.     *)
SizeIsAllocation ==
  magic # Null =>
    (magic.size = SecureonSize <=> magic.packet.passwd # NoBytes)
=============================================================================
