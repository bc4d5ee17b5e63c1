---------------------------- MODULE MagicPacket ----------------------------
(***************************************************************************)
(* The magic packet buffer of src/magic.c: one heap buffer, allocated once *)
(* by magic_create and refilled by magic_assemble for every machine to be  *)
(* woken.  The buffer is only ever resized in place, so the bytes of one   *)
(* request stay in it until a later request overwrites them.               *)
(*                                                                         *)
(* A text (an address or a password as the user wrote it) is an opaque     *)
(* value; what sscanf and ether_hostton make of it is given by constants.  *)
(* The packet is laid out as the C structs `packet' and `secureon' do it:  *)
(* a header, MAGIC_TIMES copies of the address, and the password.          *)
(***************************************************************************)
EXTENDS Integers, Sequences, Texts

CONSTANTS
  Byte,            \* the octets, 0xff included
  FF,              \* the octet 0xff
  Undef,           \* content of memory nobody has written yet
  MAGIC_HEADER,    \* include/magic.h: octets of the header
  MAC_LEN,         \* octets of a hardware address
  MAGIC_TIMES,     \* copies of the address in a packet
  MAGIC_SECUREON,  \* octets of a SecureON password
  MacFields,       \* [MacText -> Seq(Byte)]: what "%2x:%2x:..." converts
  Ethers,          \* [MacText -> octets or Null]: what ether_hostton finds
  PassFields       \* [PassText -> Seq(Byte)]: what "%2x-%2x-..." converts

MacOctets  == [1..MAC_LEN -> Byte]
PassOctets == [1..MAGIC_SECUREON -> Byte]

ASSUME MagicConstants ==
  /\ FF \in Byte
  /\ Undef \notin Byte
  /\ MAGIC_HEADER \in Nat
  /\ MAC_LEN \in Nat
  /\ MAGIC_TIMES \in Nat
  /\ MAGIC_SECUREON \in Nat \ {0}
  /\ Null \notin MacText \cup PassText
  /\ Null \notin MacOctets

ASSUME ConversionConstants ==
  /\ MacFields \in [MacText -> Seq(Byte)]
  /\ Ethers \in [MacText -> MacOctets \cup {Null}]
  /\ PassFields \in [PassText -> Seq(Byte)]

-----------------------------------------------------------------------------
(* sizeof (struct packet) and sizeof (struct secureon) *)
PacketSize   == MAGIC_HEADER + MAGIC_TIMES * MAC_LEN
SecureonSize == PacketSize + MAGIC_SECUREON

NoBytes == <<>>
RawBytes(n) == [j \in 1..n |-> Undef]

(* All heap buffers the program can hold: struct magic with its packet.  The *)
(* password is part of the buffer only when the size says so.                *)
Cell == Byte \cup {Undef}
Packet ==
  [ header : [1..MAGIC_HEADER -> Cell],
    addr   : [1..MAGIC_TIMES -> [1..MAC_LEN -> Cell]],
    passwd : [1..MAGIC_SECUREON -> Cell] \cup {NoBytes} ]
Magic == [ size : {PacketSize, SecureonSize}, packet : Packet ]

(* magic_create: the size follows with_passwd, the memory is not cleared. *)
Created(with_passwd) ==
  [ size   |-> IF with_passwd THEN SecureonSize ELSE PacketSize,
    packet |-> [ header |-> RawBytes(MAGIC_HEADER),
                 addr   |-> [j \in 1..MAGIC_TIMES |-> RawBytes(MAC_LEN)],
                 passwd |-> IF with_passwd THEN RawBytes(MAGIC_SECUREON)
                                           ELSE NoBytes ] ]

(* The address as magic_assemble reads it: all six fields of the hex form,   *)
(* or else the entry of the ethers database.                                 *)
IsHexMac(mac) == Len(MacFields[mac]) = MAC_LEN
KnownMac(mac) == mac # Null /\ (IsHexMac(mac) \/ Ethers[mac] # Null)
Octets(mac)   == IF IsHexMac(mac) THEN [k \in 1..MAC_LEN |-> MacFields[mac][k]]
                                  ELSE Ethers[mac]

ValidPass(pass)  == pass = Null \/ Len(PassFields[pass]) = MAGIC_SECUREON
Password(pass)   == [k \in 1..MAGIC_SECUREON |-> PassFields[pass][k]]

(* Mutants of Resized: the size grows with every password; the buffer is cut *)
(* short and its size stays.                                                 *)
ResizedAgain(m, pass) ==
  IF pass # Null
    THEN [ size   |-> m.size + MAGIC_SECUREON,
           packet |-> [m.packet EXCEPT !.passwd = RawBytes(MAGIC_SECUREON)] ]
    ELSE m
ResizedWithoutSize(m, pass) ==
  IF pass = Null THEN [m EXCEPT !.packet.passwd = NoBytes]
  ELSE IF m.packet.passwd = NoBytes
    THEN [m EXCEPT !.packet.passwd = RawBytes(MAGIC_SECUREON)]
  ELSE m

(* xrealloc keeps the leading bytes: shrinking drops the password, growing   *)
(* appends memory nobody has written.                                        *)
Resized(m, pass) ==
  IF pass # Null /\ m.size # SecureonSize
    THEN [ size   |-> SecureonSize,
           packet |-> [m.packet EXCEPT !.passwd = RawBytes(MAGIC_SECUREON)] ]
  ELSE IF pass = Null /\ m.size # PacketSize
    THEN [ size   |-> PacketSize,
           packet |-> [m.packet EXCEPT !.passwd = NoBytes] ]
  ELSE m

(* Mutant of Filled: one copy of the address too few. *)
FilledOneShort(m, mac) ==
  [m EXCEPT !.packet.header = [j \in 1..MAGIC_HEADER |-> FF],
            !.packet.addr   = [j \in 1..MAGIC_TIMES |->
                                 IF j < MAGIC_TIMES THEN Octets(mac) ELSE @[j]]]

(* Header and address copies are written before the password is looked at. *)
Filled(m, mac) ==
  [m EXCEPT !.packet.header = [j \in 1..MAGIC_HEADER |-> FF],
            !.packet.addr   = [j \in 1..MAGIC_TIMES |-> Octets(mac)]]

(* magic_assemble: its return value and the buffer it leaves behind. *)
AssembleResult(mac, pass) ==
  IF ~ KnownMac(mac) THEN -1
  ELSE IF ~ ValidPass(pass) THEN -2
  ELSE 0

Assembled(m, mac, pass) ==
  IF ~ KnownMac(mac) THEN m
  ELSE LET filled == Filled(Resized(m, pass), mac)
       IN  IF pass # Null /\ ValidPass(pass)
             THEN [filled EXCEPT !.packet.passwd = Password(pass)]
             ELSE filled

-----------------------------------------------------------------------------
(* The packet the documentation asks for (doc/wol.texi, "Magic Packet"): the *)
(* reference against which the buffer is judged.                             *)
MagicPacketFor(mac, pass) ==
  [ header |-> [j \in 1..MAGIC_HEADER |-> FF],
    addr   |-> [j \in 1..MAGIC_TIMES |-> Octets(mac)],
    passwd |-> IF pass = Null THEN NoBytes ELSE Password(pass) ]

DatagramSize(pass) == IF pass = Null THEN PacketSize ELSE SecureonSize
=============================================================================
