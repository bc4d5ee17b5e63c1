------------------------- MODULE MagicPacketProofs -------------------------
(* What the operators of MagicPacket return, for every packet layout and     *)
(* every conversion of texts: the lemmas of BuffersProofs and WolProofs.     *)
EXTENDS MagicPacket, TLAPS

(* The octets an address stands for are MAC_LEN octets. *)
LEMMA OctetsType ==
  ASSUME NEW mac \in MacText, KnownMac(mac)
  PROVE  Octets(mac) \in [1..MAC_LEN -> Byte]
<1>1. CASE IsHexMac(mac)
  <2>1. MacFields[mac] \in Seq(Byte) /\ Len(MacFields[mac]) = MAC_LEN
    BY <1>1, ConversionConstants DEF IsHexMac
  <2>2. \A k \in 1..MAC_LEN : MacFields[mac][k] \in Byte
    BY <2>1, MagicConstants
  <2> QED BY <1>1, <2>2 DEF Octets
<1>2. CASE ~ IsHexMac(mac)
  BY <1>2, ConversionConstants DEF Octets, KnownMac, MacOctets
<1> QED BY <1>1, <1>2

(* A valid password is MAGIC_SECUREON octets. *)
LEMMA PasswordType ==
  ASSUME NEW pass \in PassText, ValidPass(pass)
  PROVE  Password(pass) \in [1..MAGIC_SECUREON -> Byte]
<1>1. PassFields[pass] \in Seq(Byte) /\ Len(PassFields[pass]) = MAGIC_SECUREON
  BY ConversionConstants, MagicConstants DEF ValidPass
<1>2. \A k \in 1..MAGIC_SECUREON : PassFields[pass][k] \in Byte
  BY <1>1, MagicConstants
<1> QED BY <1>2 DEF Password

(* The two sizes differ, and no password has no octets. *)
LEMMA Sizes ==
  /\ PacketSize \in Nat /\ SecureonSize \in Nat
  /\ PacketSize # SecureonSize
  /\ NoBytes \notin [1..MAGIC_SECUREON -> Cell]
<1> DEFINE a == MAGIC_TIMES * MAC_LEN
<1>1. a \in Nat
  BY MagicConstants
<1> HIDE DEF a
<1>2. PacketSize = MAGIC_HEADER + a
  BY DEF PacketSize, a
<1>3. PacketSize \in Nat /\ SecureonSize \in Nat /\ PacketSize # SecureonSize
  BY <1>1, <1>2, MagicConstants DEF SecureonSize
<1>4. ASSUME NoBytes \in [1..MAGIC_SECUREON -> Cell] PROVE FALSE
  <2>1. DOMAIN NoBytes = 1..MAGIC_SECUREON
    BY <1>4
  <2>2. DOMAIN NoBytes = 1..0
    BY DEF NoBytes
  <2>3. 1 \in 1..MAGIC_SECUREON
    BY MagicConstants
  <2> QED BY <2>1, <2>2, <2>3
<1> QED BY <1>3, <1>4

(* The recorded size and the memory of a buffer agree. *)
Consistent(m) == m.size = SecureonSize <=> m.packet.passwd # NoBytes

(* Memory nobody has written consists of cells. *)
LEMMA RawBytesType ==
  ASSUME NEW n \in Nat
  PROVE  RawBytes(n) \in [1..n -> Cell]
BY DEF RawBytes, Cell

(* magic_create gives a well-formed buffer. *)
LEMMA CreatedType ==
  ASSUME NEW with_passwd \in BOOLEAN
  PROVE  Created(with_passwd) \in Magic /\ Consistent(Created(with_passwd))
<1> DEFINE addr   == [j \in 1..MAGIC_TIMES |-> RawBytes(MAC_LEN)]
           passwd == IF with_passwd THEN RawBytes(MAGIC_SECUREON) ELSE NoBytes
           size   == IF with_passwd THEN SecureonSize ELSE PacketSize
           packet == [header |-> RawBytes(MAGIC_HEADER), addr |-> addr,
                      passwd |-> passwd]
<1>1. RawBytes(MAGIC_HEADER) \in [1..MAGIC_HEADER -> Cell]
  BY RawBytesType, MagicConstants
<1>2. addr \in [1..MAGIC_TIMES -> [1..MAC_LEN -> Cell]]
  BY RawBytesType, MagicConstants
<1>3. passwd \in [1..MAGIC_SECUREON -> Cell] \cup {NoBytes}
  BY RawBytesType, MagicConstants
<1>4. passwd # NoBytes <=> with_passwd
  BY RawBytesType, MagicConstants, Sizes
<1>5. size \in {PacketSize, SecureonSize} /\ (size = SecureonSize <=> with_passwd)
  BY Sizes
<1>6. Created(with_passwd) = [size |-> size, packet |-> packet]
  BY DEF Created
<1> HIDE DEF addr, passwd, size
<1>7. packet \in Packet
  BY <1>1, <1>2, <1>3 DEF Packet
<1> QED BY <1>4, <1>5, <1>6, <1>7 DEF Magic, Consistent

(* Resizing gives the buffer the size the request needs, and keeps header    *)
(* and addresses.                                                            *)
LEMMA ResizedType ==
  ASSUME NEW m \in Magic, Consistent(m), NEW pass \in PassText \cup {Null}
  PROVE  /\ Resized(m, pass) \in Magic
         /\ Consistent(Resized(m, pass))
         /\ Resized(m, pass).size = DatagramSize(pass)
<1>1. CASE pass # Null /\ m.size # SecureonSize
  <2>1. Resized(m, pass) =
          [size |-> SecureonSize,
           packet |-> [m.packet EXCEPT !.passwd = RawBytes(MAGIC_SECUREON)]]
    BY <1>1 DEF Resized
  <2>2. RawBytes(MAGIC_SECUREON) \in [1..MAGIC_SECUREON -> Cell]
    BY RawBytesType, MagicConstants
  <2>3. RawBytes(MAGIC_SECUREON) # NoBytes
    BY <2>2, Sizes
  <2> QED BY <1>1, <2>1, <2>2, <2>3 DEF Magic, Packet, Consistent, DatagramSize
<1>2. CASE pass = Null /\ m.size # PacketSize
  <2>1. Resized(m, pass) =
          [size |-> PacketSize, packet |-> [m.packet EXCEPT !.passwd = NoBytes]]
    BY <1>2 DEF Resized
  <2> QED BY <1>2, <2>1, Sizes DEF Magic, Packet, Consistent, DatagramSize
<1>3. CASE ~ (pass # Null /\ m.size # SecureonSize) /\ ~ (pass = Null /\ m.size # PacketSize)
  <2>1. Resized(m, pass) = m
    BY <1>3 DEF Resized
  <2> QED BY <1>3, <2>1 DEF DatagramSize
<1> QED BY <1>1, <1>2, <1>3

(* Filling writes header and addresses, and touches neither the size nor the *)
(* password.                                                                 *)
LEMMA FilledType ==
  ASSUME NEW m \in Magic, NEW mac \in MacText, KnownMac(mac)
  PROVE  /\ Filled(m, mac) \in Magic
         /\ Filled(m, mac).size = m.size
         /\ Filled(m, mac).packet =
              [ header |-> [j \in 1..MAGIC_HEADER |-> FF],
                addr   |-> [j \in 1..MAGIC_TIMES |-> Octets(mac)],
                passwd |-> m.packet.passwd ]
<1> DEFINE header == [j \in 1..MAGIC_HEADER |-> FF]
           addr   == [j \in 1..MAGIC_TIMES |-> Octets(mac)]
<1>1. header \in [1..MAGIC_HEADER -> Cell]
  BY MagicConstants DEF Cell
<1>2. addr \in [1..MAGIC_TIMES -> [1..MAC_LEN -> Cell]]
  BY OctetsType DEF Cell
<1> HIDE DEF header, addr
<1>3. Filled(m, mac) = [m EXCEPT !.packet.header = header, !.packet.addr = addr]
  BY DEF Filled, header, addr
<1>4. Filled(m, mac) = [size |-> m.size,
        packet |-> [header |-> header, addr |-> addr, passwd |-> m.packet.passwd]]
  BY <1>3 DEF Magic, Packet
<1> QED BY <1>1, <1>2, <1>4 DEF Magic, Packet, header, addr

(* magic_assemble keeps the buffer well formed, and when it returns 0 the    *)
(* buffer holds the packet that was asked for.                               *)
LEMMA AssembledType ==
  ASSUME NEW m \in Magic, Consistent(m),
         NEW mac \in MacText \cup {Null}, NEW pass \in PassText \cup {Null}
  PROVE  /\ Assembled(m, mac, pass) \in Magic
         /\ Consistent(Assembled(m, mac, pass))
         /\ AssembleResult(mac, pass) = 0 =>
              /\ Assembled(m, mac, pass).packet = MagicPacketFor(mac, pass)
              /\ Assembled(m, mac, pass).size = DatagramSize(pass)
<1>1. CASE ~ KnownMac(mac)
  BY <1>1 DEF Assembled, AssembleResult
<1>2. CASE KnownMac(mac)
  <2> DEFINE r == Resized(m, pass)
             f == Filled(r, mac)
  <2>1. mac \in MacText
    BY <1>2 DEF KnownMac
  <2>2. r \in Magic /\ Consistent(r) /\ r.size = DatagramSize(pass)
    BY ResizedType
  <2>3. /\ f \in Magic
        /\ f.size = r.size
        /\ f.packet = [ header |-> [j \in 1..MAGIC_HEADER |-> FF],
                        addr   |-> [j \in 1..MAGIC_TIMES |-> Octets(mac)],
                        passwd |-> r.packet.passwd ]
    BY <1>2, <2>1, <2>2, FilledType
  <2>4. f.packet.passwd = r.packet.passwd
    BY <2>3
  <2>5. Consistent(f)
    BY <2>2, <2>3, <2>4 DEF Consistent
  <2>6. CASE pass # Null /\ ValidPass(pass)
    <3>1. Assembled(m, mac, pass) = [f EXCEPT !.packet.passwd = Password(pass)]
      BY <1>2, <2>6 DEF Assembled
    <3> HIDE DEF r, f
    <3>2. Assembled(m, mac, pass) =
            [ size |-> f.size,
              packet |-> [ header |-> f.packet.header, addr |-> f.packet.addr,
                           passwd |-> Password(pass) ] ]
      BY <2>3, <3>1 DEF Magic, Packet
    <3>3. Password(pass) \in [1..MAGIC_SECUREON -> Cell]
      BY <2>6, PasswordType DEF Cell
    <3>4. Password(pass) # NoBytes
      BY <3>3, Sizes
    <3>5. f.size = SecureonSize
      BY <2>2, <2>3, <2>6 DEF DatagramSize
    <3>6. Assembled(m, mac, pass).packet = MagicPacketFor(mac, pass)
      BY <2>3, <2>6, <3>2 DEF MagicPacketFor
    <3> QED BY <2>2, <2>3, <3>2, <3>3, <3>4, <3>5, <3>6
            DEF Magic, Packet, Consistent
  <2>7. CASE ~ (pass # Null /\ ValidPass(pass))
    <3>1. Assembled(m, mac, pass) = f
      BY <1>2, <2>7 DEF Assembled
    <3> HIDE DEF r, f
    <3>2. CASE pass = Null
      <4>1. r.packet.passwd = NoBytes
        BY <2>2, <3>2, Sizes DEF Consistent, DatagramSize
      <4> QED BY <2>2, <2>3, <2>5, <3>1, <3>2, <4>1 DEF MagicPacketFor
    <3>3. CASE pass # Null
      <4>1. AssembleResult(mac, pass) = -2
        BY <1>2, <2>7, <3>3 DEF AssembleResult
      <4> QED BY <2>3, <2>5, <3>1, <4>1
    <3> QED BY <3>2, <3>3
  <2> QED BY <2>6, <2>7
<1> QED BY <1>1, <1>2
=============================================================================
