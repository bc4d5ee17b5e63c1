------------------------------- MODULE MCWol -------------------------------
(* The whole program on a handful of command lines and all streams of up to  *)
(* two lines, with a packet layout scaled down to two octets per field.      *)
EXTENDS Wol, TLC

CONSTANTS macA, macB, macBad, hostA, hostB, broadcast, passA, passB, passBad,
          dash, fileA

MCMacText   == {macA, macB, macBad, Garbage}
MCHostText  == {hostA, hostB, broadcast, Garbage}
MCPassText  == {passA, passB, passBad, Garbage}
MCPathText  == {dash, fileA}
MCDashPaths == {dash}
MCNumeral   == {0, 7, 5}
MCPortNum   == {0, 7, 70000}
MCByte      == {1, 2, 255}

(* macB is a name of the ethers database, macBad is in neither form. *)
MCMacFields  == macA :> <<1, 2>> @@ macB :> <<>> @@ macBad :> <<1>> @@ Garbage :> <<>>
MCPrefix     == [t \in MCMacText |-> IF t = macB THEN macA ELSE t]
MCEthers     == [t \in MCMacText |-> IF t = macB THEN <<2, 2>> ELSE Null]
MCPassFields == passA :> <<1, 1>> @@ passB :> <<255, 2>> @@ passBad :> <<1>>
                @@ Garbage :> <<>>

LOCAL L(m, h, n, p) == [mac |-> m, host |-> h, port |-> n, passwd |-> p]

MCLines ==
  { L(macBad, Null, Null, Null),
    L(macA, hostA, Null, Null),
    L(macB, hostB, 7, passB),
    L(macA, hostB, 70000, passBad),
    L(macBad, hostA, Null, passA) }

TwoLineFiles == [lines : UNION {[1..n -> MCLines] : n \in 0..2}, newline : {TRUE}]
EmptyFile    == [lines : {<<>>}, newline : {TRUE}]

LOCAL O(ch, a) == [c |-> ch, arg |-> a]
LOCAL Cmd(os, ms) == [opts |-> os, operands |-> ms]

UdpLines ==
  { Cmd(<<>>, <<macA, macBad, macB>>),
    Cmd(<<O("w", 5), O("h", hostA), O("p", 7)>>, <<macB, macA>>),
    Cmd(<<O("P", passA), O("f", fileA)>>, <<macA>>),
    Cmd(<<O("P", Null), O("w", 5)>>, <<macB, dash>>),
    Cmd(<<O("r", Null), O("f", fileA), O("u", Null)>>, <<>>),
    Cmd(<<O("f", dash), O("P", passBad)>>, <<>>),
    Cmd(<<O("V", Null)>>, <<>>),
    Cmd(<<O("p", 0)>>, <<macA>>),
    Cmd(<<O("v", Null)>>, <<>>) }

RawLines   == { Cmd(<<O("r", Null), O("P", passA)>>, <<macA, macBad, macB>>),
                Cmd(<<O("r", Null), O("P", passBad)>>, <<macA>>),
                Cmd(<<O("r", Null), O("w", 5)>>, <<macB, macA>>) }
ProxyLines == { Cmd(<<O("s", hostA)>>, <<macA, macB>>),
                Cmd(<<O("s", hostA), O("P", Null)>>, <<macA, macB>>),
                Cmd(<<O("s", hostA), O("P", passA)>>, <<macA, macB>>) }

(* ... and with entries that have a password of their own. *)
ProxyFileLine == Cmd(<<O("s", hostA), O("f", fileA)>>, <<>>)
OtherModes    == RawLines \cup ProxyLines \cup {ProxyFileLine}
AllModes      == UdpLines \cup OtherModes
=============================================================================
