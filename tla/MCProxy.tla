------------------------------ MODULE MCProxy ------------------------------
(* Three calls with challenges of two octets, the first two machines with    *)
(* addresses that begin with the same characters.                            *)
EXTENDS Proxy, TLC

CONSTANTS macA, macB, macC, passA, passB, beginAB, beginC

MCMacText  == {macA, macB, macC}
MCPassText == {passA, passB}
MCPrefix   == macA :> beginAB @@ macB :> beginAB @@ macC :> beginC
MCRequests == << [mac |-> macA, pass |-> passA], [mac |-> macB, pass |-> passA],
                 [mac |-> macC, pass |-> passB] >>
=============================================================================
