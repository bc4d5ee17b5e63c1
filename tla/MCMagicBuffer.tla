--------------------------- MODULE MCMagicBuffer ---------------------------
(* A small instance of MagicBuffer with the packet layout of include/magic.h. *)
EXTENDS MagicBuffer, TLC

CONSTANTS hexA, hexB, name, unknown, passA, passB, badPass

MCMacText  == {hexA, hexB, name, unknown}
MCPassText == {passA, passB, badPass}
MCByte     == {1, 2, 255}

(* `name' starts with one hex field and is then found in the ethers file;    *)
(* `unknown' also converts in part, and is in no database.                   *)
MCMacFields ==
  hexA    :> <<1, 1, 1, 1, 1, 2>> @@
  hexB    :> <<2, 2, 1, 1, 2, 2>> @@
  name    :> <<1>> @@
  unknown :> <<2, 2, 2>>

MCEthers ==
  [t \in MCMacText |-> IF t = name THEN <<2, 1, 2, 1, 2, 1>> ELSE Null]

MCPassFields ==
  passA   :> <<1, 2, 1, 2, 1, 2>> @@
  passB   :> <<255, 255, 1, 1, 1, 1>> @@
  badPass :> <<1, 2, 2, 2>>
=============================================================================
