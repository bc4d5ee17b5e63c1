----------------------------- MODULE MCBuffers -----------------------------
(* The three buffers of the program that are filled piece by piece and used  *)
(* again, side by side: a `struct magic', a line that getstr grows, and the  *)
(* context of md5.c. A behaviour works on one of them.                       *)
EXTENDS MCMagicBuffer, LineInput, Md5

VARIABLE job

bufferVars == <<vars, lineVars, md5Vars, job>>

BuffersInit ==
  /\ Init /\ LineInit /\ Md5Init
  /\ job \in {"magic", "line", "md5"}
  /\ job # "md5" => phase = "bytes"
  /\ job # "line" => echo

BuffersNext ==
  \/ job = "magic" /\ Next     /\ UNCHANGED <<lineVars, md5Vars, job>>
  \/ job = "line"  /\ LineNext /\ UNCHANGED <<vars, md5Vars, job>>
  \/ job = "md5"   /\ Md5Next  /\ UNCHANGED <<vars, lineVars, job>>

BuffersSpec == BuffersInit /\ [][BuffersNext]_bufferVars

(* The types of the packet buffer of magic.c and of getstr's variables.      *)
BuffersTypeOK == TypeOK /\ LineTypeOK
=============================================================================
