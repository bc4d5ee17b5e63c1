------------------------------- MODULE Texts -------------------------------
(***************************************************************************)
(* The strings a user gives wol, on its command line or in a file, by what *)
(* they are taken for.  What sscanf and the resolver make of one of them   *)
(* is said where it matters.                                               *)
(***************************************************************************)
CONSTANTS
  MacText,    \* texts that can be given as an address
  HostText,   \* ... as a host
  PassText,   \* ... as a password
  Null        \* the null pointer, a missing field or argument
=============================================================================
