------------------------------- MODULE WakeUp -------------------------------
(***************************************************************************)
(* What wol promises its user: it works through a list of machines in      *)
(* order, sends for each at most the one datagram it asks for, and its     *)
(* exit status is 0 exactly when a datagram went out for every machine of  *)
(* the list.  How the list comes about, how a datagram is built and what   *)
(* can fail is left to the specification that implements this one.         *)
(***************************************************************************)
EXTENDS Integers, Sequences

CONSTANTS
  Request,        \* what can be asked for one machine
  Nothing,        \* an entry of the list that asks for nothing
  Datagram,       \* what can be sent
  None,           \* no datagram
  DatagramOf(_)   \* the datagram that a request asks for, None for nonsense

VARIABLES
  stage,     \* starting, running, or the exit status: success, failure
  todo,      \* what is left of the list
  sent,      \* the datagrams that went out
  failures   \* how many requests were settled without one

vars == <<stage, todo, sent, failures>>

TypeOK ==
  /\ stage \in {"starting", "running", "success", "failure"}
  /\ todo \in Seq(Request \cup {Nothing})
  /\ sent \in Seq(Datagram)
  /\ failures \in Nat

Init ==
  /\ stage = "starting"
  /\ todo = <<>> /\ sent = <<>> /\ failures = 0

(* Nothing is to be sent: help was asked for, or the request makes no sense. *)
Decline ==
  /\ stage = "starting"
  /\ stage' \in {"success", "failure"}
  /\ UNCHANGED <<todo, sent, failures>>

Accept ==
  /\ stage = "starting"
  /\ stage' = "running"
  /\ todo' \in Seq(Request \cup {Nothing})
  /\ UNCHANGED <<sent, failures>>

Deliver ==
  /\ stage = "running" /\ todo # <<>> /\ Head(todo) # Nothing
  /\ todo' = Tail(todo)
  /\ UNCHANGED <<stage, failures>>
  /\ DatagramOf(Head(todo)) # None
  /\ sent' = Append(sent, DatagramOf(Head(todo)))

Fail ==
  /\ stage = "running" /\ todo # <<>> /\ Head(todo) # Nothing
  /\ todo' = Tail(todo)
  /\ failures' = failures + 1
  /\ UNCHANGED <<stage, sent>>

PassOver ==
  /\ stage = "running" /\ todo # <<>> /\ Head(todo) = Nothing
  /\ todo' = Tail(todo)
  /\ UNCHANGED <<stage, sent, failures>>

(* The list is cut short: it cannot be read any further. *)
Truncate ==
  /\ stage = "running" /\ todo # <<>>
  /\ todo' = <<>>
  /\ UNCHANGED <<stage, sent, failures>>

GiveUp ==
  /\ stage = "running"
  /\ stage' = "failure"
  /\ todo' = <<>>
  /\ UNCHANGED <<sent, failures>>

Finish ==
  /\ stage = "running" /\ todo = <<>>
  /\ stage' = IF failures = 0 THEN "success" ELSE "failure"
  /\ UNCHANGED <<todo, sent, failures>>

Next ==
  \/ Decline \/ Accept \/ Deliver \/ Fail \/ PassOver \/ Truncate \/ GiveUp \/ Finish

Spec == Init /\ [][Next]_vars
=============================================================================
