------------------------------- MODULE Proxy -------------------------------
(***************************************************************************)
(* The proxy client of src/proxy.c: for every machine one call of          *)
(* proxy_send on the one TCP connection of the program, each of which      *)
(* receives a challenge and sends a reply.  The proxy itself (wolp) is     *)
(* another program; here it sends challenges when it likes and may go away *)
(* at any time.                                                            *)
(*                                                                         *)
(* An octet from the proxy is its position in the stream, so that the      *)
(* k-th octet of the n-th challenge is HEX_CHALLENGE * (n - 1) + k; the    *)
(* last octet of a challenge is a newline, all others are hex digits.      *)
(***************************************************************************)
EXTENDS Integers, Sequences

CONSTANTS
  CHALLENGE_LENGTH,  \* octets of a challenge once decoded
  MacText,           \* texts given as hardware address
  PassText,          \* texts given as password
  Requests,          \* the calls: [mac, pass], as assemble_and_send makes them
  Prefix             \* the first MAC_LEN characters of an address as written

ASSUME ProxyConstants ==
  /\ CHALLENGE_LENGTH \in Nat \ {0}
  /\ Requests \in Seq([mac : MacText, pass : PassText])

VARIABLES
  i,           \* the call main is at
  pc,          \* receive, reply, done, killed
  rsbuf,       \* the array of proxy_send
  lens,        \* what tcp_recv has returned, call by call
  replies,     \* what the proxy has been sent
  challenges,  \* how many challenges the proxy has sent
  taken,       \* how many octets of them tcp_recv has taken
  conn         \* open, closed by the proxy, reset, broken

clientVars == <<i, pc, rsbuf, lens, replies>>
proxyVars  == <<i, pc, rsbuf, lens, replies, challenges, taken, conn>>

Calls         == Len(Requests)
HEX_CHALLENGE == 2 * CHALLENGE_LENGTH + 1
Junk          == 0     \* an octet nobody received
AllJunk       == [k \in 1..HEX_CHALLENGE |-> Junk]

(* What is sent: one octet from the digits that each conversion has read,    *)
(* and what the digest covers besides.                                       *)
Digits == [1..1 -> Nat] \cup [1..2 -> Nat]
Reply  == [ challenge : [1..CHALLENGE_LENGTH -> Digits],
            mac : {Prefix[m] : m \in MacText}, pass : PassText ]

ProxyTypeOK ==
  /\ i \in 1..Calls + 1
  /\ pc \in {"receive", "reply", "done", "killed"}
  /\ rsbuf \in [1..HEX_CHALLENGE -> 0..HEX_CHALLENGE * challenges]
  /\ lens \in Seq(-1..HEX_CHALLENGE)
  /\ replies \in Seq(Reply)
  /\ challenges \in 0..Calls
  /\ taken \in 0..HEX_CHALLENGE * challenges
  /\ conn \in {"open", "closed", "reset", "broken"}

ProxyInit ==
  /\ i = 1
  /\ pc = IF Calls = 0 THEN "done" ELSE "receive"
  /\ rsbuf = AllJunk
  /\ lens = <<>> /\ replies = <<>>
  /\ challenges = 0 /\ taken = 0
  /\ conn = "open"

-----------------------------------------------------------------------------
(* The proxy has one challenge for each call, and may send it ahead of time. *)
Challenge ==
  /\ conn = "open" /\ challenges < Calls
  /\ challenges' = challenges + 1
  /\ UNCHANGED <<clientVars, taken, conn>>

(* A challenge whose turn it is. *)
ChallengeInTurn == challenges = Len(replies) /\ Challenge

(* The proxy closes the connection, or the connection breaks. *)
GoAway ==
  /\ conn = "open"
  /\ conn' \in {"closed", "reset"}
  /\ UNCHANGED <<clientVars, challenges, taken>>

-----------------------------------------------------------------------------
Waiting == HEX_CHALLENGE * challenges - taken

(* Mutant of Return: one call too many. *)
ReturnLate ==
  /\ i' = i + 1
  /\ pc' = IF i > Calls THEN "done" ELSE "receive"

(* The call returns, and main makes the next one. *)
Return ==
  /\ i' = i + 1
  /\ pc' = IF i = Calls THEN "done" ELSE "receive"

(* Mutant of Answerable: the bound is one too large. *)
AnswerableLonger(n) == n \notin 0..HEX_CHALLENGE

(* The test for a short challenge, in which -1 is the largest size_t. *)
Answerable(n) == n \notin 0..HEX_CHALLENGE - 1

(* tcp_recv has returned n and left buf.  What a call that gives up leaves   *)
(* in its array may still be there in the next call.                         *)
Received(n, buf) ==
  /\ lens' = Append(lens, n)
  /\ IF Answerable(n)
       THEN rsbuf' = buf /\ pc' = "reply" /\ UNCHANGED i
       ELSE rsbuf' \in {buf, AllJunk} /\ Return
  /\ UNCHANGED <<replies, challenges>>

(* The first n octets that wait, in front of what the array held. *)
Filled(n) == [k \in 1..HEX_CHALLENGE |-> IF k <= n THEN taken + k ELSE rsbuf[k]]

(* Mutant of Receive: the octets are read, but not taken. *)
ReceivePeek ==
  /\ pc = "receive" /\ conn # "broken"
  /\ \E n \in 1..HEX_CHALLENGE : n <= Waiting /\ Received(n, Filled(n))
  /\ UNCHANGED <<taken, conn>>

(* One call of recv takes some of what has arrived. *)
Receive ==
  /\ pc = "receive" /\ conn # "broken"
  /\ \E n \in 1..HEX_CHALLENGE :
       /\ n <= Waiting
       /\ taken' = taken + n
       /\ Received(n, Filled(n))
  /\ UNCHANGED conn

(* Nothing will arrive any more. *)
ReceiveEnd ==
  /\ pc = "receive"
  /\ conn = "broken" \/ (conn = "closed" /\ Waiting = 0)
  /\ Received(0, rsbuf)
  /\ UNCHANGED <<taken, conn>>

(* The error of a connection that broke is reported once. *)
ReceiveError ==
  /\ pc = "receive" /\ conn = "reset"
  /\ conn' = "broken"
  /\ Received(-1, rsbuf)
  /\ UNCHANGED taken

-----------------------------------------------------------------------------
IsNewline(q) == \E n \in 1..challenges : q = HEX_CHALLENGE * n

(* "%2x": white space is passed over, then up to two digits are read.        *)
Converted(p) ==
  LET first == IF IsNewline(rsbuf[p]) THEN p + 1 ELSE p
  IN  IF IsNewline(rsbuf[first + 1])
        THEN <<rsbuf[first]>> ELSE <<rsbuf[first], rsbuf[first + 1]>>

(* Mutant of Decoded: the digits are paired off by one. *)
DecodedShifted == [j \in 1..CHALLENGE_LENGTH |-> Converted(j)]

Decoded == [j \in 1..CHALLENGE_LENGTH |-> Converted(2 * j - 1)]

(* The digest is taken of the challenge, the first characters of the address *)
(* and the password; one digit of each of its octets goes into the reply.    *)
TheReply ==
  [ challenge |-> Decoded,
    mac |-> Prefix[Requests[i].mac], pass |-> Requests[i].pass ]

(* tcp_send.  A proxy that is gone does not get the reply and has the        *)
(* connection reset; sending on that fails, or kills the program (SIGPIPE).  *)
(* The caller goes on in any case, and the array is overwritten.             *)
SendReply ==
  /\ pc = "reply"
  /\ rsbuf' = AllJunk
  /\ \/ conn = "open" /\ Return /\ replies' = Append(replies, TheReply)
                      /\ UNCHANGED conn
     \/ conn = "closed" /\ Return /\ conn' = "reset" /\ UNCHANGED replies
     \/ conn = "reset" /\ Return /\ conn' = "broken" /\ UNCHANGED replies
     \/ conn \in {"reset", "broken"} /\ pc' = "killed"
                                     /\ UNCHANGED <<i, replies, conn>>
  /\ UNCHANGED <<lens, challenges, taken>>

ClientStep == Receive \/ ReceiveEnd \/ ReceiveError \/ SendReply

ProxyNext == ClientStep \/ Challenge \/ GoAway

ProxySpec == ProxyInit /\ [][ProxyNext]_proxyVars

(* The client runs on unless it waits for the proxy; the proxy follows each  *)
(* reply with the next challenge as long as it is there.                     *)
ProxyFairSpec ==
  ProxySpec /\ WF_proxyVars(ClientStep) /\ WF_proxyVars(ChallengeInTurn)

-----------------------------------------------------------------------------
(* The digits of the n-th challenge, as the proxy reads them itself. *)
ChallengeOf(n) ==
  [j \in 1..CHALLENGE_LENGTH |->
     LET start == HEX_CHALLENGE * (n - 1) IN <<start + 2 * j - 1, start + 2 * j>>]

(* As long as every call has been given a whole challenge, the n-th reply    *)
(* answers the n-th challenge and speaks for the machine and the password of *)
(* the n-th call: the two sides stay in step, even when the proxy runs ahead *)
(* or goes away.                                                             *)
AnswersInStep ==
  (\A k \in 1..Len(lens) : lens[k] \in {0, HEX_CHALLENGE}) =>
    \A n \in 1..Len(replies) :
      replies[n] = [ challenge |-> ChallengeOf(n),
                     mac |-> Prefix[Requests[n].mac], pass |-> Requests[n].pass ]

(* No octet of a challenge is answered twice, in whatever pieces challenges  *)
(* come and whatever is left in the array of a call that failed: a reply     *)
(* cannot be provoked again by an old challenge.                             *)
OctetsOf(r) ==
  UNION {{r.challenge[j][k] : k \in DOMAIN r.challenge[j]} : j \in DOMAIN r.challenge}
AnswersAreFresh ==
  \A m, n \in 1..Len(replies) :
    m # n => OctetsOf(replies[m]) \cap OctetsOf(replies[n]) \subseteq {Junk}

(* The program gets through its list, unless a challenge came in pieces: the *)
(* call gives up on the piece, the proxy waits for a reply, and the client   *)
(* may wait for the proxy for ever.                                          *)
InPieces == \E k \in 1..Len(lens) : lens[k] \in 1..HEX_CHALLENGE - 1
CallsEnd == <>(pc \in {"done", "killed"} \/ InPieces)
=============================================================================
