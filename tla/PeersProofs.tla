---------------------------- MODULE PeersProofs ----------------------------
(* Proofs about what is at the other end of wol's sockets. The proxy client: *)
(* types, that both sides stay in step, and that no challenge is answered    *)
(* twice. The test driver: wol is started only when the other thread has     *)
(* bound the socket, in every order in which the threads can run.            *)
EXTENDS Proxy, NicFake, TLAPS

-----------------------------------------------------------------------------
(* What the assumptions say of the constants. *)
LEMMA Constants ==
  /\ HEX_CHALLENGE \in Nat /\ HEX_CHALLENGE >= 3
  /\ Calls \in Nat
  /\ \A n \in 1..Calls : Requests[n] \in [mac : MacText, pass : PassText]
<1>1. HEX_CHALLENGE \in Nat /\ HEX_CHALLENGE >= 3
  BY ProxyConstants DEF HEX_CHALLENGE
<1>2. Calls \in Nat /\ \A n \in 1..Calls : Requests[n] \in [mac : MacText, pass : PassText]
  <2> DEFINE T == [mac : MacText, pass : PassText]
  <2>1. Requests \in Seq(T)
    BY ProxyConstants
  <2> HIDE DEF T
  <2>2. Calls \in Nat /\ \A n \in 1..Calls : Requests[n] \in T
    BY <2>1 DEF Calls
  <2> QED
    BY <2>2 DEF T
<1> QED
  BY <1>1, <1>2

(* The positions of one challenge lie between two newlines. *)
LEMMA NoNewlineBetween ==
  ASSUME NEW h \in Nat, NEW a \in Nat, NEW k \in 1..h - 1, NEW n \in Nat
  PROVE  h * a + k # h * n
<1>1. CASE n <= a
  <2>1. h * n <= h * a
    <3>1. PICK d \in Nat : a = n + d
      BY <1>1
    <3>2. h * a = h * n + h * d /\ h * d \in Nat
      BY <3>1
    <3> QED
      BY <3>2
  <2> QED
    BY <2>1
<1>2. CASE n > a
  <2>1. PICK d \in Nat : n = a + 1 + d
    BY <1>2
  <2>2. h * n = h * a + h + h * d /\ h * d \in Nat
    BY <2>1
  <2> QED
    BY <2>2
<1> QED
  BY <1>1, <1>2

(* The octets of one challenge more. *)
LEMMA Products ==
  ASSUME NEW h \in Nat, NEW a \in Nat
  PROVE  h * a \in Nat /\ h * (a + 1) = h * a + h
OBVIOUS

-----------------------------------------------------------------------------
(* Typing.  A call is under way only for one of the requests.                *)
ProxyTypeInv ==
  /\ ProxyTypeOK
  /\ pc \in {"receive", "reply"} => i <= Calls

(* What a read leaves in rsbuf is octets of challenges or older contents. *)
LEMMA FilledType ==
  ASSUME ProxyTypeOK, NEW n \in 1..HEX_CHALLENGE, n <= Waiting
  PROVE  /\ Filled(n) \in [1..HEX_CHALLENGE -> 0..HEX_CHALLENGE * challenges]
         /\ taken + n \in 0..HEX_CHALLENGE * challenges
<1>1. HEX_CHALLENGE * challenges \in Nat
  BY Constants, Products DEF ProxyTypeOK
<1>2. taken + n \in 0..HEX_CHALLENGE * challenges
  BY <1>1, Constants DEF ProxyTypeOK, Waiting
<1>3. ASSUME NEW k \in 1..HEX_CHALLENGE
      PROVE  (IF k <= n THEN taken + k ELSE rsbuf[k]) \in 0..HEX_CHALLENGE * challenges
  BY <1>1, <1>2, Constants DEF ProxyTypeOK
<1> QED
  BY <1>2, <1>3 DEF Filled

(* Whatever tcp_recv returns, the call goes on or the next one begins. *)
LEMMA ReceivedType ==
  ASSUME ProxyTypeInv, pc = "receive", NEW n \in -1..HEX_CHALLENGE,
         NEW buf \in [1..HEX_CHALLENGE -> 0..HEX_CHALLENGE * challenges],
         Received(n, buf), conn' \in {"open", "closed", "reset", "broken"},
         taken' \in 0..HEX_CHALLENGE * challenges
  PROVE  ProxyTypeInv'
<1>1. HEX_CHALLENGE * challenges \in Nat
  BY Constants, Products DEF ProxyTypeInv, ProxyTypeOK
<1>2. /\ lens' \in Seq(-1..HEX_CHALLENGE)
      /\ replies' = replies /\ challenges' = challenges
  BY DEF Received, ProxyTypeInv, ProxyTypeOK
<1>3. AllJunk \in [1..HEX_CHALLENGE -> 0..HEX_CHALLENGE * challenges]
  BY <1>1 DEF AllJunk, Junk
<1>4. CASE Answerable(n)
  <2>1. rsbuf' = buf /\ pc' = "reply" /\ i' = i
    BY <1>4 DEF Received
  <2> QED
    BY <1>2, <2>1 DEF ProxyTypeInv, ProxyTypeOK
<1>5. CASE ~ Answerable(n)
  <2>1. rsbuf' \in {buf, AllJunk} /\ i' = i + 1
        /\ pc' = IF i = Calls THEN "done" ELSE "receive"
    BY <1>5 DEF Received, Return
  <2>2. rsbuf' \in [1..HEX_CHALLENGE -> 0..HEX_CHALLENGE * challenges]
    BY <2>1, <1>3
  <2>3. i' \in 1..Calls + 1 /\ (pc' \in {"receive", "reply"} => i' <= Calls)
    BY <2>1, Constants DEF ProxyTypeInv, ProxyTypeOK
  <2> QED
    BY <1>2, <2>1, <2>2, <2>3 DEF ProxyTypeInv, ProxyTypeOK
<1> QED
  BY <1>4, <1>5

(* The reply that is sent covers octets, an address and a password. *)
LEMMA ReplyType ==
  ASSUME ProxyTypeInv, pc = "reply"
  PROVE  TheReply \in Reply
<1>1. ASSUME NEW j \in 1..CHALLENGE_LENGTH
      PROVE  Converted(2 * j - 1) \in Digits
  <2>1. HEX_CHALLENGE * challenges \in Nat
    BY Constants, Products DEF ProxyTypeInv, ProxyTypeOK
  <2>2. \A k \in 1..HEX_CHALLENGE : rsbuf[k] \in Nat
    BY <2>1 DEF ProxyTypeInv, ProxyTypeOK
  <2>3. 2 * j - 1 \in 1..HEX_CHALLENGE - 2
    BY ProxyConstants DEF HEX_CHALLENGE
  <2> DEFINE first == IF IsNewline(rsbuf[2 * j - 1]) THEN 2 * j - 1 + 1 ELSE 2 * j - 1
  <2>4. first \in 1..HEX_CHALLENGE /\ first + 1 \in 1..HEX_CHALLENGE
    BY <2>3, Constants
  <2>5. rsbuf[first] \in Nat /\ rsbuf[first + 1] \in Nat
    BY <2>2, <2>4
  <2>6. \A a, b \in Nat : <<a>> \in Digits /\ <<a, b>> \in Digits
    BY DEF Digits
  <2>7. Converted(2 * j - 1) = IF IsNewline(rsbuf[first + 1])
                                 THEN <<rsbuf[first]>> ELSE <<rsbuf[first], rsbuf[first + 1]>>
    BY DEF Converted
  <2> HIDE DEF first
  <2> QED
    BY <2>5, <2>6, <2>7
<1>2. Decoded \in [1..CHALLENGE_LENGTH -> Digits]
  BY <1>1 DEF Decoded
<1>3. Requests[i] \in [mac : MacText, pass : PassText]
  BY Constants DEF ProxyTypeInv, ProxyTypeOK
<1> QED
  BY <1>2, <1>3 DEF TheReply, Reply

(* The types hold when proxy_send is called first. *)
LEMMA ProxyTypeInit == ProxyInit => ProxyTypeInv
<1> SUFFICES ASSUME ProxyInit PROVE ProxyTypeInv
  OBVIOUS
<1>1. HEX_CHALLENGE * 0 = 0
  BY Constants
<1>2. rsbuf \in [1..HEX_CHALLENGE -> 0..HEX_CHALLENGE * challenges]
  BY <1>1 DEF ProxyInit, AllJunk, Junk
<1>3. taken \in 0..HEX_CHALLENGE * challenges
  BY <1>1 DEF ProxyInit
<1> QED
  BY <1>2, <1>3, Constants DEF ProxyInit, ProxyTypeInv, ProxyTypeOK

(* Every call of proxy_send keeps the types. *)
LEMMA ProxyTypeNext == ProxyTypeInv /\ [ProxyNext]_proxyVars => ProxyTypeInv'
<1> SUFFICES ASSUME ProxyTypeInv, [ProxyNext]_proxyVars PROVE ProxyTypeInv'
  OBVIOUS
<1>0. HEX_CHALLENGE * challenges \in Nat
  BY Constants, Products DEF ProxyTypeInv, ProxyTypeOK
<1>1. CASE Receive
  <2>1. PICK n \in 1..HEX_CHALLENGE :
          n <= Waiting /\ taken' = taken + n /\ Received(n, Filled(n))
    BY <1>1 DEF Receive
  <2>2. /\ Filled(n) \in [1..HEX_CHALLENGE -> 0..HEX_CHALLENGE * challenges]
        /\ taken' \in 0..HEX_CHALLENGE * challenges
    BY <2>1, FilledType DEF ProxyTypeInv
  <2>3. n \in -1..HEX_CHALLENGE
    BY Constants
  <2>4. pc = "receive" /\ conn' = conn
    BY <1>1 DEF Receive
  <2> QED
    BY <2>1, <2>2, <2>3, <2>4, ReceivedType DEF ProxyTypeInv, ProxyTypeOK
<1>2. CASE ReceiveEnd \/ ReceiveError
  <2>1. /\ pc = "receive" /\ taken' = taken
        /\ conn' \in {"open", "closed", "reset", "broken"}
        /\ Received(0, rsbuf) \/ Received(-1, rsbuf)
    BY <1>2 DEF ReceiveEnd, ReceiveError, ProxyTypeInv, ProxyTypeOK
  <2>2. 0 \in -1..HEX_CHALLENGE /\ -1 \in -1..HEX_CHALLENGE
    BY Constants
  <2>3. /\ rsbuf \in [1..HEX_CHALLENGE -> 0..HEX_CHALLENGE * challenges]
        /\ taken' \in 0..HEX_CHALLENGE * challenges
    BY <2>1 DEF ProxyTypeInv, ProxyTypeOK
  <2> QED
    BY <2>1, <2>2, <2>3, ReceivedType
<1>3. CASE SendReply
  <2>1. AllJunk \in [1..HEX_CHALLENGE -> 0..HEX_CHALLENGE * challenges]
    BY <1>0 DEF AllJunk, Junk
  <2>2. /\ rsbuf' = AllJunk /\ lens' = lens
        /\ challenges' = challenges /\ taken' = taken
        /\ conn' \in {"open", "closed", "reset", "broken"}
    BY <1>3 DEF SendReply, ProxyTypeInv, ProxyTypeOK
  <2>3. replies' = replies \/ replies' = Append(replies, TheReply)
    BY <1>3 DEF SendReply
  <2>4. replies' \in Seq(Reply)
    BY <1>3, <2>3, ReplyType DEF SendReply, ProxyTypeInv, ProxyTypeOK
  <2>5. \/ i' = i /\ pc' = "killed"
        \/ i' = i + 1 /\ pc' = IF i = Calls THEN "done" ELSE "receive"
    BY <1>3 DEF SendReply, Return
  <2>6. /\ i' \in 1..Calls + 1 /\ (pc' \in {"receive", "reply"} => i' <= Calls)
        /\ pc' \in {"receive", "reply", "done", "killed"}
    BY <1>3, <2>5, Constants DEF SendReply, ProxyTypeInv, ProxyTypeOK
  <2> QED
    BY <2>1, <2>2, <2>4, <2>6 DEF ProxyTypeInv, ProxyTypeOK
<1>4. CASE Challenge
  <2>1. /\ challenges' = challenges + 1 /\ challenges < Calls
        /\ UNCHANGED <<i, pc, rsbuf, lens, replies, taken, conn>>
    BY <1>4 DEF Challenge, clientVars
  <2>2. HEX_CHALLENGE * challenges' = HEX_CHALLENGE * challenges + HEX_CHALLENGE
    BY <2>1, Constants, Products DEF ProxyTypeInv, ProxyTypeOK
  <2>3. \A q \in 0..HEX_CHALLENGE * challenges : q \in 0..HEX_CHALLENGE * challenges'
    BY <1>0, <2>2, Constants
  <2>4. rsbuf' \in [1..HEX_CHALLENGE -> 0..HEX_CHALLENGE * challenges']
    BY <2>1, <2>3 DEF ProxyTypeInv, ProxyTypeOK
  <2>5. taken' \in 0..HEX_CHALLENGE * challenges' /\ challenges' \in 0..Calls
    BY <2>1, <2>3, Constants DEF ProxyTypeInv, ProxyTypeOK
  <2> QED
    BY <2>1, <2>4, <2>5 DEF ProxyTypeInv, ProxyTypeOK
<1>5. CASE GoAway
  BY <1>5 DEF GoAway, clientVars, ProxyTypeInv, ProxyTypeOK
<1>6. CASE UNCHANGED proxyVars
  BY <1>6 DEF proxyVars, ProxyTypeInv, ProxyTypeOK
<1> QED
  BY <1>1, <1>2, <1>3, <1>4, <1>5, <1>6 DEF ProxyNext, ClientStep

(* The client's state keeps its types on every stream of challenges, in      *)
(* particular what it takes is always something that has been sent.          *)
THEOREM ProxyTypeCorrect == ProxySpec => []ProxyTypeOK
<1>1. ProxyInit => ProxyTypeInv
  BY ProxyTypeInit
<1>2. ProxyTypeInv /\ [ProxyNext]_proxyVars => ProxyTypeInv'
  BY ProxyTypeNext
<1>3. ProxyTypeInv => ProxyTypeOK
  BY DEF ProxyTypeInv
<1> QED
  BY <1>1, <1>2, <1>3, PTL DEF ProxySpec

-----------------------------------------------------------------------------
(* In step.  While the connection is open and every call has been given a    *)
(* whole challenge, what has been taken is a whole number of challenges, one *)
(* for each call so far, and what the array holds is the last of them.  Once *)
(* the connection is not open any more no reply is delivered, so nothing     *)
(* needs to be known of the array then.                                      *)
AllWhole == \A k \in 1..Len(lens) : lens[k] \in {0, HEX_CHALLENGE}

OpenMeansNoEnd == conn = "open" => \A k \in 1..Len(lens) : lens[k] # 0

OneResultPerCall ==
  /\ pc = "receive" => Len(lens) = i - 1
  /\ pc = "reply" => Len(lens) = i

WholeChallenges ==
  conn = "open" /\ AllWhole =>
    /\ taken = HEX_CHALLENGE * Len(lens)
    /\ pc = "receive" => Len(replies) = i - 1
    /\ pc = "reply" =>
         /\ Len(replies) = i - 1
         /\ \A k \in 1..HEX_CHALLENGE : rsbuf[k] = HEX_CHALLENGE * (i - 1) + k

StepInv ==
  /\ ProxyTypeInv
  /\ OpenMeansNoEnd
  /\ OneResultPerCall
  /\ WholeChallenges
  /\ AnswersInStep

(* A challenge that fills the array is read digit by digit. *)
LEMMA WholeIsDecoded ==
  ASSUME NEW n \in Nat, challenges \in Nat,
         \A k \in 1..HEX_CHALLENGE : rsbuf[k] = HEX_CHALLENGE * n + k
  PROVE  Decoded = ChallengeOf(n + 1)
<1>1. HEX_CHALLENGE * n \in Nat /\ HEX_CHALLENGE * ((n + 1) - 1) = HEX_CHALLENGE * n
  BY Constants, Products
<1>2. ASSUME NEW k \in 1..HEX_CHALLENGE - 1
      PROVE  ~ IsNewline(rsbuf[k])
  <2>1. k \in 1..HEX_CHALLENGE
    BY Constants
  <2>2. rsbuf[k] = HEX_CHALLENGE * n + k
    BY <2>1
  <2>3. \A m \in 1..challenges : HEX_CHALLENGE * n + k # HEX_CHALLENGE * m
    BY Constants, NoNewlineBetween
  <2> QED
    BY <2>2, <2>3 DEF IsNewline
<1>3. ASSUME NEW j \in 1..CHALLENGE_LENGTH
      PROVE  Converted(2 * j - 1) =
               <<HEX_CHALLENGE * n + 2 * j - 1, HEX_CHALLENGE * n + 2 * j>>
  <2>1. /\ 2 * j - 1 \in 1..HEX_CHALLENGE - 1 /\ 2 * j \in 1..HEX_CHALLENGE - 1
        /\ (2 * j - 1) + 1 = 2 * j
    BY ProxyConstants DEF HEX_CHALLENGE
  <2>2. ~ IsNewline(rsbuf[2 * j - 1]) /\ ~ IsNewline(rsbuf[2 * j])
    BY <1>2, <2>1
  <2>3. Converted(2 * j - 1) = <<rsbuf[2 * j - 1], rsbuf[2 * j]>>
    BY <2>1, <2>2 DEF Converted
  <2>4. /\ rsbuf[2 * j - 1] = HEX_CHALLENGE * n + (2 * j - 1)
        /\ rsbuf[2 * j] = HEX_CHALLENGE * n + 2 * j
    BY <2>1, Constants
  <2>5. HEX_CHALLENGE * n + (2 * j - 1) = HEX_CHALLENGE * n + 2 * j - 1
    BY <1>1
  <2> QED
    BY <2>3, <2>4, <2>5
<1>4. Decoded = [j \in 1..CHALLENGE_LENGTH |->
                   <<HEX_CHALLENGE * n + 2 * j - 1, HEX_CHALLENGE * n + 2 * j>>]
  BY <1>3 DEF Decoded
<1> QED
  BY <1>1, <1>4 DEF ChallengeOf

(* A result that is not a whole challenge comes only with an end of the      *)
(* stream, and what was whole before stays so.                               *)
LEMMA WholeBefore ==
  ASSUME lens \in Seq(-1..HEX_CHALLENGE), NEW n \in -1..HEX_CHALLENGE,
         lens' = Append(lens, n)
  PROVE  /\ Len(lens') = Len(lens) + 1
         /\ AllWhole' => AllWhole /\ n \in {0, HEX_CHALLENGE}
         /\ n # 0 /\ (\A k \in 1..Len(lens) : lens[k] # 0)
              => \A k \in 1..Len(lens') : lens'[k] # 0
<1> DEFINE T == -1..HEX_CHALLENGE
<1>0. lens \in Seq(T) /\ n \in T /\ Len(lens) \in Nat
  OBVIOUS
<1> HIDE DEF T
<1>1. Len(lens') = Len(lens) + 1
  BY <1>0
<1>2. /\ \A k \in 1..Len(lens) : k \in 1..Len(lens') /\ lens'[k] = lens[k]
      /\ Len(lens) + 1 \in 1..Len(lens') /\ lens'[Len(lens) + 1] = n
  BY <1>0, <1>1
<1>3. AllWhole' => AllWhole /\ n \in {0, HEX_CHALLENGE}
  BY <1>2 DEF AllWhole
<1>4. ASSUME n # 0, \A k \in 1..Len(lens) : lens[k] # 0, NEW k \in 1..Len(lens')
      PROVE  lens'[k] # 0
  <2>1. k \in 1..Len(lens) \/ k = Len(lens) + 1
    BY <1>0, <1>1
  <2> QED
    BY <1>2, <1>4, <2>1
<1> QED
  BY <1>1, <1>3, <1>4

(* Replies and challenges are in step before the first call. *)
LEMMA StepInit == ProxyInit => StepInv
<1> SUFFICES ASSUME ProxyInit PROVE StepInv
  OBVIOUS
<1>1. lens = <<>> /\ replies = <<>> /\ taken = 0 /\ i = 1 /\ pc # "reply"
  BY DEF ProxyInit
<1>2. HEX_CHALLENGE * 0 = 0
  BY Constants
<1> QED
  BY <1>1, <1>2, ProxyTypeInit
     DEF StepInv, OpenMeansNoEnd, OneResultPerCall, WholeChallenges, AnswersInStep

(* Whatever is received, the replies so far are what they were. *)
LEMMA StepReceived ==
  ASSUME StepInv, ProxyTypeInv', pc = "receive", NEW n \in -1..HEX_CHALLENGE,
         NEW buf, Received(n, buf)
  PROVE  OneResultPerCall' /\ AnswersInStep'
<1>1. lens' = Append(lens, n) /\ replies' = replies
  BY DEF Received
<1>2. Len(lens') = Len(lens) + 1 /\ (AllWhole' => AllWhole)
  BY <1>1, WholeBefore DEF StepInv, ProxyTypeInv, ProxyTypeOK
<1>3. \/ pc' = "reply" /\ i' = i
      \/ i' = i + 1 /\ pc' # "reply"
  BY DEF Received, Return
<1>4. Len(lens) = i - 1 /\ i \in Nat
  BY Constants DEF StepInv, OneResultPerCall, ProxyTypeInv, ProxyTypeOK
<1>5. OneResultPerCall'
  BY <1>2, <1>3, <1>4 DEF OneResultPerCall
<1>6. AnswersInStep'
  BY <1>1, <1>2 DEF StepInv, AnswersInStep, AllWhole, ChallengeOf
<1> QED
  BY <1>5, <1>6

(* Every step of the client and of the proxy keeps them in step. *)
LEMMA StepNext == StepInv /\ [ProxyNext]_proxyVars => StepInv'
<1> SUFFICES ASSUME StepInv, [ProxyNext]_proxyVars PROVE StepInv'
  OBVIOUS
<1>0. ProxyTypeInv /\ ProxyTypeInv'
  BY ProxyTypeNext DEF StepInv
<1>1. CASE Receive
  <2>1. PICK n \in 1..HEX_CHALLENGE :
          n <= Waiting /\ taken' = taken + n /\ Received(n, Filled(n))
    BY <1>1 DEF Receive
  <2>2. pc = "receive" /\ conn' = conn
    BY <1>1 DEF Receive
  <2>3. n \in -1..HEX_CHALLENGE /\ n # 0
    BY Constants
  <2>4. OneResultPerCall' /\ AnswersInStep'
    BY <1>0, <2>1, <2>2, <2>3, StepReceived
  <2>5. lens' = Append(lens, n) /\ replies' = replies
    BY <2>1 DEF Received
  <2>6. /\ Len(lens') = Len(lens) + 1
        /\ AllWhole' => AllWhole /\ n \in {0, HEX_CHALLENGE}
        /\ n # 0 /\ (\A k \in 1..Len(lens) : lens[k] # 0)
             => \A k \in 1..Len(lens') : lens'[k] # 0
    BY <1>0, <2>3, <2>5, WholeBefore DEF ProxyTypeInv, ProxyTypeOK
  <2>7. OpenMeansNoEnd'
    BY <2>2, <2>3, <2>6 DEF StepInv, OpenMeansNoEnd
  <2>8. WholeChallenges'
    <3> SUFFICES ASSUME conn' = "open", AllWhole'
                 PROVE  /\ taken' = HEX_CHALLENGE * Len(lens')
                        /\ pc' = "reply" /\ Len(replies') = i' - 1
                        /\ \A k \in 1..HEX_CHALLENGE :
                             rsbuf'[k] = HEX_CHALLENGE * (i' - 1) + k
      BY DEF WholeChallenges
    <3>1. n = HEX_CHALLENGE /\ AllWhole
      BY <2>3, <2>6
    <3>2. taken = HEX_CHALLENGE * Len(lens) /\ Len(replies) = i - 1 /\ Len(lens) = i - 1
      BY <2>2, <3>1 DEF StepInv, WholeChallenges, OneResultPerCall
    <3>3. Answerable(n)
      BY <3>1, Constants DEF Answerable
    <3>4. rsbuf' = Filled(n) /\ pc' = "reply" /\ i' = i
      BY <2>1, <3>3 DEF Received
    <3>5. Len(lens) \in Nat
      BY <1>0 DEF ProxyTypeInv, ProxyTypeOK
    <3>6. HEX_CHALLENGE * (Len(lens) + 1) = HEX_CHALLENGE * Len(lens) + HEX_CHALLENGE
      BY <3>5, Constants, Products
    <3>7. taken' = HEX_CHALLENGE * Len(lens')
      BY <2>1, <2>6, <3>1, <3>2, <3>6
    <3>8. \A k \in 1..HEX_CHALLENGE : rsbuf'[k] = taken + k
      BY <3>1, <3>4 DEF Filled
    <3> QED
      BY <2>5, <3>2, <3>4, <3>7, <3>8
  <2> QED
    BY <1>0, <2>4, <2>7, <2>8 DEF StepInv
<1>2. CASE ReceiveEnd \/ ReceiveError
  <2>1. /\ pc = "receive"
        /\ Received(0, rsbuf) \/ Received(-1, rsbuf)
    BY <1>2 DEF ReceiveEnd, ReceiveError
  <2>2. conn' # "open"
    BY <1>2 DEF ReceiveEnd, ReceiveError
  <2>3. 0 \in -1..HEX_CHALLENGE /\ -1 \in -1..HEX_CHALLENGE
    BY Constants
  <2>4. OneResultPerCall' /\ AnswersInStep'
    BY <1>0, <2>1, <2>3, StepReceived
  <2> QED
    BY <1>0, <2>2, <2>4 DEF StepInv, OpenMeansNoEnd, WholeChallenges
<1>3. CASE SendReply
  <2>1. /\ pc = "reply" /\ lens' = lens /\ taken' = taken
        /\ challenges' = challenges
    BY <1>3 DEF SendReply
  <2>2. i \in 1..Calls /\ Len(lens) = i /\ Calls \in Nat
    BY <1>0, <2>1, Constants
       DEF StepInv, OneResultPerCall, ProxyTypeInv, ProxyTypeOK
  <2>3. CASE pc' = "killed" \/ conn' # "open"
    <3>1. replies' = replies /\ (conn' = conn \/ conn' # "open")
      BY <1>3, <2>3 DEF SendReply, Return
    <3>2. conn' # "open" /\ (pc' = "killed" \/ (i' = i + 1 /\ pc' # "reply"))
      BY <1>3, <2>3 DEF SendReply, Return
    <3>3. AnswersInStep'
      BY <2>1, <3>1 DEF StepInv, AnswersInStep, ChallengeOf
    <3> QED
      BY <1>0, <2>1, <2>2, <3>2, <3>3
         DEF StepInv, OpenMeansNoEnd, OneResultPerCall, WholeChallenges
  <2>4. CASE pc' # "killed" /\ conn' = "open"
    <3>1. /\ conn = "open" /\ replies' = Append(replies, TheReply)
          /\ i' = i + 1 /\ pc' \in {"done", "receive"}
      BY <1>3, <2>4 DEF SendReply, Return
    <3>2. TheReply \in Reply /\ replies \in Seq(Reply)
      BY <1>0, <2>1, ReplyType DEF ProxyTypeInv, ProxyTypeOK
    <3>3. /\ Len(replies') = Len(replies) + 1
          /\ \A n \in 1..Len(replies) : replies'[n] = replies[n]
          /\ replies'[Len(replies) + 1] = TheReply
          /\ Len(replies) \in Nat
      BY <3>1, <3>2
    <3>4. AllWhole' <=> AllWhole
      BY <2>1 DEF AllWhole
    <3>5. ASSUME AllWhole
          PROVE  /\ Len(replies) = i - 1
                 /\ taken = HEX_CHALLENGE * Len(lens)
                 /\ \A k \in 1..HEX_CHALLENGE : rsbuf[k] = HEX_CHALLENGE * (i - 1) + k
      BY <2>1, <3>1, <3>5 DEF StepInv, WholeChallenges
    <3>6. WholeChallenges'
      BY <2>1, <2>2, <3>1, <3>3, <3>4, <3>5 DEF WholeChallenges
    <3>7. AnswersInStep'
      <4> SUFFICES ASSUME AllWhole', NEW n \in 1..Len(replies')
                   PROVE  replies'[n] =
                            [ challenge |-> ChallengeOf(n),
                              mac |-> Prefix[Requests[n].mac], pass |-> Requests[n].pass ]
        BY DEF AnswersInStep, AllWhole, ChallengeOf
      <4>1. CASE n \in 1..Len(replies)
        BY <3>3, <3>4, <4>1 DEF StepInv, AnswersInStep, AllWhole
      <4>2. CASE n = Len(replies) + 1
        <5>1. n = i /\ i - 1 \in Nat /\ (i - 1) + 1 = i
          BY <2>2, <3>4, <3>5, <4>2
        <5>2. challenges \in Nat
          BY <1>0, Constants DEF ProxyTypeInv, ProxyTypeOK
        <5>3. Decoded = ChallengeOf((i - 1) + 1)
          BY <3>4, <3>5, <5>1, <5>2, WholeIsDecoded
        <5> QED
          BY <3>3, <4>2, <5>1, <5>3 DEF TheReply
      <4> QED
        BY <3>3, <4>1, <4>2
    <3> QED
      BY <1>0, <2>1, <2>2, <3>1, <3>6, <3>7
         DEF StepInv, OpenMeansNoEnd, OneResultPerCall
  <2> QED
    BY <2>3, <2>4
<1>4. CASE Challenge \/ GoAway
  <2>1. /\ i' = i /\ pc' = pc /\ rsbuf' = rsbuf /\ lens' = lens
        /\ replies' = replies /\ taken' = taken
        /\ conn' = conn \/ conn' # "open"
    BY <1>4 DEF Challenge, GoAway, clientVars
  <2>2. AnswersInStep'
    BY <2>1 DEF StepInv, AnswersInStep, ChallengeOf
  <2>3. AllWhole' <=> AllWhole
    BY <2>1 DEF AllWhole
  <2> QED
    BY <1>0, <2>1, <2>2, <2>3
       DEF StepInv, OpenMeansNoEnd, OneResultPerCall, WholeChallenges
<1>5. CASE UNCHANGED proxyVars
  <2>1. AnswersInStep' /\ (AllWhole' <=> AllWhole)
    BY <1>5 DEF proxyVars, StepInv, AnswersInStep, ChallengeOf, AllWhole
  <2> QED
    BY <1>0, <1>5, <2>1
       DEF proxyVars, StepInv, OpenMeansNoEnd, OneResultPerCall, WholeChallenges
<1> QED
  BY <1>1, <1>2, <1>3, <1>4, <1>5 DEF ProxyNext, ClientStep

(* For any number of calls and challenges of any length: while every call is *)
(* given a whole challenge, the n-th reply answers the n-th challenge for    *)
(* the n-th machine, wherever the proxy goes away.                           *)
THEOREM AnswersStayInStep == ProxySpec => []AnswersInStep
<1>1. ProxyInit => StepInv
  BY StepInit
<1>2. StepInv /\ [ProxyNext]_proxyVars => StepInv'
  BY StepNext
<1>3. StepInv => AnswersInStep
  BY DEF StepInv
<1> QED
  BY <1>1, <1>2, <1>3, PTL DEF ProxySpec

-----------------------------------------------------------------------------
(* Freshness.  What has been answered and what is still in the array are     *)
(* octets taken so far, and have none in common.                             *)
TakenOnly ==
  /\ \A k \in 1..HEX_CHALLENGE : rsbuf[k] <= taken
  /\ \A n \in 1..Len(replies) : \A q \in OctetsOf(replies[n]) : q \in Nat /\ q <= taken

ArrayIsFresh ==
  \A n \in 1..Len(replies) : \A k \in 1..HEX_CHALLENGE :
    rsbuf[k] \in OctetsOf(replies[n]) => rsbuf[k] = Junk

FreshInv ==
  /\ ProxyTypeInv
  /\ TakenOnly
  /\ ArrayIsFresh
  /\ AnswersAreFresh

(* A reply is made of octets of the array. *)
LEMMA ReplyOctets ==
  ASSUME NEW q \in OctetsOf(TheReply)
  PROVE  \E k \in 1..HEX_CHALLENGE : q = rsbuf[k]
<1>1. TheReply.challenge = Decoded
  BY DEF TheReply
<1>2. PICK j \in 1..CHALLENGE_LENGTH : q \in {Decoded[j][k] : k \in DOMAIN Decoded[j]}
  BY <1>1 DEF OctetsOf, Decoded
<1>3. 2 * j - 1 \in 1..HEX_CHALLENGE - 2
  BY ProxyConstants DEF HEX_CHALLENGE
<1> DEFINE first == IF IsNewline(rsbuf[2 * j - 1]) THEN 2 * j - 1 + 1 ELSE 2 * j - 1
<1>4. first \in 1..HEX_CHALLENGE /\ first + 1 \in 1..HEX_CHALLENGE
  BY <1>3, Constants
<1>5. Decoded[j] = IF IsNewline(rsbuf[first + 1])
                     THEN <<rsbuf[first]>> ELSE <<rsbuf[first], rsbuf[first + 1]>>
  BY DEF Decoded, Converted
<1> HIDE DEF first
<1>6. q = rsbuf[first] \/ q = rsbuf[first + 1]
  BY <1>2, <1>5
<1> QED
  BY <1>4, <1>6

(* A step that sends nothing keeps the replies fresh. *)
LEMMA SameReplies ==
  ASSUME AnswersAreFresh, replies' = replies
  PROVE  AnswersAreFresh'
BY DEF AnswersAreFresh

(* Nothing is added to the replies by receiving, and what is received has    *)
(* not been taken before.                                                    *)
LEMMA FreshReceived ==
  ASSUME FreshInv, ProxyTypeInv', NEW n, NEW buf, Received(n, buf),
         taken' \in Nat, taken <= taken',
         \A k \in 1..HEX_CHALLENGE :
           buf[k] = rsbuf[k] \/ (taken < buf[k] /\ buf[k] <= taken')
  PROVE  FreshInv'
<1>1. replies' = replies /\ rsbuf' \in {buf, AllJunk, rsbuf}
  BY DEF Received
<1>2. HEX_CHALLENGE * challenges \in Nat
  BY Constants, Products DEF FreshInv, ProxyTypeInv, ProxyTypeOK
<1>3. taken \in Nat /\ \A k \in 1..HEX_CHALLENGE : rsbuf[k] \in Nat
  BY <1>2 DEF FreshInv, ProxyTypeInv, ProxyTypeOK
<1>4. \A k \in 1..HEX_CHALLENGE :
        rsbuf'[k] = Junk \/ rsbuf'[k] = rsbuf[k] \/ (taken < rsbuf'[k] /\ rsbuf'[k] <= taken')
  BY <1>1 DEF AllJunk
<1>5. \A k \in 1..HEX_CHALLENGE : rsbuf'[k] <= taken'
  BY <1>3, <1>4 DEF FreshInv, TakenOnly, Junk
<1>6. \A m \in 1..Len(replies') : \A q \in OctetsOf(replies'[m]) : q \in Nat /\ q <= taken'
  BY <1>1, <1>3 DEF FreshInv, TakenOnly
<1>7. ASSUME NEW m \in 1..Len(replies'), NEW k \in 1..HEX_CHALLENGE,
             rsbuf'[k] \in OctetsOf(replies'[m])
      PROVE  rsbuf'[k] = Junk
  <2>1. m \in 1..Len(replies) /\ rsbuf'[k] \in OctetsOf(replies[m])
    BY <1>1, <1>7
  <2>2. rsbuf'[k] \in Nat /\ rsbuf'[k] <= taken
    BY <2>1 DEF FreshInv, TakenOnly
  <2>3. rsbuf'[k] = Junk \/ rsbuf'[k] = rsbuf[k]
    BY <1>3, <1>4, <2>2
  <2> QED
    BY <2>1, <2>3 DEF FreshInv, ArrayIsFresh
<1>8. AnswersAreFresh'
  BY <1>1, SameReplies DEF FreshInv
<1> QED
  BY <1>5, <1>6, <1>7, <1>8 DEF FreshInv, TakenOnly, ArrayIsFresh

(* Before the first call there is no reply that could be stale. *)
LEMMA FreshInit == ProxyInit => FreshInv
<1> SUFFICES ASSUME ProxyInit PROVE FreshInv
  OBVIOUS
<1>1. replies = <<>> /\ rsbuf = AllJunk /\ taken = 0
  BY DEF ProxyInit
<1> QED
  BY <1>1, ProxyTypeInit
     DEF FreshInv, TakenOnly, ArrayIsFresh, AnswersAreFresh, AllJunk, Junk

(* Every step of the client and of the proxy keeps the replies fresh. *)
LEMMA FreshNext == FreshInv /\ [ProxyNext]_proxyVars => FreshInv'
<1> SUFFICES ASSUME FreshInv, [ProxyNext]_proxyVars PROVE FreshInv'
  OBVIOUS
<1>0. ProxyTypeInv /\ ProxyTypeInv'
  BY ProxyTypeNext DEF FreshInv
<1>a. HEX_CHALLENGE * challenges \in Nat /\ taken \in Nat
  BY <1>0, Constants, Products DEF ProxyTypeInv, ProxyTypeOK
<1>1. CASE Receive
  <2>1. PICK n \in 1..HEX_CHALLENGE :
          n <= Waiting /\ taken' = taken + n /\ Received(n, Filled(n))
    BY <1>1 DEF Receive
  <2>2. taken' \in Nat /\ taken <= taken'
    BY <1>a, <2>1, Constants
  <2>3. \A k \in 1..HEX_CHALLENGE :
          \/ Filled(n)[k] = rsbuf[k]
          \/ taken < Filled(n)[k] /\ Filled(n)[k] <= taken'
    BY <1>a, <2>1, Constants DEF Filled
  <2> QED
    BY <1>0, <2>1, <2>2, <2>3, FreshReceived
<1>2. CASE ReceiveEnd \/ ReceiveError
  <2>1. taken' = taken /\ (Received(0, rsbuf) \/ Received(-1, rsbuf))
    BY <1>2 DEF ReceiveEnd, ReceiveError
  <2>2. taken' \in Nat /\ taken <= taken'
    BY <1>a, <2>1
  <2> QED
    BY <1>0, <2>1, <2>2, FreshReceived
<1>3. CASE SendReply
  <2>1. pc = "reply" /\ rsbuf' = AllJunk /\ taken' = taken
    BY <1>3 DEF SendReply
  <2>2. \A k \in 1..HEX_CHALLENGE : rsbuf'[k] = Junk
    BY <2>1 DEF AllJunk
  <2>3. CASE replies' = replies
    <3>1. AnswersAreFresh'
      BY <2>3, SameReplies DEF FreshInv
    <3> QED
      BY <1>0, <1>a, <2>1, <2>2, <2>3, <3>1 DEF FreshInv, TakenOnly, ArrayIsFresh, Junk
  <2>4. CASE replies' = Append(replies, TheReply)
    <3>1. TheReply \in Reply /\ replies \in Seq(Reply)
      BY <1>0, <2>1, ReplyType DEF ProxyTypeInv, ProxyTypeOK
    <3>2. /\ Len(replies') = Len(replies) + 1 /\ Len(replies) \in Nat
          /\ \A n \in 1..Len(replies) : replies'[n] = replies[n]
          /\ replies'[Len(replies) + 1] = TheReply
      BY <2>4, <3>1
    <3>3. \A n \in 1..Len(replies') :
            \/ n \in 1..Len(replies) /\ replies'[n] = replies[n]
            \/ n = Len(replies) + 1 /\ replies'[n] = TheReply
      BY <3>2
    <3>4. \A q \in OctetsOf(TheReply) : q \in Nat /\ q <= taken
      <4>1. \A k \in 1..HEX_CHALLENGE : rsbuf[k] \in Nat /\ rsbuf[k] <= taken
        <5>1. \A k \in 1..HEX_CHALLENGE : rsbuf[k] \in Nat
          BY <1>0, <1>a DEF ProxyTypeInv, ProxyTypeOK
        <5> QED
          BY <5>1 DEF FreshInv, TakenOnly
      <4> QED
        BY <4>1, ReplyOctets
    <3>5. \A n \in 1..Len(replies) : \A q \in OctetsOf(TheReply) :
            q \in OctetsOf(replies[n]) => q = Junk
      BY ReplyOctets DEF FreshInv, ArrayIsFresh
    <3>6. TakenOnly'
      <4>1. \A n \in 1..Len(replies') : \A q \in OctetsOf(replies'[n]) :
              q \in Nat /\ q <= taken'
        BY <2>1, <3>3, <3>4 DEF FreshInv, TakenOnly
      <4> QED
        BY <1>a, <2>1, <2>2, <4>1 DEF TakenOnly, Junk
    <3>7. ASSUME NEW m \in 1..Len(replies'), NEW n \in 1..Len(replies'), m # n
          PROVE  OctetsOf(replies'[m]) \cap OctetsOf(replies'[n]) \subseteq {Junk}
      <4>1. CASE m \in 1..Len(replies) /\ n \in 1..Len(replies)
        BY <3>2, <3>7, <4>1 DEF FreshInv, AnswersAreFresh
      <4>2. CASE m \in 1..Len(replies) /\ n = Len(replies) + 1
        BY <3>2, <3>5, <4>2
      <4>3. CASE m = Len(replies) + 1 /\ n \in 1..Len(replies)
        BY <3>2, <3>5, <4>3
      <4> QED
        BY <3>3, <3>7, <4>1, <4>2, <4>3
    <3>8. AnswersAreFresh'
      BY <3>7 DEF AnswersAreFresh
    <3> QED
      BY <1>0, <2>2, <3>6, <3>8 DEF FreshInv, ArrayIsFresh
  <2> QED
    BY <1>3, <2>3, <2>4 DEF SendReply
<1>4. CASE Challenge \/ GoAway \/ UNCHANGED proxyVars
  <2>1. rsbuf' = rsbuf /\ replies' = replies /\ taken' = taken
    BY <1>4 DEF Challenge, GoAway, clientVars, proxyVars
  <2>2. AnswersAreFresh'
    BY <2>1, SameReplies DEF FreshInv
  <2> QED
    BY <1>0, <2>1, <2>2 DEF FreshInv, TakenOnly, ArrayIsFresh
<1> QED
  BY <1>1, <1>2, <1>3, <1>4 DEF ProxyNext, ClientStep

(* However challenges are cut into pieces, whatever is left in the array of  *)
(* a call that failed: no octet of a challenge goes into two replies.        *)
THEOREM NoChallengeAnsweredTwice == ProxySpec => []AnswersAreFresh
<1>1. ProxyInit => FreshInv
  BY FreshInit
<1>2. FreshInv /\ [ProxyNext]_proxyVars => FreshInv'
  BY FreshNext
<1>3. FreshInv => AnswersAreFresh
  BY DEF FreshInv
<1> QED
  BY <1>1, <1>2, <1>3, PTL DEF ProxySpec

-----------------------------------------------------------------------------
(* The lock is held over the start of the thread, so that the listener can   *)
(* notify only a main thread that waits; who has been notified, was notified *)
(* by a listener that has bound the socket.                                  *)
Listening == {"release", "recv", "GOOD", "ERROR"}

Locking ==
  /\ lck = "driver" <=> driver \in {"locked", "started"}
  /\ listener \in {"notify", "release"} => lck = "listener"
  /\ waiting => driver = "waiting"

Handshake ==
  /\ driver \in {"begin", "locked"} => listener = "none"
  /\ driver = "started" => listener \in {"bind", "acquire", "dead"}
  /\ (driver = "waiting" /\ ~ waiting) \/ driver = "popen" => listener \in Listening
  /\ listener \in {"acquire", "notify"} \cup Listening /\ driver # "exited" => bound
  /\ child # "none" => driver \in {"popen", "exited"}

NicInv == NicTypeOK /\ Locking /\ Handshake

(* The invariant holds before the two threads run. *)
LEMMA NicInvInit == NicInit => NicInv
<1> SUFFICES ASSUME NicInit PROVE NicInv
  OBVIOUS
<1>1. NicTypeOK
  <2>1. queue \in Seq(Damage \cup {Intact})
    BY DEF NicInit
  <2>2. waiting \in BOOLEAN /\ bound \in BOOLEAN
    BY DEF NicInit
  <2> QED
    BY <2>1, <2>2, Zenon DEF NicInit, NicTypeOK
<1> QED
  BY <1>1 DEF NicInit, NicInv, Locking, Handshake, Listening

(* The main thread.                                                          *)
LEMMA DriverKeeps ==
  ASSUME NicInv, DriverStep
  PROVE  NicInv'
<1> USE DEF NicInv, NicTypeOK, Locking, Handshake, Listening
<1>1. CASE Acquire
  BY <1>1 DEF Acquire
<1>2. CASE StartThread
  BY <1>2 DEF StartThread
<1>3. CASE Wait
  BY <1>3 DEF Wait
<1>4. CASE WakeAndRelease
  BY <1>4 DEF WakeAndRelease
<1>5. CASE Popen
  BY <1>5 DEF Popen
<1>6. CASE DriverExits
  BY <1>6 DEF DriverExits
<1> QED
  BY <1>1, <1>2, <1>3, <1>4, <1>5, <1>6 DEF DriverStep

(* The listener.                                                             *)
LEMMA ListenerKeeps ==
  ASSUME NicInv, ListenerStep
  PROVE  NicInv'
<1> USE DEF NicInv, NicTypeOK, Locking, Handshake, Listening
<1>1. CASE Bind
  BY <1>1 DEF Bind
<1>2. CASE ListenerAcquires
  BY <1>2 DEF ListenerAcquires
<1>3. CASE Notify
  BY <1>3 DEF Notify
<1>4. CASE ListenerReleases
  BY <1>4 DEF ListenerReleases
<1>5. CASE Judge
  <2>1. listener' \in {"GOOD", "ERROR"}
    BY <1>5 DEF Judge, Verdict
  <2>2. queue' \in Seq(Damage \cup {Intact})
    BY <1>5 DEF Judge
  <2> QED
    BY <1>5, <2>1, <2>2 DEF Judge
<1> QED
  BY <1>1, <1>2, <1>3, <1>4, <1>5 DEF ListenerStep

(* wol.                                                                      *)
LEMMA ChildKeeps ==
  ASSUME NicInv, NEW d \in Damage \cup {Intact}, WolSends(d)
  PROVE  NicInv'
<1>1. queue' \in Seq(Damage \cup {Intact})
  BY DEF WolSends, NicInv, NicTypeOK
<1> QED
  BY <1>1 DEF WolSends, NicInv, NicTypeOK, Locking, Handshake, Listening

(* While wol runs as the child of a driver that has not ended, a socket is   *)
(* bound for its datagram (nic-fake.py:27-40, 100-111).                      *)
THEOREM ListenerIsInTime == NicSpec => []ListenerIsReady
<1>1. NicInv /\ [NicNext]_nicVars => NicInv'
  <2> SUFFICES ASSUME NicInv, [NicNext]_nicVars PROVE NicInv'
    OBVIOUS
  <2>1. CASE UNCHANGED nicVars
    BY <2>1 DEF nicVars, NicInv, NicTypeOK, Locking, Handshake
  <2> QED
    BY <2>1, DriverKeeps, ListenerKeeps, ChildKeeps DEF NicNext, ChildStep
<1>2. NicInv => ListenerIsReady
  BY DEF NicInv, Locking, Handshake, Listening, ListenerIsReady
<1> QED
  BY <1>1, <1>2, NicInvInit, PTL DEF NicSpec
=============================================================================
