----------------------------- MODULE BuffersProofs --------------------------
(* Proofs about the buffers that are filled piece by piece and used again,   *)
(* for every layout, every size and every sequence of calls: the packet of   *)
(* a struct magic, the line of getstr, with the terminal's echo that goes    *)
(* with it, and the context of md5.c.                                        *)
EXTENDS MagicBuffer, LineInput, Md5, MagicPacketProofs, SequenceTheorems, TLAPS

-----------------------------------------------------------------------------
(* The inductive invariant. *)
BufferInv == TypeOK /\ SizeIsAllocation /\ CompletePacket

(* It holds initially. *)
LEMMA InitInv == Init => BufferInv
BY DEF Init, NoCall, BufferInv, TypeOK, SizeIsAllocation, CompletePacket

(* Every call preserves it. *)
LEMMA NextInv == BufferInv /\ [Next]_vars => BufferInv'
<1> SUFFICES ASSUME BufferInv, [Next]_vars PROVE BufferInv'
  OBVIOUS
<1>0. magic # Null => magic \in Magic /\ Consistent(magic)
  BY DEF BufferInv, TypeOK, SizeIsAllocation, Consistent
<1>1. ASSUME NEW with_passwd \in BOOLEAN, Create(with_passwd)
      PROVE  BufferInv'
  <2>1. magic' \in Magic /\ Consistent(magic')
    BY <1>1, CreatedType DEF Create
  <2>2. last' = NoCall
    BY <1>1 DEF Create
  <2> QED BY <2>1, <2>2
      DEF NoCall, BufferInv, TypeOK, SizeIsAllocation, CompletePacket, Consistent
<1>2. ASSUME NEW mac \in MacText \cup {Null}, NEW pass \in PassText \cup {Null},
             Assemble(mac, pass)
      PROVE  BufferInv'
  <2>1. /\ magic' \in Magic
        /\ Consistent(magic')
        /\ AssembleResult(mac, pass) = 0 =>
             magic'.packet = MagicPacketFor(mac, pass) /\ magic'.size = DatagramSize(pass)
    BY <1>0, <1>2, AssembledType DEF Assemble
  <2>2. last' = [mac |-> mac, pass |-> pass, ret |-> AssembleResult(mac, pass)]
    BY <1>2 DEF Assemble
  <2>3. AssembleResult(mac, pass) \in {0, -1, -2}
    BY DEF AssembleResult
  <2>4. TypeOK'
    BY <2>1, <2>2, <2>3 DEF TypeOK
  <2>5. SizeIsAllocation'
    BY <2>1 DEF SizeIsAllocation, Consistent
  <2>6. CompletePacket'
    BY <2>1, <2>2 DEF CompletePacket
  <2> QED BY <2>4, <2>5, <2>6 DEF BufferInv
<1>3. CASE Destroy
  BY <1>3 DEF Destroy, NoCall, BufferInv, TypeOK, SizeIsAllocation, CompletePacket
<1>4. CASE UNCHANGED vars
  BY <1>4 DEF vars, BufferInv, TypeOK, SizeIsAllocation, CompletePacket
<1> QED BY <1>1, <1>2, <1>3, <1>4 DEF Next

(* Every magic_assemble, whatever calls came before it and however they      *)
(* failed, keeps buffer and size together and returns 0 only with the exact  *)
(* packet of its request in the buffer (src/magic.c).                        *)
THEOREM BufferInvariant == Spec => []BufferInv
<1>1. Init => BufferInv
  BY InitInv
<1>2. BufferInv /\ [Next]_vars => BufferInv'
  BY NextInv
<1> QED BY <1>1, <1>2, PTL DEF Spec

(* The buffer and the record of calls keep their types. *)
THEOREM BufferTypeCorrect == Spec => []TypeOK
<1>1. BufferInv => TypeOK
  BY DEF BufferInv
<1> QED BY <1>1, BufferInvariant, PTL

(* No packet that is reported complete mixes octets of two requests. *)
THEOREM PacketIsComplete == Spec => []CompletePacket
<1>1. BufferInv => CompletePacket
  BY DEF BufferInv
<1> QED BY <1>1, BufferInvariant, PTL

(* The size never exceeds or falls short of the allocated memory. *)
THEOREM SizeMatchesMemory == Spec => []SizeIsAllocation
<1>1. BufferInv => SizeIsAllocation
  BY DEF BufferInv
<1> QED BY <1>1, BufferInvariant, PTL

-----------------------------------------------------------------------------
(* The echo. While getpass4 runs its copy is the flag it was called with.    *)
EchoInv ==
  /\ at \in {"idle", "loop", "restore"}
  /\ at = "restore" => secret
  /\ (at # "idle" /\ secret) => old = before
  /\ (at # "restore" /\ ~ (at # "idle" /\ secret) /\ ~ refused) => echo = before

(* Whatever happens to a line, the terminal is not touched, and a call ends  *)
(* or goes over to getpass4's tail.                                          *)
LEMMA EnterGoesOn ==
  ASSUME Enter, at = "idle"
  PROVE  at' \in {"idle", "loop", "restore"} /\ (at' = "restore" => secret')
         /\ (at' = "idle" => ~ secret')
BY DEF Enter, Return

(* A call of getc leaves the terminal alone, and ends the loop only by returning
   or, while the echo is off, by way of its restoration. *)
LEMMA GetcGoesOn ==
  ASSUME NEW c, NEW fails, Getc(c, fails)
  PROVE  /\ UNCHANGED ttyVars
         /\ at = "loop" /\ at' \in {"idle", "loop", "restore"}
         /\ at' = "restore" => secret'
         /\ at' = "idle" => ~ secret'
<1> DEFINE size == Grown(n)
<1>1. UNCHANGED ttyVars /\ at = "loop"
  BY DEF Getc
<1>2. ASSUME NEW block, NEW avail, NEW pos, NEW error, Store(block, c, avail, pos, error)
      PROVE  UNCHANGED at \/ (at' = IF secret' THEN "restore" ELSE "idle")
  BY <1>2 DEF Store, Return
<1>3. UNCHANGED at \/ (at' = IF secret' THEN "restore" ELSE "idle")
  <2>1. CASE IsFull
    <3>1. \/ Store(Realloc(lineptr, size), c, Room(size), read_pos, ferr')
          \/ Return(-1)
      BY <2>1 DEF Getc
    <3>2. CASE Return(-1)
      BY <3>2 DEF Return
    <3> QED
      BY <1>2, <3>1, <3>2
  <2>2. CASE ~ IsFull
    <3>1. Store(lineptr, c, nchars_avail, read_pos, ferr')
      BY <2>2 DEF Getc
    <3> QED
      BY <1>2, <3>1
  <2> QED
    BY <2>1, <2>2
<1> QED
  BY <1>1, <1>3

(* On every way out of getpass4 the echo is what it was when it was called,  *)
(* unless the terminal itself refuses (getpass4.c:14-37).                    *)
THEOREM EchoIsPutBack == LineSpec => []EchoComesBack
<1>1. LineInit => EchoInv
  BY DEF LineInit, EchoInv
<1>2. EchoInv /\ [LineNext]_lineVars => EchoInv'
  <2> SUFFICES ASSUME EchoInv, [LineNext]_lineVars
               PROVE  EchoInv'
    OBVIOUS
  <2>1. CASE Getline
    <3>1. Enter /\ at = "idle"
      BY <2>1 DEF Getline
    <3> QED
      BY <2>1, <3>1, EnterGoesOn DEF Getline, EchoInv
  <2>2. CASE Getpass
    <3>1. CASE UNCHANGED <<at, secret, echo, old>>
      BY <2>2, <3>1 DEF Getpass, EchoInv
    <3>2. CASE secret' = TRUE /\ old' = echo /\ Enter
      <4>1. at = "idle"
        BY <2>2 DEF Getpass
      <4> QED
        BY <2>2, <3>2, <4>1, EnterGoesOn DEF Getpass, EchoInv
    <3> QED
      BY <2>2, <3>1, <3>2 DEF Getpass
  <2>3. CASE Restore
    BY <2>3 DEF Restore, EchoInv
  <2>4. ASSUME NEW c, NEW fails, Getc(c, fails)
        PROVE  EchoInv'
    BY <2>4, GetcGoesOn DEF EchoInv, ttyVars
  <2>5. CASE UNCHANGED lineVars
    BY <2>5 DEF lineVars, ttyVars, EchoInv
  <2> QED
    BY <2>1, <2>2, <2>3, <2>4, <2>5 DEF LineNext
<1>3. EchoInv => EchoComesBack
  BY DEF EchoInv, EchoComesBack
<1> QED
  BY <1>1, <1>2, <1>3, PTL DEF LineSpec

-----------------------------------------------------------------------------
(* The buffer. A block that is kept from call to call has the size that is   *)
(* kept with it; inside the loop its beginning is what the call has read, so *)
(* far without an error.                                                     *)
Stored(block, len, t) ==
  /\ len < Len(block)
  /\ SubSeq(block, 1, len) = SubSeq(t, 1, len)
  /\ block[len + 1] = NUL

Reading(block, size, pos, avail, t, error) ==
  /\ block \in Seq(LineCell) /\ size = Len(block)
  /\ pos = Len(t) /\ size - avail = pos /\ avail >= 1
  /\ \A k \in 1..pos : block[k] = t[k]
  /\ error => t = <<>>

Kept(block, size) == block # NoBlock => size = Len(block) /\ size >= MIN_CHUNK

LineInv ==
  /\ LineTypeOK
  /\ Kept(lineptr, n)
  /\ at = "loop" =>
       lineptr # NoBlock /\ Reading(lineptr, n, read_pos, nchars_avail, taken, ferr)
  /\ (at # "loop" /\ lret > 0) =>
       /\ lret = Len(taken) \/ (ferr /\ lret = Len(taken) - 1)
       /\ lineptr # NoBlock /\ Stored(lineptr, lret, taken)

(* A new block is a sequence of cells of the length asked for. *)
LEMMA MallocType ==
  ASSUME NEW size \in Nat
  PROVE  Malloc(size) \in Seq(LineCell) /\ Len(Malloc(size)) = size
<1>1. Free \in LineCell
  BY DEF LineCell
<1>2. Malloc(size) \in [1..size -> LineCell]
  BY <1>1 DEF Malloc
<1> QED
  BY <1>2 DEF Malloc

(* A block that grows has the new length and keeps its contents. *)
LEMMA ReallocType ==
  ASSUME NEW block \in Seq(LineCell), NEW size \in Nat, size >= Len(block)
  PROVE  /\ Realloc(block, size) \in Seq(LineCell) /\ Len(Realloc(block, size)) = size
         /\ \A k \in 1..Len(block) : Realloc(block, size)[k] = block[k]
<1> DEFINE new == Realloc(block, size)
<1>1. Free \in LineCell
  BY DEF LineCell
<1>2. new = [k \in 1..size |-> IF k \in DOMAIN block THEN block[k] ELSE Free]
  BY DEF Realloc
<1>3. DOMAIN block = 1..Len(block) /\ \A k \in 1..Len(block) : block[k] \in LineCell
  OBVIOUS
<1>4. new \in [1..size -> LineCell]
  BY <1>1, <1>2, <1>3
<1>5. \A k \in 1..Len(block) : k \in 1..size
  OBVIOUS
<1>6. new \in Seq(LineCell) /\ Len(new) = size
  BY <1>4
<1> QED
  BY <1>2, <1>3, <1>5, <1>6

(* One octet is put into a buffer that has room for it and for the NUL.      *)
LEMMA StoreKeeps ==
  ASSUME NEW block \in Seq(LineCell), NEW c \in Char \cup {"EOF"}, NEW avail \in Int,
         NEW pos \in Nat, NEW error \in BOOLEAN, NEW t \in Seq(Char),
         pos = Len(t), avail = Len(block) - pos, avail >= 2,
         \A k \in 1..pos : block[k] = t[k], 
         read_pos = pos, at = "loop", lret \in Int,
         taken' = (IF c = "EOF" THEN t ELSE Append(t, c)), ferr' = error,
         Store(block, c, avail, pos, error)
  PROVE  /\ lineptr' \in Seq(LineCell) /\ Len(lineptr') = Len(block)
         /\ read_pos' \in Nat /\ nchars_avail' \in Int /\ lret' \in Int
         /\ at' \in {"idle", "loop", "restore"}
         /\ at' = "loop" =>
              Reading(lineptr', Len(block), read_pos', nchars_avail', taken', ferr')
         /\ (at' # "loop" /\ lret' > 0) =>
              /\ lret' = Len(taken') \/ (ferr' /\ lret' = Len(taken') - 1)
              /\ Stored(lineptr', lret', taken')
<1> USE LineConstants
<1>1. NUL \in LineCell /\ Char \subseteq LineCell
  BY DEF LineCell
<1>2. taken' \in Seq(Char) /\ Len(t) <= Len(taken') /\ \A k \in 1..pos : taken'[k] = t[k]
  OBVIOUS
<1>3. CASE c = "EOF" \/ error
  <2>1. CASE pos = 0 /\ (c = "EOF" \/ error) /\ UNCHANGED read_pos /\ nchars_avail' = avail
             /\ lineptr' = block /\ Return(-1)
    BY <2>1 DEF Return
  <2>2. CASE pos # 0 /\ UNCHANGED read_pos /\ nchars_avail' = avail
             /\ lineptr' = [block EXCEPT ![pos + 1] = NUL] /\ Return(pos)
    <3>1. lineptr' \in Seq(LineCell) /\ Len(lineptr') = Len(block)
      BY <1>1, <2>2
    <3>2. lineptr'[pos + 1] = NUL /\ \A k \in 1..pos : lineptr'[k] = block[k]
      BY <2>2
    <3>3. Stored(lineptr', pos, taken')
      <4>1. \A k \in 1..pos : lineptr'[k] = taken'[k]
        BY <1>2, <3>2
      <4>2. SubSeq(lineptr', 1, pos) = [k \in 1..pos |-> lineptr'[k]]
        BY <3>1
      <4>3. SubSeq(taken', 1, pos) = [k \in 1..pos |-> taken'[k]]
        BY <1>2
      <4> QED
        BY <3>1, <3>2, <4>1, <4>2, <4>3 DEF Stored
    <3>4. pos = Len(taken') \/ (ferr' /\ pos = Len(taken') - 1)
      BY <1>3
    <3> QED
      BY <2>2, <3>1, <3>3, <3>4 DEF Return
  <2> QED
    BY <1>3, <2>1, <2>2 DEF Store
<1>4. CASE c # "EOF" /\ ~ error
  <2>1. read_pos' = pos + 1 /\ nchars_avail' = avail - 1
    BY <1>4 DEF Store
  <2>2. taken' = Append(t, c) /\ Len(taken') = pos + 1 /\ taken'[pos + 1] = c /\ c \in Char
    BY <1>4
  <2>3. CASE lineptr' = [block EXCEPT ![pos + 1] = c, ![pos + 2] = NUL] /\ Return(pos + 1)
    <3> DEFINE mid == [block EXCEPT ![pos + 1] = c]
    <3>1. mid \in Seq(LineCell) /\ Len(mid) = Len(block) /\ mid[pos + 1] = c
          /\ \A k \in 1..pos : mid[k] = block[k]
      BY <1>1, <2>2
    <3>2. lineptr' = [mid EXCEPT ![pos + 2] = NUL]
      BY <2>3
    <3> HIDE DEF mid
    <3>3. lineptr' \in Seq(LineCell) /\ Len(lineptr') = Len(block)
          /\ lineptr'[pos + 2] = NUL /\ \A k \in 1..pos + 1 : lineptr'[k] = mid[k]
      BY <1>1, <3>1, <3>2
    <3>4. \A k \in 1..pos + 1 : mid[k] = taken'[k]
      BY <1>2, <2>2, <3>1
    <3>5. Stored(lineptr', pos + 1, taken')
      <4>1. \A k \in 1..pos + 1 : lineptr'[k] = taken'[k]
        BY <3>3, <3>4
      <4>2. SubSeq(lineptr', 1, pos + 1) = [k \in 1..pos + 1 |-> lineptr'[k]]
        BY <3>3
      <4>3. SubSeq(taken', 1, pos + 1) = [k \in 1..pos + 1 |-> taken'[k]]
        BY <1>2, <2>2
      <4> QED
        BY <3>3, <4>1, <4>2, <4>3 DEF Stored
    <3> QED
      BY <2>1, <2>2, <2>3, <3>3, <3>5 DEF Return
  <2>4. CASE lineptr' = [block EXCEPT ![pos + 1] = c] /\ UNCHANGED <<lret, at>>
    <3>1. lineptr' \in Seq(LineCell) /\ Len(lineptr') = Len(block) /\ lineptr'[pos + 1] = c
          /\ \A k \in 1..pos : lineptr'[k] = block[k]
      BY <1>1, <2>2, <2>4
    <3>2. \A k \in 1..pos + 1 : lineptr'[k] = taken'[k]
      BY <1>2, <2>2, <3>1
    <3> QED
      BY <1>4, <2>1, <2>2, <2>4, <3>1, <3>2 DEF Reading
  <2> QED
    BY <1>4, <2>3, <2>4 DEF Store
<1> QED
  BY <1>3, <1>4

(* The step of the loop: Grown makes room for the octet and for the NUL.     *)
LEMMA GetcKeeps ==
  ASSUME LineInv, NEW c \in Char \cup {"EOF"}, NEW fails \in BOOLEAN, Getc(c, fails)
  PROVE  LineInv'
<1> USE LineConstants
<1>1. at = "loop" /\ UNCHANGED ttyVars /\ ferr' = (ferr \/ fails) /\ ferr' \in BOOLEAN
      /\ taken' = (IF c = "EOF" THEN taken ELSE Append(taken, c))
  BY DEF Getc, LineInv, LineTypeOK
<1>2. /\ lineptr \in Seq(LineCell) /\ n = Len(lineptr) /\ n >= MIN_CHUNK /\ n \in Nat
      /\ read_pos = Len(taken) /\ n - nchars_avail = read_pos /\ nchars_avail >= 1
      /\ \A k \in 1..read_pos : lineptr[k] = taken[k]
      /\ ferr => taken = <<>>
      /\ taken \in Seq(Char) /\ lret \in Int /\ nchars_avail \in Int /\ read_pos \in Nat
      /\ taken' \in Seq(Char)
  BY <1>1 DEF LineInv, LineTypeOK, Kept, Reading
<1>3. ASSUME NEW block \in Seq(LineCell), NEW avail \in Int,
             n' = Len(block), Len(block) >= MIN_CHUNK,
             avail = Len(block) - read_pos, avail >= 2,
             \A k \in 1..read_pos : block[k] = taken[k],
             Store(block, c, avail, read_pos, ferr')
      PROVE  LineInv'
  <2>1. /\ lineptr' \in Seq(LineCell) /\ Len(lineptr') = Len(block)
        /\ read_pos' \in Nat /\ nchars_avail' \in Int /\ lret' \in Int
        /\ at' \in {"idle", "loop", "restore"}
    BY <1>1, <1>2, <1>3, StoreKeeps
  <2>2. at' = "loop" =>
          Reading(lineptr', Len(block), read_pos', nchars_avail', taken', ferr')
    BY <1>1, <1>2, <1>3, StoreKeeps
  <2>3. (at' # "loop" /\ lret' > 0) =>
          /\ lret' = Len(taken') \/ (ferr' /\ lret' = Len(taken') - 1)
          /\ Stored(lineptr', lret', taken')
    BY <1>1, <1>2, <1>3, StoreKeeps
  <2>4. n' \in Nat /\ lineptr' # NoBlock
    BY <1>3, <2>1
  <2>5. LineTypeOK'
    BY <1>1, <1>2, <2>1, <2>4 DEF LineTypeOK, LineInv, ttyVars
  <2>6. Kept(lineptr', n')
    BY <1>3, <2>1 DEF Kept
  <2> QED
    BY <1>3, <2>2, <2>3, <2>4, <2>5, <2>6 DEF LineInv
<1>4. CASE IsFull
  <2> DEFINE size == Grown(n)
  <2>1. size \in Nat /\ size >= n + 2 /\ n' = size
    BY <1>2, <1>4 DEF Grown, Getc
  <2>2. Room(size) = size - read_pos /\ Room(size) \in Int /\ Room(size) >= 2
    BY <1>2, <2>1 DEF Room
  <2> HIDE DEF size
  <2>3. CASE Store(Realloc(lineptr, size), c, Room(size), read_pos, ferr')
    <3> DEFINE new == Realloc(lineptr, size)
    <3>1. new \in Seq(LineCell) /\ Len(new) = size
          /\ \A k \in 1..Len(lineptr) : new[k] = lineptr[k]
      BY <1>2, <2>1, ReallocType
    <3>2. \A k \in 1..read_pos : new[k] = taken[k]
      BY <1>2, <3>1
    <3> HIDE DEF new
    <3>3. Store(new, c, Room(size), read_pos, ferr')
      BY <2>3 DEF new
    <3> QED
      BY <1>2, <1>3, <2>1, <2>2, <3>1, <3>2, <3>3
  <2>4. CASE lineptr' = NoBlock /\ nchars_avail' = Room(size) /\ UNCHANGED read_pos
             /\ Return(-1)
    BY <1>1, <1>2, <2>1, <2>2, <2>4 DEF Return, LineInv, LineTypeOK, Kept, ttyVars
  <2> QED
    BY <1>4, <2>3, <2>4 DEF Getc, size
<1>5. CASE ~ IsFull
  <2>1. n' = n /\ Store(lineptr, c, nchars_avail, read_pos, ferr')
    BY <1>5 DEF Getc
  <2> QED
    BY <1>2, <1>3, <1>5, <2>1 DEF IsFull
<1> QED
  BY <1>4, <1>5

(* A call begins with the block the call before has left, or a new one.      *)
LEMMA EnterKeeps ==
  ASSUME LineInv, at = "idle", Enter, secret' \in BOOLEAN
  PROVE  /\ lineptr' \in Seq(LineCell) \cup {NoBlock}
         /\ n' \in Nat /\ read_pos' \in Nat /\ nchars_avail' \in Int
         /\ taken' = <<>> /\ taken' \in Seq(Char) /\ lret' \in Int
         /\ ferr' \in BOOLEAN /\ at' \in {"idle", "loop", "restore"}
         /\ Kept(lineptr', n')
         /\ at' = "loop" => lineptr' # NoBlock
              /\ Reading(lineptr', n', read_pos', nchars_avail', taken', ferr')
         /\ at' # "loop" => lret' = -1
<1> USE LineConstants
<1>1. taken' = <<>> /\ ferr' = ferr /\ ferr \in BOOLEAN /\ Len(taken') = 0 /\ lret \in Int
  BY DEF Enter, LineInv, LineTypeOK
<1>2. CASE lineptr # NoBlock /\ UNCHANGED <<lineptr, n>> /\ read_pos' = 0
           /\ nchars_avail' = n /\ at' = "loop" /\ UNCHANGED lret
  BY <1>1, <1>2 DEF LineInv, LineTypeOK, Kept, Reading
<1>3. CASE lineptr = NoBlock /\ n' = MIN_CHUNK /\ lineptr' = Malloc(MIN_CHUNK)
           /\ read_pos' = 0 /\ nchars_avail' = MIN_CHUNK /\ at' = "loop"
           /\ UNCHANGED lret
  <2>1. lineptr' \in Seq(LineCell) /\ Len(lineptr') = MIN_CHUNK
    BY <1>3, MallocType
  <2> QED
    BY <1>1, <1>3, <2>1 DEF Kept, Reading
<1>4. CASE lineptr = NoBlock /\ n' = MIN_CHUNK
           /\ UNCHANGED <<lineptr, read_pos, nchars_avail>> /\ Return(-1)
  BY <1>1, <1>4 DEF LineInv, LineTypeOK, Kept, Return
<1>5. \/ lineptr # NoBlock /\ UNCHANGED <<lineptr, n>> /\ read_pos' = 0
         /\ nchars_avail' = n /\ at' = "loop" /\ UNCHANGED lret
      \/ lineptr = NoBlock /\ n' = MIN_CHUNK /\ lineptr' = Malloc(MIN_CHUNK)
         /\ read_pos' = 0 /\ nchars_avail' = MIN_CHUNK /\ at' = "loop"
         /\ UNCHANGED lret
      \/ lineptr = NoBlock /\ n' = MIN_CHUNK
         /\ UNCHANGED <<lineptr, read_pos, nchars_avail>> /\ Return(-1)
  BY DEF Enter
<1> QED
  BY <1>2, <1>3, <1>4, <1>5

(* The buffer invariant is inductive. *)
LEMMA LineInvHolds == LineSpec => []LineInv
<1> USE LineConstants
<1>1. LineInit => LineInv
  <2> SUFFICES ASSUME LineInit PROVE LineInv
    OBVIOUS
  <2>1. LineTypeOK
    <3>1. taken \in Seq(Char)
      BY DEF LineInit
    <3>2. {ferr, secret, echo, old, before, refused} \subseteq BOOLEAN
      BY Zenon DEF LineInit
    <3>3. /\ lineptr \in Seq(LineCell) \cup {NoBlock}
          /\ n \in Nat /\ read_pos \in Nat /\ nchars_avail \in Int
          /\ lret \in Int /\ at \in {"idle", "loop", "restore"}
      BY DEF LineInit
    <3> QED
      BY <3>1, <3>2, <3>3, Zenon DEF LineTypeOK
  <2>2. Kept(lineptr, n) /\ at = "idle" /\ lret = 0
    BY DEF LineInit, Kept
  <2> QED
    BY <2>1, <2>2 DEF LineInv
<1>2. LineInv /\ [LineNext]_lineVars => LineInv'
  <2> SUFFICES ASSUME LineInv, [LineNext]_lineVars
               PROVE  LineInv'
    OBVIOUS
  <2>1. ASSUME Enter, at = "idle",
               secret' \in BOOLEAN, echo' \in BOOLEAN, old' \in BOOLEAN,
               before' \in BOOLEAN, refused' \in BOOLEAN
        PROVE  LineInv'
    BY <2>1, EnterKeeps DEF LineInv, LineTypeOK
  <2>2. CASE Getline
    BY <2>1, <2>2 DEF Getline, LineInv, LineTypeOK
  <2>3. CASE Getpass
    <3>1. CASE lret' = -1 /\ UNCHANGED <<lineptr, n, read_pos, nchars_avail, taken,
                                         ferr, at, secret, echo, old>>
      <4>1. at' = "idle" /\ before' = echo /\ refused' = FALSE
        BY <2>3, <3>1 DEF Getpass
      <4>2. LineTypeOK'
        <5>1. LineTypeOK
          BY DEF LineInv
        <5>2. {ferr, secret, echo, old, before, refused}' \subseteq BOOLEAN
          BY <3>1, <4>1, <5>1, Zenon DEF LineTypeOK
        <5>3. lret' \in Int
          BY <3>1
        <5> QED
          BY <3>1, <4>1, <5>1, <5>2, <5>3, Zenon DEF LineTypeOK
      <4>3. Kept(lineptr', n')
        BY <3>1 DEF LineInv
      <4> QED
        BY <3>1, <4>1, <4>2, <4>3 DEF LineInv
    <3>2. CASE secret' = TRUE /\ old' = echo /\ echo' = FALSE /\ Enter
      <4>1. at = "idle" /\ before' = echo /\ refused' = FALSE /\ echo \in BOOLEAN
        BY <2>3 DEF Getpass, LineInv, LineTypeOK
      <4> QED
        BY <2>1, <3>2, <4>1
    <3> QED
      BY <2>3, <3>1, <3>2 DEF Getpass
  <2>4. CASE Restore
    BY <2>4 DEF Restore, LineInv, LineTypeOK
  <2>5. ASSUME NEW c \in Char \cup {"EOF"}, NEW fails \in BOOLEAN, Getc(c, fails)
        PROVE  LineInv'
    BY <2>5, GetcKeeps
  <2>6. CASE UNCHANGED lineVars
    BY <2>6 DEF lineVars, ttyVars, LineInv, LineTypeOK
  <2> QED
    BY <2>2, <2>3, <2>4, <2>5, <2>6 DEF LineNext
<1> QED
  BY <1>1, <1>2, PTL DEF LineSpec

(* The asserts of getstr.c:84 and :97 hold, for every MIN_CHUNK of two or    *)
(* more, every length of line and wherever an allocation or a read fails.    *)
THEOREM AssertsHold == LineSpec => []BookkeepingHolds
<1>1. LineInv => BookkeepingHolds
  BY DEF LineInv, Reading, BookkeepingHolds
<1> QED
  BY <1>1, LineInvHolds, PTL

(* The line a caller gets is the line that was read, and ends in a NUL that  *)
(* lies in the buffer (getstr.c:101-115).                                    *)
THEOREM LineIsReturnedWhole == LineSpec => []LineIsWhole
<1>1. LineInv => LineIsWhole
  BY DEF LineInv, Stored, LineIsWhole
<1> QED
  BY <1>1, LineInvHolds, PTL

-----------------------------------------------------------------------------
(* The remainder and the quotient, given any others that fit.                *)
LEMMA RemainderIs ==
  ASSUME NEW d \in Nat \ {0}, NEW q \in Nat, NEW r \in 0..(d - 1)
  PROVE  ((q * d) + r) % d = r
OBVIOUS

(* A number is its quotient and its remainder.                               *)
LEMMA DivMod ==
  ASSUME NEW d \in Nat \ {0}, NEW x \in Nat
  PROVE  x % d \in 0..(d - 1) /\ x \div d \in Nat /\ x = ((x \div d) * d) + (x % d)
<1>1. x % d \in 0..(d - 1)
  OBVIOUS
<1>2. x \div d \in Nat
  OBVIOUS
<1>3. x = ((x \div d) * d) + (x % d)
  OBVIOUS
<1> QED BY <1>1, <1>2, <1>3

(* A number below the divisor is its own remainder.                          *)
LEMMA SmallMod ==
  ASSUME NEW d \in Nat \ {0}, NEW r \in 0..(d - 1)
  PROVE  r % d = r /\ (r + d) % d = r /\ d % d = 0
OBVIOUS

(* Multiples of a divisor add up to one.                                     *)
LEMMA SumMod ==
  ASSUME NEW d \in Nat \ {0}, NEW a \in Nat, NEW b \in Nat, a % d = 0, b % d = 0
  PROVE  (a + b) % d = 0
<1> DEFINE p == a \div d
           q == b \div d
<1>1. p \in Nat /\ q \in Nat /\ a = p * d /\ b = q * d
  BY DivMod
<1> HIDE DEF p, q
<1>2. a + b = ((p + q) * d) + 0
  BY <1>1
<1> QED BY <1>1, <1>2, RemainderIs

(* Two words hold every number below the square of a word.                   *)
LEMMA TwoWords ==
  ASSUME NEW w \in Nat \ {0}, NEW lo \in 0..(w - 1), NEW hi \in 0..(w - 1)
  PROVE  lo + (w * hi) \in 0..((w * w) - 1) /\ w * w \in Nat \ {0}
<1>1. w * w \in Nat \ {0} /\ w * hi \in Nat
  OBVIOUS
<1>2. w * hi <= w * (w - 1)
  <2>1. \A a \in Nat, b \in Nat : a <= b => w * a <= w * b
    OBVIOUS
  <2> QED BY <2>1
<1>3. w * (w - 1) = (w * w) - w
  OBVIOUS
<1> QED BY <1>1, <1>2, <1>3

(* The counter of md5_process_block counts modulo the square of a word.      *)
Holds(t, x) ==
  /\ t = <<t[1], t[2]>> /\ t[1] \in 0..(Word - 1) /\ t[2] \in 0..(Word - 1)
  /\ t[1] + (Word * t[2]) = x % (Word * Word)

(* md5_process_block counts what it is given, carrying into the high word.   *)
LEMMA CountedIs ==
  ASSUME NEW t, NEW x \in Nat, NEW len \in 0..(Word - 1), Holds(t, x)
  PROVE  Holds(Counted(t, len), x + len)
<1> DEFINE lo == t[1]
           hi == t[2]
           D == Word * Word
           m == x \div D
<1>w. Word \in Nat \ {0} /\ lo \in 0..(Word - 1) /\ hi \in 0..(Word - 1) /\ lo + (Word * hi) = x % D
  BY Md5Constants DEF Holds
<1>d. D \in Nat \ {0}
  BY <1>w, TwoWords
<1>m. m \in Nat /\ x = (m * D) + (lo + (Word * hi))
  BY <1>w, <1>d, DivMod
<1>h. Word * hi \in Nat
  BY <1>w
<1>1. CASE lo + len < Word
  <2>1. (lo + len) % Word = lo + len
    <3>1. lo + len \in 0..(Word - 1)
      BY <1>w, <1>1
    <3> HIDE DEF lo
    <3> QED BY <1>w, <3>1, SmallMod
  <2>2. Counted(t, len) = <<lo + len, hi>>
    BY <1>w, <2>1 DEF Counted
  <2>3. lo + len \in 0..(Word - 1)
    BY <1>w, <1>1
  <2>4. (lo + len) + (Word * hi) \in 0..(D - 1)
    BY <1>w, <2>3, TwoWords
  <2>5. x + len = (m * D) + ((lo + len) + (Word * hi))
    <3>1. m * D \in Nat
      BY <1>m, <1>d
    <3> HIDE DEF D, m
    <3> QED BY <1>m, <1>w, <1>h, <3>1
  <2>6. (x + len) % D = (lo + len) + (Word * hi)
    <3> HIDE DEF m, D
    <3> QED BY <1>m, <1>d, <2>4, <2>5, RemainderIs
  <2> QED BY <1>w, <2>2, <2>3, <2>6 DEF Holds
<1>2. CASE ~ (lo + len < Word)
  <2> DEFINE low == (lo + len) - Word
  <2>1. low \in 0..(Word - 1) /\ low < len /\ (lo + len) % Word = low
    <3>1. low \in 0..(Word - 1) /\ low < len
      BY <1>w, <1>2
    <3>2. lo + len = low + Word
      BY <1>w
    <3> HIDE DEF low, lo
    <3>3. (low + Word) % Word = low
      BY <1>w, <3>1, SmallMod
    <3> QED BY <3>1, <3>2, <3>3
  <2>2. Counted(t, len) = <<low, (hi + 1) % Word>>
    <3> HIDE DEF low
    <3> QED BY <2>1 DEF Counted
  <2>3. CASE hi + 1 < Word
    <3>1. (hi + 1) % Word = hi + 1 /\ hi + 1 \in 0..(Word - 1)
      BY <1>w, <2>3
    <3>2. low + (Word * (hi + 1)) \in 0..(D - 1)
      BY <1>w, <2>1, <3>1, TwoWords
    <3>3. x + len = (m * D) + (low + (Word * (hi + 1)))
      <4>1. m * D \in Nat
        BY <1>m, <1>d
      <4>2. Word * (hi + 1) = (Word * hi) + Word
        BY <1>w
      <4> HIDE DEF D, m
      <4> QED BY <1>m, <1>w, <1>h, <4>1, <4>2
    <3>4. (x + len) % D = low + (Word * (hi + 1))
      <4> HIDE DEF m, D
      <4> QED BY <1>m, <1>d, <3>2, <3>3, RemainderIs
    <3> HIDE DEF low
    <3> QED BY <1>w, <2>1, <2>2, <3>1, <3>4 DEF Holds
  <2>4. CASE ~ (hi + 1 < Word)
    <3>1. hi + 1 = Word /\ (hi + 1) % Word = 0
      <4>1. hi + 1 = Word
        BY <1>w, <2>4
      <4>2. Word % Word = 0
        BY <1>w, SmallMod
      <4> QED BY <4>1, <4>2
    <3>2. low + (Word * 0) \in 0..(D - 1) /\ 0 \in 0..(Word - 1)
      BY <1>w, <2>1, TwoWords
    <3>3. x + len = ((m + 1) * D) + low
      <4>1. m * D \in Nat /\ (m + 1) * D = (m * D) + D
        BY <1>m, <1>d
      <4>2. D = (Word * hi) + Word
        <5>1. hi = Word - 1
          BY <1>w, <3>1
        <5> HIDE DEF hi
        <5>2. Word * (Word - 1) = (Word * Word) - Word
          BY <1>w
        <5> QED BY <1>w, <5>1, <5>2
      <4>3. x + len = (m * D) + ((lo + (Word * hi)) + len)
        <5> HIDE DEF D, m, lo, hi
        <5> QED BY <1>m, <1>w, <1>h, <4>1
      <4>4. (lo + (Word * hi)) + len = D + low
        <5>1. low = (lo + len) - Word
          OBVIOUS
        <5> HIDE DEF D, lo, hi, low
        <5> QED BY <1>w, <1>h, <1>d, <4>2, <5>1
      <4> HIDE DEF D, m, lo, hi, low
      <4> QED BY <4>1, <4>3, <4>4, <1>d, <2>1
    <3>4. (x + len) % D = low
      <4>1. m + 1 \in Nat /\ low \in 0..(D - 1)
        <5>1. low + (Word * 0) = low
          BY <1>w, <2>1
        <5> HIDE DEF D, low
        <5> QED BY <1>m, <3>2, <5>1
      <4> HIDE DEF m, D, low
      <4> QED BY <1>d, <3>3, <4>1, RemainderIs
    <3>5. Counted(t, len) = <<low, 0>>
      BY <2>2, <3>1, Zenon
    <3>6. low + (Word * 0) = low /\ 0 \in 0..(Word - 1)
      BY <1>w, <2>1
    <3> HIDE DEF low, D
    <3> QED BY <2>1, <3>4, <3>5, <3>6 DEF Holds, D
  <2> QED BY <2>3, <2>4
<1> QED BY <1>1, <1>2

(* What is in a buffer: octets of the input, of the padding and of the       *)
(* length, and what nobody has written.                                      *)
Octet == ({"junk", "fill", "input"} \X Nat) \cup {<<"bits">>} \cup ({"bits"} \X Nat \X Nat)

Contexts == [buffer : [1..(2 * Block) -> Octet], buflen : 0..Block,
             total : Nat \X Nat, absorbed : Seq(Octet)]

(* Octets of the input behind the x-th, in a sequence and in a buffer.       *)
Continues(octets, x) ==
  octets \in Seq(Octet) /\ \A k \in 1..Len(octets) : octets[k] = <<"input", x + k>>
Waits(buf, len, x) == \A k \in 1..len : buf[k] = <<"input", x + k>>

(* A context has compressed whole blocks of input, and counted them.         *)
Compressed(ctx) ==
  /\ ctx \in Contexts
  /\ Continues(ctx.absorbed, 0)
  /\ Len(ctx.absorbed) % Block = 0
  /\ Holds(ctx.total, Len(ctx.absorbed))

(* ... and the rest of x octets waits in its buffer.                         *)
Took(ctx, x) ==
  /\ Compressed(ctx)
  /\ x = Len(ctx.absorbed) + ctx.buflen
  /\ Waits(ctx.buffer, ctx.buflen, Len(ctx.absorbed))

(* The sizes of md5.c are numbers.                                           *)
LEMMA BlockIs == Block \in Nat /\ Block > 0 /\ Block # 0 /\ 2 * Block \in Nat /\ Word \in Nat \ {0}
                 /\ 2 * Block < Word /\ Block \in Nat \ {0}
BY Md5Constants

(* A part of a sequence of input continues where it was.                     *)
LEMMA PartContinues ==
  ASSUME NEW octets, NEW x \in Nat, NEW b \in Nat, NEW a \in 0..b, b <= Len(octets),
         Continues(octets, x)
  PROVE  /\ Continues(SubSeq(octets, a + 1, b), x + a)
         /\ Len(SubSeq(octets, a + 1, b)) = b - a
<1>1. octets \in Seq(Octet) /\ Len(octets) \in Nat
  BY DEF Continues
<1>2. /\ SubSeq(octets, a + 1, b) \in Seq(Octet) /\ Len(SubSeq(octets, a + 1, b)) = b - a
      /\ \A k \in 1..(b - a) : SubSeq(octets, a + 1, b)[k] = octets[a + k]
  BY <1>1
<1>3. \A k \in 1..(b - a) : octets[a + k] = <<"input", (x + a) + k>>
  <2> SUFFICES ASSUME NEW k \in 1..(b - a) PROVE octets[a + k] = <<"input", (x + a) + k>>
    OBVIOUS
  <2>1. a + k \in 1..Len(octets) /\ x + (a + k) = (x + a) + k
    BY <1>1
  <2> QED BY <2>1 DEF Continues
<1> QED BY <1>2, <1>3 DEF Continues

(* So does what is taken from a buffer.                                      *)
LEMMA TakenContinues ==
  ASSUME NEW buf \in [1..(2 * Block) -> Octet], NEW x \in Nat, NEW b \in 0..(2 * Block),
         NEW a \in 0..b, Waits(buf, b, x)
  PROVE  /\ Continues(SubSeq(buf, a + 1, b), x + a)
         /\ Len(SubSeq(buf, a + 1, b)) = b - a
<1>1. buf \in Seq(Octet) /\ Len(buf) = 2 * Block
  BY BlockIs
<1>2. /\ SubSeq(buf, a + 1, b) \in Seq(Octet) /\ Len(SubSeq(buf, a + 1, b)) = b - a
      /\ \A k \in 1..(b - a) : SubSeq(buf, a + 1, b)[k] = buf[a + k]
  BY <1>1, BlockIs
<1>3. \A k \in 1..(b - a) : buf[a + k] = <<"input", (x + a) + k>>
  <2> SUFFICES ASSUME NEW k \in 1..(b - a) PROVE buf[a + k] = <<"input", (x + a) + k>>
    OBVIOUS
  <2>1. a + k \in 1..b /\ x + (a + k) = (x + a) + k
    BY BlockIs
  <2> QED BY <2>1 DEF Waits
<1> QED BY <1>2, <1>3 DEF Continues

(* memcpy puts octets behind those that wait.                                *)
LEMMA CopiedWaits ==
  ASSUME NEW buf \in [1..(2 * Block) -> Octet], NEW x \in Nat, NEW offset \in Nat,
         NEW octets, Continues(octets, x + offset), Waits(buf, offset, x),
         offset + Len(octets) <= 2 * Block
  PROVE  /\ Copied(buf, offset, octets) \in [1..(2 * Block) -> Octet]
         /\ Waits(Copied(buf, offset, octets), offset + Len(octets), x)
<1>1. octets \in Seq(Octet) /\ Len(octets) \in Nat /\ DOMAIN octets = 1..Len(octets)
  BY DEF Continues
<1>2. Copied(buf, offset, octets) =
        [k \in 1..(2 * Block) |-> IF k - offset \in 1..Len(octets) THEN octets[k - offset] ELSE buf[k]]
  BY <1>1 DEF Copied
<1>3. \A k \in 1..Len(octets) : octets[k] \in Octet
  BY <1>1
<1>4. Copied(buf, offset, octets) \in [1..(2 * Block) -> Octet]
  BY <1>2, <1>3
<1>5. ASSUME NEW k \in 1..(offset + Len(octets))
      PROVE  Copied(buf, offset, octets)[k] = <<"input", x + k>>
  <2>1. k \in 1..(2 * Block)
    BY <1>1, BlockIs
  <2>2. CASE k - offset \in 1..Len(octets)
    <3>1. Copied(buf, offset, octets)[k] = octets[k - offset]
      BY <1>2, <2>1, <2>2
    <3>2. (x + offset) + (k - offset) = x + k
      OBVIOUS
    <3> QED BY <2>2, <3>1, <3>2 DEF Continues
  <2>3. CASE k - offset \notin 1..Len(octets)
    <3>1. k \in 1..offset
      BY <1>1, <2>3
    <3> QED BY <1>2, <2>1, <2>3, <3>1 DEF Waits
  <2> QED BY <2>2, <2>3
<1> QED BY <1>4, <1>5 DEF Waits

(* Compressing whole blocks that follow.                                     *)
LEMMA BlocksCompressed ==
  ASSUME NEW ctx, Compressed(ctx), NEW octets, Continues(octets, Len(ctx.absorbed)),
         Len(octets) % Block = 0, Len(octets) < Word
  PROVE  LET r == ProcessBlock(ctx, octets)
         IN  /\ Compressed(r) /\ r.buffer = ctx.buffer /\ r.buflen = ctx.buflen
             /\ Len(r.absorbed) = Len(ctx.absorbed) + Len(octets)
<1> DEFINE r == ProcessBlock(ctx, octets)
           s == ctx.absorbed
<1>1. octets \in Seq(Octet) /\ Len(octets) \in Nat /\ s \in Seq(Octet) /\ Len(s) \in Nat
      /\ ctx \in Contexts
  BY DEF Continues, Compressed, Contexts
<1>2. Holds(Counted(ctx.total, Len(octets)), Len(s) + Len(octets))
  <2>1. Len(octets) \in 0..(Word - 1)
    BY <1>1, BlockIs
  <2> QED BY <1>1, <2>1, CountedIs DEF Compressed
<1>3. Counted(ctx.total, Len(octets)) \in Nat \X Nat
  BY <1>2, BlockIs DEF Holds
<1>4. s \o octets \in Seq(Octet) /\ Len(s \o octets) = Len(s) + Len(octets)
  BY <1>1, ConcatProperties
<1>5. r = [ctx EXCEPT !.absorbed = s \o octets, !.total = Counted(ctx.total, Len(octets))]
  BY DEF ProcessBlock
<1>6. /\ r \in Contexts /\ r.buffer = ctx.buffer /\ r.buflen = ctx.buflen
      /\ r.absorbed = s \o octets /\ r.total = Counted(ctx.total, Len(octets))
  BY <1>1, <1>3, <1>4, <1>5 DEF Contexts
<1>7. Continues(s \o octets, 0)
  <2> SUFFICES ASSUME NEW k \in 1..(Len(s) + Len(octets))
               PROVE  (s \o octets)[k] = <<"input", 0 + k>>
    BY <1>4 DEF Continues
  <2>1. CASE k <= Len(s)
    <3>1. (s \o octets)[k] = s[k] /\ k \in 1..Len(s)
      BY <1>1, <2>1
    <3> QED BY <3>1 DEF Compressed, Continues
  <2>2. CASE k > Len(s)
    <3>1. (s \o octets)[k] = octets[k - Len(s)] /\ k - Len(s) \in 1..Len(octets)
      BY <1>1, <2>2
    <3>2. Len(s) + (k - Len(s)) = 0 + k
      BY <1>1
    <3> QED BY <3>1, <3>2 DEF Continues
  <2> QED BY <1>1, <2>1, <2>2
<1>8. (Len(s) + Len(octets)) % Block = 0
  BY <1>1, BlockIs, SumMod DEF Compressed
<1> HIDE DEF r
<1>9. Compressed(r)
  BY <1>2, <1>4, <1>6, <1>7, <1>8 DEF Compressed
<1> QED BY <1>4, <1>6, <1>9 DEF r

(* n & ~63, for any size of a block.                                         *)
LEMMA WholeIs ==
  ASSUME NEW x \in Nat
  PROVE  /\ Whole(x) \in 0..x /\ Whole(x) % Block = 0
         /\ x - Whole(x) = x % Block /\ x % Block \in 0..(Block - 1)
<1> DEFINE q == x \div Block
           r == x % Block
<1>1. r \in 0..(Block - 1) /\ q \in Nat /\ x = (q * Block) + r
  BY BlockIs, DivMod
<1>2. Whole(x) = x - r
  BY DEF Whole
<1> HIDE DEF q, r
<1>3. q * Block \in Nat /\ Whole(x) = q * Block
  BY <1>1, <1>2, BlockIs
<1>4. ((q * Block) + 0) % Block = 0
  BY <1>1, BlockIs, RemainderIs
<1> QED BY <1>1, <1>2, <1>3, <1>4 DEF r

(* Blocks of which there are less than two, and two.                         *)
LEMMA WholeOfTwo ==
  ASSUME NEW x \in (Block + 1)..(2 * Block)
  PROVE  /\ x < 2 * Block => Whole(x) = Block
         /\ x = 2 * Block => Whole(x) = 2 * Block
<1>1. CASE x < 2 * Block
  <2>1. x - Block \in 0..(Block - 1) /\ x = (x - Block) + Block
    BY <1>1, BlockIs
  <2>2. x % Block = x - Block
    BY <2>1, BlockIs, SmallMod
  <2> QED BY <1>1, <2>1, <2>2, BlockIs DEF Whole
<1>2. CASE x = 2 * Block
  <2>1. Block % Block = 0 /\ x = Block + Block
    BY <1>2, BlockIs, SmallMod
  <2>2. x % Block = 0
    BY <2>1, BlockIs, SumMod
  <2> QED BY <1>2, <2>2, BlockIs DEF Whole
<1> QED BY <1>1, <1>2, BlockIs

(* The first part of md5_process_bytes takes what fits, and leaves the       *)
(* buffer empty if something is left over.                                   *)
LEMMA FillUpTakes ==
  ASSUME NEW ctx, NEW x \in Nat, Took(ctx, x), ctx.buflen # 0,
         NEW octets, Continues(octets, x)
  PROVE  LET add == AddOf(ctx, Len(octets))
         IN  /\ add \in 0..Len(octets) /\ Took(FillUp(ctx, octets), x + add)
             /\ add # Len(octets) => FillUp(ctx, octets).buflen = 0
<1> DEFINE len == Len(octets)
           add == AddOf(ctx, len)
           s == Len(ctx.absorbed)
           first == SubSeq(octets, 1, add)
           buf == Copied(ctx.buffer, ctx.buflen, first)
           filled == ctx.buflen + add
           whole == Whole(filled)
           given == SubSeq(buf, 1, whole)
           left == SubSeq(buf, whole + 1, filled)
           base == [ctx EXCEPT !.buffer = buf]
           after == ProcessBlock(base, given)
<1>1. /\ ctx \in Contexts /\ ctx.buflen \in 1..Block /\ s \in Nat /\ len \in Nat
      /\ ctx.buffer \in [1..(2 * Block) -> Octet] /\ x = s + ctx.buflen
      /\ Compressed(ctx) /\ Waits(ctx.buffer, ctx.buflen, s)
  BY BlockIs DEF Took, Compressed, Contexts, Continues
<1>2. add \in 0..len /\ filled \in 1..(2 * Block) /\ (add # len => filled = 2 * Block)
  BY <1>1, BlockIs DEF AddOf
<1>3. Continues(first, s + ctx.buflen) /\ Len(first) = add
  <2>1. 0 \in 0..add /\ 0 + 1 = 1 /\ x + 0 = x
    BY <1>1, <1>2
  <2>2. add \in Nat /\ add <= Len(octets)
    BY <1>1, <1>2
  <2> HIDE DEF add, s
  <2>3. Continues(SubSeq(octets, 0 + 1, add), x + 0) /\ Len(SubSeq(octets, 0 + 1, add)) = add - 0
    BY <2>1, <2>2, PartContinues
  <2>4. add - 0 = add
    BY <2>2
  <2> QED BY <1>1, <2>1, <2>3, <2>4
<1>4. buf \in [1..(2 * Block) -> Octet] /\ Waits(buf, filled, s)
  <2>1. ctx.buflen \in Nat /\ ctx.buflen + Len(first) <= 2 * Block /\ filled = ctx.buflen + Len(first)
    BY <1>1, <1>2, <1>3, BlockIs
  <2> HIDE DEF first, s, filled
  <2> QED BY <1>1, <1>3, <2>1, CopiedWaits
<1>5. base \in Contexts /\ base.buffer = buf /\ base.buflen = ctx.buflen
      /\ base.absorbed = ctx.absorbed /\ base.total = ctx.total
  BY <1>1, <1>4 DEF Contexts
<1>6. CASE filled > Block
  <2>1. /\ whole \in {Block, 2 * Block} /\ whole \in 0..filled /\ whole % Block = 0
        /\ filled - whole = filled % Block /\ filled % Block \in 0..(Block - 1)
        /\ filled = 2 * Block => filled % Block = 0
    <3>1. filled \in (Block + 1)..(2 * Block) /\ filled \in Nat
      BY <1>2, <1>6, BlockIs
    <3> HIDE DEF filled
    <3>2. /\ whole \in 0..filled /\ whole % Block = 0
          /\ filled - whole = filled % Block /\ filled % Block \in 0..(Block - 1)
      BY <3>1, WholeIs
    <3>3. /\ filled < 2 * Block => whole = Block
          /\ filled = 2 * Block => whole = 2 * Block
      BY <3>1, WholeOfTwo
    <3> HIDE DEF whole
    <3>4. whole \in {Block, 2 * Block}
      BY <3>1, <3>3, BlockIs
    <3>5. filled = 2 * Block => filled % Block = 0
      <4> SUFFICES ASSUME filled = 2 * Block PROVE filled - whole = 0
        BY <3>2
      <4> QED BY <3>3, BlockIs
    <3> QED BY <3>2, <3>4, <3>5
  <2>2. Continues(given, s) /\ Len(given) = whole
    <3>1. Waits(buf, whole, s)
      BY <1>2, <1>4, <2>1, BlockIs DEF Waits
    <3>2. 0 \in 0..whole /\ whole \in 0..(2 * Block) /\ 0 + 1 = 1 /\ s + 0 = s /\ whole - 0 = whole
      BY <1>1, <1>2, <2>1, BlockIs
    <3> HIDE DEF buf, s, whole
    <3> QED BY <1>1, <1>4, <3>1, <3>2, TakenContinues
  <2>3. Continues(left, s + whole) /\ Len(left) = filled - whole
    <3>1. filled \in 0..(2 * Block)
      BY <1>2
    <3>2. whole \in 0..filled /\ s \in Nat
      BY <1>1, <2>1
    <3> HIDE DEF buf, s, whole, filled
    <3> QED BY <1>4, <3>1, <3>2, TakenContinues
  <2>4. /\ Compressed(after) /\ after.buffer = buf /\ after.buflen = ctx.buflen
        /\ Len(after.absorbed) = s + whole
    <3>1. Compressed(base)
      BY <1>1, <1>5 DEF Compressed
    <3>2. Len(given) % Block = 0 /\ Len(given) < Word
      BY <2>1, <2>2, BlockIs
    <3> HIDE DEF base, given
    <3> QED BY <1>5, <2>2, <3>1, <3>2, BlocksCompressed
  <2> DEFINE moved == Copied(buf, 0, left)
             r == [after EXCEPT !.buflen = filled % Block, !.buffer = moved]
  <2>5. moved \in [1..(2 * Block) -> Octet] /\ Waits(moved, filled % Block, s + whole)
    <3>1. Waits(buf, 0, s + whole)
      BY DEF Waits
    <3>2. /\ s + whole \in Nat /\ (s + whole) + 0 = s + whole /\ 0 \in Nat
          /\ 0 + Len(left) <= 2 * Block /\ 0 + Len(left) = filled % Block
      <4>1. Len(left) = filled % Block
        BY <2>1, <2>3
      <4>2. filled % Block \in 0..(Block - 1) /\ s \in Nat /\ whole \in 0..filled /\ filled \in Nat
        BY <1>1, <1>2, <2>1
      <4> HIDE DEF left, filled, s, whole
      <4> DEFINE m == filled % Block
      <4> HIDE DEF m
      <4>3. Len(left) = m /\ m \in 0..(Block - 1)
        BY <4>1, <4>2 DEF m
      <4>4. 0 + Len(left) <= 2 * Block /\ 0 + Len(left) = m
        BY <4>3, BlockIs
      <4> QED BY <4>2, <4>4 DEF m
    <3> HIDE DEF left, buf, filled, s, whole
    <3> QED BY <1>4, <2>3, <3>1, <3>2, CopiedWaits
  <2>6. FillUp(ctx, octets) = r
    BY <1>6 DEF FillUp
  <2>7. /\ r \in Contexts /\ r.buffer = moved /\ r.buflen = filled % Block
        /\ r.absorbed = after.absorbed /\ r.total = after.total
    <3>1. after \in Contexts /\ filled % Block \in 0..Block
      BY <2>1, <2>4, BlockIs DEF Compressed
    <3> HIDE DEF after, moved, filled
    <3> QED BY <2>5, <3>1 DEF Contexts
  <2>8. Compressed(r)
    <3> HIDE DEF after, r
    <3> QED BY <2>4, <2>7 DEF Compressed
  <2>9. x + add = Len(r.absorbed) + r.buflen
    <3>1. Len(r.absorbed) = s + whole
      BY <2>4, <2>7
    <3>2. x + add = s + filled /\ s \in Nat /\ filled \in Nat
      BY <1>1, <1>2
    <3>3. r.buflen = filled - whole /\ whole \in 0..filled
      BY <2>1, <2>7
    <3> HIDE DEF r, whole, s, filled, add
    <3> QED BY <3>1, <3>2, <3>3
  <2>10. Took(r, x + add)
    <3>1. Waits(r.buffer, r.buflen, Len(r.absorbed))
      BY <2>4, <2>5, <2>7
    <3> HIDE DEF r
    <3> QED BY <2>8, <2>9, <3>1 DEF Took
  <2>11. add # len => r.buflen = 0
    BY <1>2, <2>1, <2>7
  <2> QED BY <1>2, <2>6, <2>10, <2>11
<1>7. CASE ~ (filled > Block)
  <2> DEFINE r == [ctx EXCEPT !.buffer = buf, !.buflen = filled]
  <2>1. FillUp(ctx, octets) = r
    BY <1>7 DEF FillUp
  <2>2. add = len /\ filled \in 0..Block
    BY <1>2, <1>7, BlockIs
  <2>3. /\ r \in Contexts /\ r.buffer = buf /\ r.buflen = filled
        /\ r.absorbed = ctx.absorbed /\ r.total = ctx.total
    BY <1>1, <1>4, <2>2 DEF Contexts
  <2>4. Compressed(r)
    BY <1>1, <2>3 DEF Compressed
  <2>5. Took(r, x + add)
    <3>1. x + add = s + filled
      BY <1>1, <1>2
    <3> HIDE DEF r
    <3> QED BY <1>4, <2>3, <2>4, <3>1 DEF Took
  <2> QED BY <1>2, <2>1, <2>2, <2>5
<1> QED BY <1>6, <1>7

(* A positive number of whole blocks is at least one.                        *)
LEMMA OneBlock ==
  ASSUME NEW x \in Nat, x % Block = 0, x # 0
  PROVE  x >= Block
<1>1. ASSUME x < Block PROVE FALSE
  <2>1. x \in 0..(Block - 1)
    BY <1>1, BlockIs
  <2> QED BY <2>1, BlockIs, SmallMod
<1> QED BY <1>1, BlockIs

(* The second part of md5_process_bytes takes whole blocks where they are    *)
(* and leaves one block at most.                                             *)
LEMMA DirectTakes ==
  ASSUME NEW ctx, NEW x \in Nat, Took(ctx, x), ctx.buflen = 0, NEW aligned \in BOOLEAN,
         NEW octets, Continues(octets, x), Len(octets) >= Block, Len(octets) < Word
  PROVE  LET whole == BlocksIn(octets, aligned)
         IN  /\ whole \in 0..Len(octets) /\ Len(octets) - whole <= Block
             /\ Took(Direct(ctx, octets, aligned), x + whole)
             /\ Direct(ctx, octets, aligned).buflen = 0
<1> DEFINE whole == BlocksIn(octets, aligned)
           len == Len(octets)
           given == SubSeq(octets, 1, whole)
           final == SubSeq(octets, whole - Block + 1, whole)
           base == IF aligned \/ whole = 0 THEN ctx
                   ELSE [ctx EXCEPT !.buffer = Copied(ctx.buffer, 0, final)]
           r == ProcessBlock(base, given)
<1>1. /\ ctx \in Contexts /\ ctx.buffer \in [1..(2 * Block) -> Octet]
      /\ Compressed(ctx) /\ x = Len(ctx.absorbed) /\ len \in Nat /\ len # 0
  <2>1. ctx \in Contexts /\ Len(ctx.absorbed) \in Nat /\ len \in Nat
    BY DEF Took, Compressed, Contexts, Continues
  <2> QED BY <2>1, BlockIs DEF Took, Contexts
<1>2. /\ whole \in 0..len /\ len - whole <= Block /\ whole % Block = 0 /\ whole < Word
  <2>1. CASE aligned
    <3>1. whole = Whole(len)
      BY <2>1 DEF BlocksIn
    <3>2. Whole(len) \in 0..len /\ Whole(len) % Block = 0 /\ len - Whole(len) \in 0..(Block - 1)
      BY <1>1, WholeIs
    <3> HIDE DEF whole, len
    <3>3. whole \in 0..len /\ whole % Block = 0 /\ len - whole \in 0..(Block - 1)
      BY <3>1, <3>2
    <3> DEFINE w == whole
    <3>4. w \in 0..len /\ len - w <= Block /\ w < Word
      BY <1>1, <3>3, BlockIs DEF len
    <3> QED BY <3>3, <3>4
  <2>2. CASE ~ aligned
    <3>1. whole = Whole(len - 1)
      BY <2>2 DEF BlocksIn
    <3>2. len - 1 \in Nat
      BY <1>1
    <3>3. /\ Whole(len - 1) \in 0..(len - 1) /\ Whole(len - 1) % Block = 0
          /\ (len - 1) - Whole(len - 1) \in 0..(Block - 1)
      BY <3>2, WholeIs
    <3> HIDE DEF whole, len
    <3>4. whole \in 0..(len - 1) /\ whole % Block = 0 /\ (len - 1) - whole \in 0..(Block - 1)
      BY <3>1, <3>3
    <3>5. whole \in 0..len /\ len - whole <= Block /\ whole < Word
      BY <1>1, <3>4, BlockIs DEF len
    <3> QED BY <3>4, <3>5
  <2> QED BY <2>1, <2>2
<1>3. Continues(given, x) /\ Len(given) = whole
  <2>1. 0 \in 0..whole /\ whole \in Nat /\ whole <= Len(octets)
    BY <1>1, <1>2
  <2> HIDE DEF whole
  <2>2. Continues(SubSeq(octets, 0 + 1, whole), x + 0) /\ Len(SubSeq(octets, 0 + 1, whole)) = whole - 0
    BY <2>1, PartContinues
  <2>3. x + 0 = x /\ whole - 0 = whole /\ 0 + 1 = 1
    BY <2>1
  <2> HIDE DEF given
  <2>4. given = SubSeq(octets, 0 + 1, whole)
    BY <2>3 DEF given
  <2> QED BY <2>2, <2>3, <2>4, Zenon
<1>4. /\ base \in Contexts /\ base.buflen = ctx.buflen
      /\ base.absorbed = ctx.absorbed /\ base.total = ctx.total
  <2>1. CASE aligned \/ whole = 0
    BY <1>1, <2>1
  <2>2. CASE ~ (aligned \/ whole = 0)
    <3>1. whole - Block \in 0..whole
      <4>1. whole >= Block
        BY <1>2, <2>2, OneBlock
      <4> HIDE DEF whole
      <4> QED BY <1>1, <1>2, <4>1, BlockIs
    <3>2. Continues(final, x + (whole - Block)) /\ Len(final) = Block
      <4>1. whole \in Nat /\ whole <= Len(octets) /\ whole - (whole - Block) = Block
        BY <1>1, <1>2, BlockIs
      <4> HIDE DEF whole
      <4> QED BY <3>1, <4>1, PartContinues
    <3>3. Copied(ctx.buffer, 0, final) \in [1..(2 * Block) -> Octet]
      <4> DEFINE y == x + (whole - Block)
      <4>1. y \in Nat /\ y + 0 = y /\ 0 \in Nat /\ 0 + Len(final) <= 2 * Block
        <5>1. Len(final) = Block /\ whole - Block \in Nat
          BY <1>2, <3>1, <3>2
        <5> HIDE DEF final, whole
        <5> QED BY <5>1, BlockIs
      <4>2. Waits(ctx.buffer, 0, y)
        BY DEF Waits
      <4>3. Continues(final, y + 0)
        BY <3>2, <4>1
      <4> HIDE DEF y, final
      <4> QED BY <1>1, <4>1, <4>2, <4>3, CopiedWaits
    <3> HIDE DEF whole, final
    <3> QED BY <1>1, <2>2, <3>3 DEF Contexts
  <2> QED BY <2>1, <2>2
<1>5. Compressed(base)
  <2> HIDE DEF base
  <2> QED BY <1>1, <1>4 DEF Compressed
<1>6. Compressed(r) /\ r.buflen = 0 /\ Len(r.absorbed) = x + whole
  <2> HIDE DEF base, given, whole
  <2> QED BY <1>1, <1>2, <1>3, <1>4, <1>5, BlocksCompressed
<1>7. Direct(ctx, octets, aligned) = r
  BY DEF Direct
<1>8. Took(r, x + whole)
  <2>1. Waits(r.buffer, r.buflen, Len(r.absorbed))
    <3> HIDE DEF r
    <3> QED BY <1>6 DEF Waits
  <2>2. x + whole = Len(r.absorbed) + r.buflen
    <3>1. x + whole \in Nat
      BY <1>2
    <3> HIDE DEF r, whole
    <3> QED BY <1>6, <3>1
  <2> HIDE DEF r
  <2> QED BY <1>6, <2>1, <2>2 DEF Took
<1> HIDE DEF r
<1> QED BY <1>2, <1>6, <1>7, <1>8

(* The last part of md5_process_bytes takes a block at most into the empty   *)
(* buffer.                                                                   *)
LEMMA KeepTakes ==
  ASSUME NEW ctx, NEW x \in Nat, Took(ctx, x), ctx.buflen = 0,
         NEW octets, Continues(octets, x), Len(octets) <= Block
  PROVE  Took(Keep(ctx, octets), x + Len(octets))
<1> DEFINE len == Len(octets)
           buf == Copied(ctx.buffer, ctx.buflen, octets)
<1>1. /\ ctx \in Contexts /\ ctx.buffer \in [1..(2 * Block) -> Octet]
      /\ Compressed(ctx) /\ x = Len(ctx.absorbed) /\ len \in Nat
  <2>1. ctx \in Contexts /\ Len(ctx.absorbed) \in Nat /\ len \in Nat
    BY DEF Took, Compressed, Contexts, Continues
  <2> QED BY <2>1 DEF Took, Contexts
<1>2. buf \in [1..(2 * Block) -> Octet] /\ Waits(buf, len, x)
  <2>1. Waits(ctx.buffer, 0, x) /\ x + 0 = x /\ 0 + len = len /\ len <= 2 * Block /\ 0 \in Nat
    BY <1>1, BlockIs DEF Waits
  <2>2. /\ Copied(ctx.buffer, 0, octets) \in [1..(2 * Block) -> Octet]
        /\ Waits(Copied(ctx.buffer, 0, octets), 0 + Len(octets), x)
    BY <1>1, <2>1, CopiedWaits
  <2> QED BY <2>1, <2>2
<1>3. CASE len >= Block
  <2>1. len = Block /\ ctx.buflen + Len(octets) = Block
    BY <1>1, <1>3, BlockIs
  <2> DEFINE given == SubSeq(buf, 1, Block)
             left == SubSeq(buf, Block + 1, Block)
             p == ProcessBlock(ctx, given)
             moved == Copied(buf, 0, left)
             r == [p EXCEPT !.buffer = moved, !.buflen = 0]
  <2>2. Keep(ctx, octets) = r
    <3>1. Block - Block = 0 /\ Block >= Block
      BY BlockIs
    <3> QED BY <2>1, <3>1 DEF Keep
  <2>3. Continues(given, x) /\ Len(given) = Block
    <3>1. 0 \in 0..Block /\ Block \in 0..(2 * Block) /\ x + 0 = x /\ Block - 0 = Block /\ 0 + 1 = 1
          /\ Waits(buf, Block, x)
      BY <1>2, <2>1, BlockIs
    <3> HIDE DEF buf
    <3>2. Continues(SubSeq(buf, 0 + 1, Block), x + 0) /\ Len(SubSeq(buf, 0 + 1, Block)) = Block - 0
      BY <1>2, <3>1, TakenContinues
    <3> QED BY <3>1, <3>2
  <2>4. Compressed(p) /\ Len(p.absorbed) = x + Block
    <3>1. Block % Block = 0 /\ Block < Word
      BY BlockIs, SmallMod
    <3> HIDE DEF given
    <3> QED BY <1>1, <2>3, <3>1, BlocksCompressed
  <2>5. moved \in [1..(2 * Block) -> Octet]
    <3>1. Block \in 0..Block /\ Block \in 0..(2 * Block) /\ Waits(buf, Block, x) /\ x + Block \in Nat
      BY <1>2, <2>1, BlockIs
    <3> HIDE DEF buf
    <3>2. Continues(left, x + Block) /\ Len(left) = Block - Block
      BY <1>2, <3>1, TakenContinues
    <3>3. (x + Block) + 0 = x + Block /\ 0 + Len(left) <= 2 * Block /\ 0 \in Nat
      BY <3>1, <3>2, BlockIs
    <3>4. Waits(buf, 0, x + Block)
      BY DEF Waits
    <3>5. Continues(left, (x + Block) + 0)
      BY <3>2, <3>3
    <3> HIDE DEF left
    <3> QED BY <1>2, <3>1, <3>3, <3>4, <3>5, CopiedWaits
  <2>6. /\ r \in Contexts /\ r.buffer = moved /\ r.buflen = 0
        /\ r.absorbed = p.absorbed /\ r.total = p.total
    <3>1. p \in Contexts /\ 0 \in 0..Block
      BY <2>4, BlockIs DEF Compressed
    <3> HIDE DEF p, moved
    <3> QED BY <2>5, <3>1 DEF Contexts
  <2> HIDE DEF r, p
  <2>7. Compressed(r)
    BY <2>4, <2>6 DEF Compressed
  <2>8. Waits(r.buffer, r.buflen, Len(r.absorbed)) /\ x + len = Len(r.absorbed) + r.buflen
    BY <1>1, <2>1, <2>4, <2>6, BlockIs DEF Waits
  <2> QED BY <2>2, <2>7, <2>8 DEF Took
<1>4. CASE ~ (len >= Block)
  <2> DEFINE r == [ctx EXCEPT !.buffer = buf, !.buflen = len]
  <2>1. Keep(ctx, octets) = r
    <3>1. ctx.buflen + Len(octets) = len
      BY <1>1
    <3> QED BY <1>4, <3>1 DEF Keep
  <2>2. /\ r \in Contexts /\ r.buffer = buf /\ r.buflen = len
        /\ r.absorbed = ctx.absorbed /\ r.total = ctx.total
    <3>1. len \in 0..Block
      BY <1>1, <1>4, BlockIs
    <3> HIDE DEF buf, len
    <3> QED BY <1>1, <1>2, <3>1 DEF Contexts
  <2> HIDE DEF r
  <2>3. Compressed(r)
    BY <1>1, <2>2 DEF Compressed
  <2>4. Waits(r.buffer, r.buflen, Len(r.absorbed)) /\ x + len = Len(r.absorbed) + r.buflen
    BY <1>1, <1>2, <2>2
  <2> QED BY <2>1, <2>3, <2>4 DEF Took
<1> QED BY <1>3, <1>4

(* md5_process_bytes takes all it is given, whatever its length and place.   *)
LEMMA ProcessBytesTakes ==
  ASSUME NEW ctx, NEW x \in Nat, Took(ctx, x), NEW aligned \in BOOLEAN,
         NEW octets, Continues(octets, x), Len(octets) < Word
  PROVE  Took(ProcessBytes(ctx, octets, aligned), x + Len(octets))
<1> DEFINE len == Len(octets)
           add == IF ctx.buflen # 0 THEN AddOf(ctx, len) ELSE 0
           first == IF ctx.buflen # 0 THEN FillUp(ctx, octets) ELSE ctx
           rest == SubSeq(octets, add + 1, len)
           direct == Len(rest) >= Block
           blocks == BlocksIn(rest, aligned)
           second == IF direct THEN Direct(first, rest, aligned) ELSE first
           final == IF direct THEN SubSeq(rest, blocks + 1, Len(rest)) ELSE rest
<1>0. len \in Nat
  BY DEF Continues
<1>1. /\ add \in 0..len /\ Took(first, x + add) /\ (add # len => first.buflen = 0)
  <2>1. CASE ctx.buflen # 0
    <3>1. add = AddOf(ctx, Len(octets)) /\ first = FillUp(ctx, octets)
      BY <2>1
    <3> HIDE DEF add, first
    <3> QED BY <2>1, <3>1, FillUpTakes
  <2>2. CASE ctx.buflen = 0
    BY <1>0, <2>2
  <2> QED BY <2>1, <2>2
<1> HIDE DEF add, first
<1>2. Continues(rest, x + add) /\ Len(rest) = len - add /\ x + add \in Nat
  BY <1>0, <1>1, PartContinues
<1>3. ProcessBytes(ctx, octets, aligned) = IF final = <<>> THEN second ELSE Keep(second, final)
  BY DEF ProcessBytes, add, first
<1> HIDE DEF rest
<1>4. CASE add = len
  <2>1. Len(rest) = 0 /\ rest = <<>>
    <3>1. Len(rest) = 0 /\ rest \in Seq(Octet)
      BY <1>0, <1>2, <1>4 DEF Continues
    <3> QED BY <3>1
  <2>2. ~ direct
    BY <2>1, BlockIs
  <2> QED BY <1>1, <1>3, <1>4, <2>1, <2>2
<1>5. CASE add # len
  <2> DEFINE y == x + add
  <2>1. Took(first, y) /\ first.buflen = 0 /\ Continues(rest, y) /\ Len(rest) \in Nat
        /\ y \in Nat /\ Len(rest) < Word /\ y + Len(rest) = x + len
    BY <1>0, <1>1, <1>2, <1>5, BlockIs
  <2> HIDE DEF y
  <2>2. CASE direct
    <3>1. /\ blocks \in 0..Len(rest) /\ Len(rest) - blocks <= Block
          /\ Took(second, y + blocks) /\ second.buflen = 0
      BY <2>1, <2>2, DirectTakes
    <3> HIDE DEF second, blocks
    <3>2. Continues(final, y + blocks) /\ Len(final) = Len(rest) - blocks
      BY <2>1, <2>2, <3>1, PartContinues
    <3>3. y + blocks \in Nat /\ Len(final) <= Block /\ (y + blocks) + Len(final) = x + len
      <4> HIDE DEF final
      <4> QED BY <1>0, <2>1, <3>1, <3>2, BlockIs
    <3>4. Took(Keep(second, final), x + len)
      <4> HIDE DEF final
      <4>1. Took(Keep(second, final), (y + blocks) + Len(final))
        BY <3>1, <3>2, <3>3, KeepTakes
      <4> QED BY <3>3, <4>1
    <3>5. CASE final = <<>>
      <4>1. Len(final) = 0
        BY <3>5
      <4>2. y + blocks = x + len
        <5> HIDE DEF final
        <5> QED BY <2>1, <3>1, <3>3, <4>1
      <4> QED BY <1>3, <3>1, <3>5, <4>2
    <3> QED BY <1>3, <3>4, <3>5
  <2>3. CASE ~ direct
    <3>1. second = first /\ final = rest /\ Len(rest) <= Block
      BY <2>1, <2>3, BlockIs
    <3>2. rest # <<>>
      <4>1. Len(rest) # 0
        BY <1>0, <1>1, <1>2, <1>5
      <4> QED BY <4>1
    <3>3. Took(Keep(first, rest), y + Len(rest))
      BY <2>1, <3>1, KeepTakes
    <3> QED BY <1>3, <2>1, <3>1, <3>2, <3>3
  <2> QED BY <2>2, <2>3
<1> QED BY <1>4, <1>5

(* Eight times a number of two words, word by word: the high word takes the  *)
(* three bits that the low one loses.                                        *)
LEMMA BitsAre ==
  ASSUME NEW w \in Nat \ {0}, w % 8 = 0, NEW x \in Nat,
         NEW lo \in 0..(w - 1), NEW hi \in 0..(w - 1), lo + (w * hi) = x % (w * w)
  PROVE  ((lo * 8) % w) + (w * (((hi * 8) % w) + (lo \div (w \div 8)))) = (8 * x) % (w * w)
<1> DEFINE v == w \div 8
           q == lo \div v
           r == lo % v
           p == hi \div v
           s == hi % v
           D == w * w
           m == x \div D
<1>1. v \in Nat \ {0} /\ w = 8 * v
  BY DivMod
<1> HIDE DEF v
<1>2. /\ q \in Nat /\ r \in 0..(v - 1) /\ lo = (q * v) + r
      /\ p \in Nat /\ s \in 0..(v - 1) /\ hi = (p * v) + s
  <2>1. lo \in Nat /\ hi \in Nat
    OBVIOUS
  <2>2. lo % v \in 0..(v - 1) /\ lo \div v \in Nat /\ lo = ((lo \div v) * v) + (lo % v)
    BY <1>1, <2>1, DivMod
  <2>3. hi % v \in 0..(v - 1) /\ hi \div v \in Nat /\ hi = ((hi \div v) * v) + (hi % v)
    BY <1>1, <2>1, DivMod
  <2> QED BY <2>2, <2>3
<1>d. D \in Nat \ {0}
  BY TwoWords
<1>m. m \in Nat /\ x = (m * D) + (lo + (w * hi))
  BY <1>d, DivMod
<1> HIDE DEF q, r, p, s, m
<1>3. lo * 8 = (q * w) + (8 * r) /\ hi * 8 = (p * w) + (8 * s)
  BY <1>1, <1>2
<1>4. 8 * r \in 0..(w - 1) /\ 8 * s \in 0..(w - 8)
  BY <1>1, <1>2
<1>5. (lo * 8) % w = 8 * r /\ (hi * 8) % w = 8 * s
  <2>1. 8 * s \in 0..(w - 1)
    BY <1>4
  <2> DEFINE r8 == 8 * r
             s8 == 8 * s
  <2>2. r8 \in 0..(w - 1) /\ s8 \in 0..(w - 1) /\ q \in Nat /\ p \in Nat
        /\ lo * 8 = (q * w) + r8 /\ hi * 8 = (p * w) + s8
    BY <1>2, <1>3, <1>4, <2>1
  <2> HIDE DEF r8, s8
  <2>3. ((q * w) + r8) % w = r8 /\ ((p * w) + s8) % w = s8
    BY <2>2, RemainderIs
  <2>4. (lo * 8) % w = r8 /\ (hi * 8) % w = s8
    BY <2>2, <2>3
  <2> QED BY <2>4 DEF r8, s8
<1>6. q \in 0..7
  <2>1. q * v < 8 * v
    BY <1>1, <1>2
  <2>2. ASSUME q >= 8 PROVE FALSE
    <3>1. \A a \in Nat, b \in Nat : a <= b => a * v <= b * v
      BY <1>1
    <3>2. 8 * v <= q * v
      BY <1>2, <2>2, <3>1
    <3> QED BY <1>1, <1>2, <2>1, <3>2
  <2> QED BY <1>2, <2>2
<1> DEFINE low == 8 * r
           high == (8 * s) + q
<1>7. low \in 0..(w - 1) /\ high \in 0..(w - 1)
  BY <1>4, <1>6, <1>1
<1>8. low + (w * high) \in 0..(D - 1)
  <2> HIDE DEF low, high
  <2> QED BY <1>7, TwoWords
<1>9. 8 * x = (((8 * m) + p) * D) + (low + (w * high))
  <2> DEFINE wh == w * hi
             md == m * D
  <2>1. 8 * wh = (p * D) + (w * (8 * s))
    <3>1. 8 * wh = w * (hi * 8)
      OBVIOUS
    <3>2. w * ((p * w) + (8 * s)) = (w * (p * w)) + (w * (8 * s))
      BY <1>2
    <3>3. w * (p * w) = p * D
      BY <1>2
    <3> QED BY <1>3, <3>1, <3>2, <3>3
  <2>2. 8 * lo = (w * q) + low
    <3>1. q * w = w * q /\ 8 * lo = lo * 8
      BY <1>2
    <3> QED BY <1>3, <3>1
  <2>3. w * high = (w * (8 * s)) + (w * q)
    BY <1>2
  <2>4. ((8 * m) + p) * D = (8 * md) + (p * D)
    <3> HIDE DEF D
    <3> QED BY <1>2, <1>m, <1>d
  <2>5. /\ wh \in Nat /\ md \in Nat /\ p * D \in Nat /\ w * (8 * s) \in Nat /\ w * q \in Nat
        /\ low \in Nat /\ w * high \in Nat
    BY <1>2, <1>d, <1>m, <1>7
  <2>6. x = md + (lo + wh)
    BY <1>m
  <2>7. 8 * x = (8 * md) + ((8 * lo) + (8 * wh))
    <3> HIDE DEF md, wh
    <3> QED BY <2>5, <2>6
  <2> DEFINE a == p * D
             b == w * (8 * s)
             c == w * q
             e == w * high
             f == ((8 * m) + p) * D
  <2>8. 8 * wh = a + b /\ 8 * lo = c + low /\ e = b + c /\ f = (8 * md) + a
    BY <2>1, <2>2, <2>3, <2>4
  <2>9. 8 * x = f + (low + e)
    <3>1. a \in Nat /\ b \in Nat /\ c \in Nat /\ low \in Nat /\ md \in Nat
      BY <2>5
    <3> HIDE DEF a, b, c, e, f, md, wh, low
    <3> QED BY <2>7, <2>8, <3>1
  <2> QED BY <2>9
<1>10. (8 * x) % D = low + (w * high)
  <2>1. (8 * m) + p \in Nat
    BY <1>2, <1>m
  <2> HIDE DEF D, low, high
  <2> QED BY <1>8, <1>9, <1>d, <2>1, RemainderIs
<1>11. lo \div (w \div 8) = q
  BY DEF q, v
<1> HIDE DEF D
<1> QED BY <1>5, <1>10, <1>11, Zenon DEF D

(* Where the octets of a memcpy are.                                         *)
LEMMA CopiedIs ==
  ASSUME NEW buf \in [1..(2 * Block) -> Octet], NEW offset \in Nat, NEW octets \in Seq(Octet),
         offset + Len(octets) <= 2 * Block
  PROVE  /\ Copied(buf, offset, octets) \in [1..(2 * Block) -> Octet]
         /\ \A k \in 1..offset : Copied(buf, offset, octets)[k] = buf[k]
         /\ \A k \in 1..Len(octets) : Copied(buf, offset, octets)[offset + k] = octets[k]
<1>1. Len(octets) \in Nat /\ DOMAIN octets = 1..Len(octets)
  OBVIOUS
<1>2. Copied(buf, offset, octets) =
        [k \in 1..(2 * Block) |-> IF k - offset \in 1..Len(octets) THEN octets[k - offset] ELSE buf[k]]
  BY <1>1 DEF Copied
<1>3. Copied(buf, offset, octets) \in [1..(2 * Block) -> Octet]
  <2>1. \A k \in 1..Len(octets) : octets[k] \in Octet
    OBVIOUS
  <2> QED BY <1>2, <2>1
<1>4. ASSUME NEW k \in 1..offset PROVE Copied(buf, offset, octets)[k] = buf[k]
  <2>1. k \in 1..(2 * Block) /\ k - offset \notin 1..Len(octets)
    BY <1>1, BlockIs
  <2> QED BY <1>2, <2>1
<1>5. ASSUME NEW k \in 1..Len(octets) PROVE Copied(buf, offset, octets)[offset + k] = octets[k]
  <2>1. offset + k \in 1..(2 * Block) /\ (offset + k) - offset = k
    BY <1>1, BlockIs
  <2> QED BY <1>2, <2>1
<1> QED BY <1>3, <1>4, <1>5

(* The padding and the length field, in octets.                              *)
LEMMA PaddingIs ==
  ASSUME NEW pad \in Nat, NEW t, NEW x \in Nat, Holds(t, x)
  PROVE  /\ FillBuf(pad) \in Seq(Octet) /\ Len(FillBuf(pad)) = pad
         /\ LengthField(t) \in Seq(Octet) /\ Len(LengthField(t)) = Field
         /\ LengthField(t)[Field] = <<"bits", (t[1] * 8) % Word,
                                      ((t[2] * 8) % Word) + (t[1] \div (Word \div 8))>>
<1>f. Field \in Nat /\ Field \in 1..Field
  BY Md5Constants
<1>1. PadOne \in Octet /\ PadZero \in Octet /\ <<"bits">> \in Octet
  BY DEF PadOne, PadZero, Octet
<1>2. FillBuf(pad) \in Seq(Octet) /\ Len(FillBuf(pad)) = pad
  BY <1>1 DEF FillBuf
<1> DEFINE a == (t[1] * 8) % Word
           b == ((t[2] * 8) % Word) + (t[1] \div (Word \div 8))
<1>3. a \in Nat /\ b \in Nat
  <2>1. t[1] \in Nat /\ t[2] \in Nat /\ Word \in Nat \ {0}
    BY BlockIs DEF Holds
  <2>2. Word \div 8 \in Nat \ {0}
    <3>1. Word % 8 = 0
      BY Md5Constants
    <3> QED BY <2>1, <3>1
  <2>3. (t[1] * 8) % Word \in Nat /\ (t[2] * 8) % Word \in Nat
    <3>1. \A u \in Nat : u % Word \in Nat
      BY <2>1, DivMod
    <3>2. t[1] * 8 \in Nat /\ t[2] * 8 \in Nat
      BY <2>1
    <3> QED BY <3>1, <3>2
  <2>4. t[1] \div (Word \div 8) \in Nat
    BY <2>1, <2>2, DivMod
  <2> QED BY <2>3, <2>4
<1>4. LengthField(t) = [k \in 1..Field |-> IF k = Field THEN <<"bits", a, b>> ELSE <<"bits">>]
  BY DEF LengthField
<1> HIDE DEF a, b
<1>5. <<"bits", a, b>> \in Octet
  BY <1>3 DEF Octet
<1>6. LengthField(t) \in Seq(Octet) /\ Len(LengthField(t)) = Field
      /\ LengthField(t)[Field] = <<"bits", a, b>>
  BY <1>f, <1>1, <1>4, <1>5
<1> QED BY <1>2, <1>6 DEF a, b

(* The padding fills one block, or what is waiting and one block more.       *)
LEMMA PadIs ==
  ASSUME NEW b \in 0..Block
  PROVE  Pad(b) \in 1..Block /\ (b + Pad(b)) + Field \in {Block, 2 * Block}
<1>1. Field \in 1..(Block - 1)
  BY Md5Constants
<1> QED BY <1>1, BlockIs DEF Pad

(* md5_finish_ctx appends the padding and the length of what was taken.      *)
LEMMA FinishPads ==
  ASSUME NEW ctx, NEW x \in Nat, Took(ctx, x)
  PROVE  LET m == FinishCtx(ctx).absorbed
             p == Pad(ctx.buflen)
             t == Counted(ctx.total, ctx.buflen)
         IN  /\ m \in Seq(Octet) /\ Len(m) = (x + p) + Field
             /\ p \in 1..Block /\ Len(m) % Block = 0
             /\ \A k \in 1..x : m[k] = <<"input", k>>
             /\ \A k \in 1..p : m[x + k] = FillBuf(p)[k]
             /\ Holds(t, x) /\ m[Len(m)] = LengthField(t)[Field]
<1> DEFINE s == ctx.absorbed
           b == ctx.buflen
           p == Pad(b)
           t == Counted(ctx.total, b)
           fill == FillBuf(p)
           bits == LengthField(t)
           tail == fill \o bits
           buf == Copied(ctx.buffer, b, tail)
           len == (b + p) + Field
           given == SubSeq(buf, 1, len)
           m == s \o given
<1>1. /\ ctx \in Contexts /\ ctx.buffer \in [1..(2 * Block) -> Octet] /\ b \in 0..Block
      /\ s \in Seq(Octet) /\ Len(s) \in Nat /\ x = Len(s) + b /\ Len(s) % Block = 0
      /\ Waits(ctx.buffer, b, Len(s)) /\ Continues(s, 0) /\ Holds(ctx.total, Len(s))
  BY DEF Took, Compressed, Contexts
<1>2. p \in 1..Block /\ len \in {Block, 2 * Block} /\ Field \in Nat \ {0}
  <2>1. Field \in Nat \ {0}
    BY Md5Constants
  <2> HIDE DEF b
  <2>2. Pad(b) \in 1..Block /\ (b + Pad(b)) + Field \in {Block, 2 * Block}
    BY <1>1, PadIs
  <2> QED BY <2>1, <2>2
<1>3. Holds(t, x)
  <2>1. b \in 0..(Word - 1)
    BY <1>1, BlockIs
  <2> HIDE DEF b
  <2> QED BY <1>1, <2>1, CountedIs
<1>4. FinishCtx(ctx).absorbed = m
  <2>1. [ctx EXCEPT !.total = t].absorbed = s /\ [ctx EXCEPT !.total = t] \in [buffer : {ctx.buffer},
          buflen : {b}, total : {t}, absorbed : {s}]
    BY <1>1 DEF Contexts
  <2> DEFINE ctx2 == [ctx EXCEPT !.total = t]
  <2>2. FinishCtx(ctx) = ProcessBlock(ctx2, given)
    BY DEF FinishCtx
  <2> HIDE DEF ctx2, given
  <2>3. ProcessBlock(ctx2, given).absorbed = ctx2.absorbed \o given
    <3>1. ctx2 \in [buffer : {ctx.buffer}, buflen : {b}, total : {t}, absorbed : {s}]
      BY <2>1 DEF ctx2
    <3> QED BY <3>1 DEF ProcessBlock
  <2> QED BY <2>1, <2>2, <2>3 DEF ctx2
<1>5. /\ fill \in Seq(Octet) /\ Len(fill) = p /\ bits \in Seq(Octet) /\ Len(bits) = Field
      /\ p \in Nat /\ b \in Nat
  <2>1. p \in Nat /\ b \in Nat
    BY <1>1, <1>2, BlockIs
  <2> HIDE DEF p, t
  <2> QED BY <1>3, <2>1, PaddingIs
<1>6. tail \in Seq(Octet) /\ Len(tail) = p + Field
  <2> HIDE DEF fill, bits, p
  <2> QED BY <1>5, ConcatProperties
<1>7. /\ \A k \in 1..p : tail[k] = fill[k]
      /\ tail[p + Field] = bits[Field]
  <2> HIDE DEF fill, bits, p
  <2> QED BY <1>2, <1>5
<1> HIDE DEF tail, fill, bits
<1>8. /\ buf \in [1..(2 * Block) -> Octet]
      /\ \A k \in 1..b : buf[k] = ctx.buffer[k]
      /\ \A k \in 1..Len(tail) : buf[b + k] = tail[k]
  <2>1. b + Len(tail) <= 2 * Block
    <3> HIDE DEF b, p
    <3> QED BY <1>1, <1>2, <1>5, <1>6, BlockIs
  <2>2. ctx.buffer \in [1..(2 * Block) -> Octet] /\ b \in Nat /\ tail \in Seq(Octet)
    BY <1>1, <1>5, <1>6
  <2> DEFINE initial == ctx.buffer
  <2> HIDE DEF b, initial
  <2>3. /\ Copied(initial, b, tail) \in [1..(2 * Block) -> Octet]
        /\ \A k \in 1..b : Copied(initial, b, tail)[k] = initial[k]
        /\ \A k \in 1..Len(tail) : Copied(initial, b, tail)[b + k] = tail[k]
    BY <2>1, <2>2, CopiedIs DEF initial
  <2> QED BY <2>3 DEF initial
<1>9. /\ given \in Seq(Octet) /\ Len(given) = len
      /\ \A k \in 1..len : given[k] = buf[k]
  <2>1. buf \in Seq(Octet) /\ Len(buf) = 2 * Block
    BY <1>8, BlockIs
  <2>2. len \in Nat /\ len <= 2 * Block
    BY <1>2, BlockIs
  <2> HIDE DEF buf, len
  <2> QED BY <2>1, <2>2
<1> HIDE DEF given, buf
<1>10. m \in Seq(Octet) /\ Len(m) = Len(s) + len
  <2> HIDE DEF s, len
  <2> QED BY <1>1, <1>9, ConcatProperties
<1>11. \A k \in 1..Len(s) : m[k] = s[k]
  BY <1>1, <1>9, ConcatProperties
<1>12. \A k \in 1..len : m[Len(s) + k] = given[k]
  <2>1. len \in Nat
    BY <1>2, BlockIs
  <2> SUFFICES ASSUME NEW k \in 1..len PROVE m[Len(s) + k] = given[k]
    OBVIOUS
  <2> HIDE DEF s, len
  <2>2. Len(s) + k \in (Len(s) + 1)..(Len(s) + Len(given)) /\ (Len(s) + k) - Len(s) = k
    BY <1>1, <1>9, <2>1
  <2> QED BY <1>1, <1>9, <2>1, <2>2
<1> HIDE DEF m
<1>13. Len(m) = (x + p) + Field /\ Len(m) % Block = 0
  <2>1. Len(m) = (x + p) + Field
    <3> HIDE DEF s, b, p
    <3> QED BY <1>1, <1>2, <1>5, <1>10
  <2>2. len % Block = 0 /\ len \in Nat
    <3>1. Block % Block = 0 /\ Block \in Nat
      BY BlockIs, SmallMod
    <3>2. (Block + Block) % Block = 0 /\ 2 * Block = Block + Block
      BY <3>1, BlockIs, SumMod
    <3> HIDE DEF len
    <3> QED BY <1>2, <3>1, <3>2
  <2>3. (Len(s) + len) % Block = 0
    <3> HIDE DEF len, s
    <3> QED BY <1>1, <2>2, BlockIs, SumMod
  <2> QED BY <1>10, <2>1, <2>3
<1>14. ASSUME NEW k \in 1..x PROVE m[k] = <<"input", k>>
  <2>1. CASE k <= Len(s)
    <3>1. k \in 1..Len(s) /\ 0 + k = k
      BY <1>1, <2>1
    <3>2. s[k] = <<"input", 0 + k>>
      BY <1>1, <3>1 DEF Continues
    <3> QED BY <1>11, <3>1, <3>2
  <2>2. CASE k > Len(s)
    <3> DEFINE j == k - Len(s)
    <3>1. j \in 1..b /\ j \in 1..len /\ Len(s) + j = k
      <4> HIDE DEF s, b, p
      <4> QED BY <1>1, <1>2, <1>5, <2>2
    <3> HIDE DEF j
    <3>2. m[k] = given[j] /\ given[j] = buf[j] /\ buf[j] = ctx.buffer[j]
      BY <1>8, <1>9, <1>12, <3>1
    <3>3. ctx.buffer[j] = <<"input", Len(s) + j>>
      BY <1>1, <3>1 DEF Waits
    <3> QED BY <3>1, <3>2, <3>3
  <2> QED BY <1>1, <2>1, <2>2
<1>15. ASSUME NEW k \in 1..p PROVE m[x + k] = fill[k]
  <2>1. k \in 1..Len(tail) /\ b + k \in 1..len /\ Len(s) + (b + k) = x + k
    <3> HIDE DEF s, b, p
    <3> QED BY <1>1, <1>2, <1>5, <1>6
  <2>2. m[x + k] = given[b + k] /\ given[b + k] = buf[b + k] /\ buf[b + k] = tail[k]
    BY <1>8, <1>9, <1>12, <2>1
  <2> QED BY <1>7, <2>2
<1>16. m[Len(m)] = bits[Field]
  <2>1. p + Field \in 1..Len(tail) /\ b + (p + Field) = len /\ len \in 1..len /\ Len(m) = Len(s) + len
    <3> HIDE DEF s, b, p
    <3> QED BY <1>1, <1>2, <1>5, <1>6, <1>10
  <2>2. m[Len(m)] = given[len] /\ given[len] = buf[len] /\ buf[len] = tail[p + Field]
    <3> HIDE DEF len
    <3> QED BY <1>8, <1>9, <1>12, <2>1
  <2> QED BY <1>7, <2>2
<1> HIDE DEF p, b, t, len
<1> QED BY <1>2, <1>3, <1>4, <1>10, <1>13, <1>14, <1>15, <1>16 DEF p, b, t, fill, bits

(* The inductive invariant: between the steps the context has taken what was *)
(* fed, up to what md5_stream holds back, and md5_stream never leaves        *)
(* anything in the context's buffer.                                         *)
Md5Inv ==
  /\ phase \in {"bytes", "stream", "partial", "finish", "done", "error"}
  /\ fed \in Nat /\ sum \in 0..fed /\ sum < BlockSize
  /\ phase \in {"bytes", "finish"} => sum = 0
  /\ phase \in {"stream", "partial", "error"} => buflen = 0
  /\ IF phase = "done" THEN PaddedMessage ELSE Took(Context, fed - sum)

(* The octets of the input from one place on.                                *)
LEMMA InputContinues ==
  ASSUME NEW x \in Nat, NEW len \in Nat
  PROVE  /\ Continues(InputOctets(x + 1, x + len), x)
         /\ Len(InputOctets(x + 1, x + len)) = len
<1>1. InputOctets(x + 1, x + len) = [k \in 1..len |-> <<"input", x + k>>]
  <2>1. (x + len) - (x + 1) + 1 = len /\ \A k \in 1..len : ((x + 1) + k) - 1 = x + k
    OBVIOUS
  <2> QED BY <2>1 DEF InputOctets
<1>2. \A k \in 1..len : <<"input", x + k>> \in Octet
  BY DEF Octet
<1>3. [k \in 1..len |-> <<"input", x + k>>] \in Seq(Octet)
  BY <1>2
<1> DEFINE octets == InputOctets(x + 1, x + len)
<1>4. octets \in Seq(Octet) /\ Len(octets) = len /\ \A k \in 1..len : octets[k] = <<"input", x + k>>
  <2>1. octets = [k \in 1..len |-> <<"input", x + k>>]
    BY <1>1
  <2>2. octets \in Seq(Octet)
    BY <1>3, <2>1
  <2>3. DOMAIN octets = 1..len /\ \A k \in 1..len : octets[k] = <<"input", x + k>>
    BY <2>1
  <2> HIDE DEF octets
  <2>4. Len(octets) = len
    <3>1. Len(octets) \in Nat /\ DOMAIN octets = 1..Len(octets)
      BY <2>2
    <3> QED BY <2>3, <3>1
  <2> QED BY <2>2, <2>3, <2>4
<1> HIDE DEF octets
<1>5. Continues(octets, x)
  BY <1>4 DEF Continues
<1> QED BY <1>4, <1>5 DEF octets

(* A step that makes the context what it says.                               *)
LEMMA ContextBecomes ==
  ASSUME NEW ctx \in Contexts, Becomes(ctx)
  PROVE  Context' = ctx
<1>1. ctx = [buffer |-> ctx.buffer, buflen |-> ctx.buflen, total |-> ctx.total,
             absorbed |-> ctx.absorbed]
  BY DEF Contexts
<1>2. Context' = [buffer |-> buffer', buflen |-> buflen', total |-> total',
                  absorbed |-> absorbed']
  BY DEF Context
<1> QED BY <1>1, <1>2 DEF Becomes

(* An initialised context has taken nothing, and counted nothing.            *)
LEMMA Md5InvInit == Md5Init => Md5Inv
<1> SUFFICES ASSUME Md5Init PROVE Md5Inv
  OBVIOUS
<1>1. Junk \in Octet /\ BlockSize \in Nat \ {0}
  BY Md5Constants DEF Junk, Octet
<1>2. Context \in Contexts
  BY <1>1, BlockIs, EmptySeq DEF Md5Init, Context, Contexts
<1>3. Holds(<<0, 0>>, 0) /\ 0 % Block = 0
  <2>1. 0 + (Word * 0) = 0 /\ Word * Word \in Nat \ {0} /\ 0 \in 0..(Word - 1)
    BY BlockIs
  <2>2. 0 % (Word * Word) = 0 /\ 0 % Block = 0
    BY <2>1, BlockIs, SmallMod
  <2> QED BY <2>1, <2>2 DEF Holds
<1>4. Took(Context, 0)
  <2>1. Context.absorbed = <<>> /\ Context.total = <<0, 0>> /\ Context.buflen = 0
    BY DEF Context, Md5Init
  <2>2. Continues(<<>>, 0)
    BY EmptySeq DEF Continues
  <2> HIDE DEF Context
  <2> QED BY <1>2, <1>3, <2>1, <2>2 DEF Took, Compressed, Waits
<1> QED BY <1>1, <1>4 DEF Md5Init, Md5Inv

(* Every piece, every read and the end keep it.                              *)
LEMMA Md5InvStep == Md5Inv /\ [Md5Next]_md5Vars => Md5Inv'
<1> SUFFICES ASSUME Md5Inv, [Md5Next]_md5Vars PROVE Md5Inv'
  OBVIOUS
<1>c. /\ BlockSize \in Nat \ {0} /\ BlockSize % Block = 0 /\ BlockSize < Word
      /\ MaxPiece \in Nat /\ MaxPiece < Word
  BY Md5Constants
<1>1. ASSUME NEW len \in 0..MaxPiece, NEW aligned \in BOOLEAN, Bytes(len, aligned)
      PROVE  Md5Inv'
  <2> DEFINE octets == InputOctets(fed + 1, fed + len)
             ctx == ProcessBytes(Context, octets, aligned)
  <2>1. phase = "bytes" /\ phase' = phase /\ sum' = sum /\ fed' = fed + len /\ Becomes(ctx)
    BY <1>1 DEF Bytes
  <2>2. Took(Context, fed) /\ sum = 0 /\ fed \in Nat /\ len \in Nat /\ len < Word
    <3>1. sum = 0 /\ fed \in Nat /\ Took(Context, fed - sum)
      BY <2>1 DEF Md5Inv
    <3>2. fed - sum = fed
      BY <3>1
    <3>3. Took(Context, fed)
      BY <3>1, <3>2
    <3>4. len \in Nat /\ len < Word
      <4>1. Word \in Nat
        BY BlockIs
      <4> QED BY <1>c, <4>1
    <3> QED BY <3>1, <3>3, <3>4
  <2>3. Continues(octets, fed) /\ Len(octets) = len
    BY <2>2, InputContinues
  <2>4. Took(ctx, fed + len)
    <3> HIDE DEF octets
    <3> QED BY <2>2, <2>3, ProcessBytesTakes
  <2> HIDE DEF ctx
  <2>5. Context' = ctx
    BY <2>1, <2>4, ContextBecomes DEF Took, Compressed
  <2>6. Took(Context, fed - sum)'
    <3>1. fed' - sum' = fed + len
      BY <2>1, <2>2
    <3>2. Took(Context', fed' - sum')
      BY <2>4, <2>5, <3>1
    <3> QED BY <3>2
  <2>7. fed' \in Nat /\ sum' \in 0..fed' /\ sum' < BlockSize /\ sum' = 0
    BY <1>c, <2>1, <2>2
  <2> QED BY <2>1, <2>6, <2>7 DEF Md5Inv
<1>2. ASSUME NEW len \in 0..BlockSize, NEW eof \in BOOLEAN, Fread(len, eof)
      PROVE  Md5Inv'
  <2>1. /\ phase = "stream" /\ len <= BlockSize - sum /\ fed' = fed + len
        /\ Took(Context, fed - sum) /\ buflen = 0 /\ fed \in Nat /\ sum \in 0..fed
        /\ sum < BlockSize
    BY <1>2 DEF Fread, Md5Inv
  <2>2. CASE sum + len = BlockSize
    <3> DEFINE octets == InputOctets((fed' - BlockSize) + 1, fed')
               ctx == ProcessBlock(Context, octets)
    <3>1. phase' = phase /\ sum' = 0 /\ Becomes(ctx)
      BY <1>2, <2>2 DEF Fread
    <3>2. fed' - BlockSize = fed - sum /\ fed - sum \in Nat /\ (fed - sum) + BlockSize = fed'
      BY <1>c, <2>1, <2>2
    <3>3. Continues(octets, fed - sum) /\ Len(octets) = BlockSize
      <4> DEFINE y == fed - sum
      <4>1. y \in Nat /\ fed' - BlockSize = y /\ fed' = y + BlockSize /\ BlockSize \in Nat
        BY <1>c, <3>2
      <4>2. octets = InputOctets(y + 1, y + BlockSize)
        BY <4>1
      <4> HIDE DEF y, octets
      <4>3. Continues(octets, y) /\ Len(octets) = BlockSize
        BY <4>1, <4>2, InputContinues
      <4> QED BY <4>3 DEF y
    <3>4. Compressed(Context) /\ Len(Context.absorbed) = fed - sum /\ Context.buflen = 0
      <4>1. Context.buflen = 0 /\ Compressed(Context)
            /\ fed - sum = Len(Context.absorbed) + Context.buflen
        BY <2>1 DEF Took, Context
      <4>2. Len(Context.absorbed) \in Nat
        BY <4>1 DEF Compressed, Contexts
      <4> HIDE DEF Context
      <4> QED BY <3>2, <4>1, <4>2
    <3>5. /\ Compressed(ctx) /\ ctx.buflen = 0
          /\ Len(ctx.absorbed) = (fed - sum) + BlockSize
      <4> HIDE DEF octets
      <4> QED BY <1>c, <3>3, <3>4, BlocksCompressed
    <3> HIDE DEF ctx, octets
    <3>6. Context' = ctx
      BY <3>1, <3>5, ContextBecomes DEF Compressed
    <3>7. Took(ctx, fed')
      BY <2>1, <3>2, <3>5 DEF Took, Waits
    <3>8. Took(Context, fed - sum)'
      <4>1. fed' - sum' = fed'
        BY <2>1, <3>1
      <4>2. Took(Context', fed' - sum')
        BY <3>6, <3>7, <4>1
      <4> QED BY <4>2
    <3>9. buflen' = 0
      BY <3>1, <3>5 DEF Becomes
    <3> QED BY <1>c, <2>1, <3>1, <3>8, <3>9 DEF Md5Inv
  <2>3. CASE sum + len # BlockSize
    <3>1. /\ sum' = sum + len /\ phase' \in {"stream", "partial", "error"}
          /\ UNCHANGED <<buffer, buflen, total, absorbed>>
      BY <1>2, <2>3 DEF Fread
    <3>2. Took(Context, fed - sum)'
      <4>1. fed' - sum' = fed - sum /\ Context' = Context
        BY <2>1, <3>1 DEF Context
      <4>2. Took(Context', fed' - sum')
        BY <2>1, <4>1
      <4> QED BY <4>2
    <3>3. fed' \in Nat /\ sum' \in 0..fed' /\ sum' < BlockSize
      BY <1>c, <2>1, <2>3, <3>1
    <3> QED BY <2>1, <3>1, <3>2, <3>3 DEF Md5Inv
  <2> QED BY <2>2, <2>3
<1>3. CASE Partial
  <2>1. /\ phase = "partial" /\ phase' = "finish" /\ sum' = 0 /\ fed' = fed
        /\ Took(Context, fed - sum) /\ fed \in Nat /\ sum \in 0..fed /\ sum < BlockSize
        /\ fed - sum \in Nat
    BY <1>3 DEF Partial, Md5Inv
  <2>2. Took(Context', fed)
    <3>1. CASE sum > 0
      <4> DEFINE octets == InputOctets((fed - sum) + 1, fed)
                 ctx == ProcessBytes(Context, octets, TRUE)
      <4>1. Becomes(ctx)
        BY <1>3, <3>1 DEF Partial
      <4>2. Continues(octets, fed - sum) /\ Len(octets) = sum /\ (fed - sum) + sum = fed
            /\ sum < Word
        <5> DEFINE y == fed - sum
        <5>1. y \in Nat /\ y + sum = fed /\ sum \in Nat
          BY <2>1
        <5>2. sum < Word
          <6>1. sum \in Nat /\ Word \in Nat /\ sum < BlockSize
            BY <2>1, BlockIs
          <6> QED BY <1>c, <6>1
        <5>3. octets = InputOctets(y + 1, y + sum)
          BY <5>1
        <5> HIDE DEF y, octets
        <5>4. Continues(octets, y) /\ Len(octets) = sum
          BY <5>1, <5>3, InputContinues
        <5> QED BY <5>1, <5>2, <5>4 DEF y
      <4>3. Took(ctx, fed)
        <5> HIDE DEF octets
        <5>1. Took(ctx, (fed - sum) + Len(octets))
          BY <2>1, <4>2, ProcessBytesTakes
        <5> QED BY <4>2, <5>1
      <4> HIDE DEF ctx
      <4> QED BY <4>1, <4>3, ContextBecomes DEF Took, Compressed
    <3>2. CASE ~ (sum > 0)
      <4>1. Context' = Context /\ fed - sum = fed
        BY <1>3, <2>1, <3>2 DEF Partial, Context
      <4> QED BY <2>1, <4>1
    <3> QED BY <3>1, <3>2
  <2>3. Took(Context, fed - sum)'
    <3>1. fed' - sum' = fed
      BY <2>1
    <3>2. Took(Context', fed' - sum')
      BY <2>2, <3>1
    <3> QED BY <3>2
  <2> QED BY <1>c, <2>1, <2>3 DEF Md5Inv
<1>4. CASE Finish
  <2>1. /\ phase' = "done" /\ fed' = fed /\ sum' = sum /\ sum = 0 /\ fed \in Nat
        /\ Took(Context, fed)
    <3>1. /\ phase \in {"bytes", "finish"} /\ phase' = "done" /\ fed' = fed /\ sum' = sum
      BY <1>4 DEF Finish
    <3>2. sum = 0 /\ fed \in Nat /\ Took(Context, fed - sum)
      BY <3>1 DEF Md5Inv
    <3> QED BY <3>1, <3>2
  <2> DEFINE m == FinishCtx(Context).absorbed
             p == Pad(Context.buflen)
             t == Counted(Context.total, Context.buflen)
  <2>2. absorbed' = m
    BY <1>4 DEF Finish, Becomes
  <2>3. /\ m \in Seq(Octet) /\ Len(m) = (fed + p) + Field
        /\ p \in 1..Block /\ Len(m) % Block = 0
        /\ \A k \in 1..fed : m[k] = <<"input", k>>
        /\ \A k \in 1..p : m[fed + k] = FillBuf(p)[k]
        /\ Holds(t, fed) /\ m[Len(m)] = LengthField(t)[Field]
    BY <2>1, FinishPads
  <2>4. LengthField(t)[Field] = <<"bits", (t[1] * 8) % Word,
                                  ((t[2] * 8) % Word) + (t[1] \div (Word \div 8))>>
    <3> HIDE DEF t
    <3> QED BY <2>1, <2>3, PaddingIs
  <2>5. ((t[1] * 8) % Word) + (Word * (((t[2] * 8) % Word) + (t[1] \div (Word \div 8))))
          = (8 * fed) % (Word * Word)
    <3>1. Word \in Nat \ {0} /\ Word % 8 = 0
      BY Md5Constants
    <3> HIDE DEF t
    <3> QED BY <2>1, <2>3, <3>1, BitsAre DEF Holds
  <2> HIDE DEF m, p, t
  <2>f. Field \in Nat \ {0} /\ p \in Nat /\ Block \in Nat
    BY <2>3, Md5Constants
  <2>6. SubSeq(m, 1, fed) = InputOctets(1, fed)
    <3>1. InputOctets(1, fed) = [k \in 1..fed |-> <<"input", k>>]
      <4>1. fed - 1 + 1 = fed /\ \A k \in 1..fed : 1 + k - 1 = k
        BY <2>1
      <4> QED BY <4>1 DEF InputOctets
    <3>2. SubSeq(m, 1, fed) = [k \in 1..fed |-> m[k]]
      BY <2>1, <2>3, <2>f
    <3> QED BY <2>3, <3>1, <3>2
  <2>7. SubSeq(m, fed + 1, fed + p) = FillBuf(p)
    <3>1. SubSeq(m, fed + 1, fed + p) = [k \in 1..p |-> m[fed + k]]
      BY <2>1, <2>3, <2>f
    <3>2. FillBuf(p) = [k \in 1..p |-> FillBuf(p)[k]]
      BY DEF FillBuf
    <3> QED BY <2>3, <3>1, <3>2
  <2>8. Len(m) - fed - Field = p
    BY <2>1, <2>3, <2>f
  <2>9. PaddedMessage'
    <3>1. m[Len(m)][2] + (Word * m[Len(m)][3]) = (8 * fed) % (Word * Word)
      BY <2>3, <2>4, <2>5
    <3> QED BY <2>1, <2>2, <2>3, <2>6, <2>7, <2>8, <3>1 DEF PaddedMessage
  <2> QED BY <1>c, <2>1, <2>9 DEF Md5Inv
<1>5. CASE UNCHANGED md5Vars
  <2>1. Context' = Context /\ UNCHANGED <<phase, fed, sum, buflen, absorbed>>
    BY <1>5 DEF md5Vars, Context
  <2>2. PaddedMessage' = PaddedMessage
    BY <2>1 DEF PaddedMessage
  <2>3. Took(Context, fed - sum)' = Took(Context', fed' - sum')
    OBVIOUS
  <2> QED BY <2>1, <2>2, <2>3 DEF Md5Inv
<1> QED BY <1>1, <1>2, <1>3, <1>4, <1>5 DEF Md5Next

(* md5.c hashes what it was given, for every size of a block and of a word   *)
(* and in whatever pieces the input comes.                                   *)
THEOREM OctetsAreHashedOnce == Md5Spec => []EveryOctetOnce
<1>1. ASSUME Md5Inv PROVE EveryOctetOnce
  <2>1. CASE phase = "done"
    BY <1>1, <2>1 DEF Md5Inv, EveryOctetOnce
  <2>2. CASE phase # "done"
    <3> DEFINE x == fed - sum
               s == absorbed
               w == SubSeq(buffer, 1, buflen)
    <3>1. /\ Took(Context, x) /\ x \in Nat
      BY <1>1, <2>2 DEF Md5Inv
    <3>2. /\ s \in Seq(Octet) /\ Len(s) % Block = 0 /\ buflen \in 0..Block /\ Continues(s, 0)
          /\ buffer \in [1..(2 * Block) -> Octet] /\ x = Len(s) + buflen
          /\ Waits(buffer, buflen, Len(s))
      BY <3>1 DEF Took, Compressed, Contexts, Context
    <3>3. Continues(w, Len(s)) /\ Len(w) = buflen
      <4>1. 0 \in 0..buflen /\ buflen \in 0..(2 * Block) /\ Len(s) \in Nat
            /\ Len(s) + 0 = Len(s) /\ buflen - 0 = buflen /\ 0 + 1 = 1
        BY <3>2, BlockIs
      <4>2. Continues(SubSeq(buffer, 0 + 1, buflen), Len(s) + 0)
            /\ Len(SubSeq(buffer, 0 + 1, buflen)) = buflen - 0
        BY <3>2, <4>1, TakenContinues
      <4> HIDE DEF w
      <4>3. w = SubSeq(buffer, 0 + 1, buflen)
        BY <4>1 DEF w
      <4> QED BY <4>1, <4>2, <4>3
    <3> HIDE DEF x, w, s
    <3>4. s \o w \in Seq(Octet) /\ Len(s \o w) = x
      BY <3>2, <3>3, ConcatProperties DEF Continues
    <3>5. ASSUME NEW k \in 1..x PROVE (s \o w)[k] = <<"input", k>>
      <4>1. CASE k <= Len(s)
        <5>1. (s \o w)[k] = s[k] /\ k \in 1..Len(s) /\ 0 + k = k
          BY <3>2, <3>3, <4>1 DEF Continues
        <5>2. s[k] = <<"input", 0 + k>>
          BY <3>2, <5>1 DEF Continues
        <5> QED BY <5>1, <5>2
      <4>2. CASE k > Len(s)
        <5>s. s \in Seq(Octet) /\ w \in Seq(Octet) /\ Len(s) \in Nat /\ Len(w) \in Nat
              /\ k \in 1..(Len(s) + Len(w)) /\ k \in Nat
          BY <3>1, <3>2, <3>3 DEF Continues
        <5>c. k - Len(s) \in 1..Len(w) /\ Len(s) + (k - Len(s)) = k
          BY <4>2, <5>s
        <5>d. (s \o w)[k] = w[k - Len(s)]
          BY <4>2, <5>s, ConcatProperties
        <5>1. (s \o w)[k] = w[k - Len(s)] /\ k - Len(s) \in 1..Len(w)
              /\ Len(s) + (k - Len(s)) = k
          BY <5>c, <5>d
        <5>2. w[k - Len(s)] = <<"input", Len(s) + (k - Len(s))>>
          BY <3>3, <5>1 DEF Continues
        <5> QED BY <5>1, <5>2
      <4>3. Len(s) \in Nat /\ k \in Nat
        BY <3>1, <3>2
      <4>4. k <= Len(s) \/ k > Len(s)
        BY <4>3
      <4> QED BY <4>1, <4>2, <4>4
    <3>6. InputOctets(1, x) = [k \in 1..x |-> <<"input", k>>]
      <4>1. x - 1 + 1 = x /\ \A k \in 1..x : 1 + k - 1 = k
        BY <3>1
      <4> QED BY <4>1 DEF InputOctets
    <3>7. s \o w = InputOctets(1, x)
      <4> DEFINE q == s \o w
      <4>1. q \in Seq(Octet) /\ Len(q) = x
        BY <3>4
      <4>2. \A k \in 1..x : q[k] = <<"input", k>>
        BY <3>5
      <4> HIDE DEF q
      <4>3. q = [k \in 1..x |-> q[k]]
        BY <4>1
      <4>4. q = InputOctets(1, x)
        BY <3>6, <4>2, <4>3
      <4> QED BY <4>4 DEF q
    <3>8. buflen <= 2 * Block
      BY <3>2, BlockIs
    <3> QED BY <2>2, <3>2, <3>7, <3>8 DEF EveryOctetOnce, InOrder, s, w, x
  <2> QED BY <2>1, <2>2
<1> QED BY <1>1, Md5InvInit, Md5InvStep, PTL DEF Md5Spec
=============================================================================
