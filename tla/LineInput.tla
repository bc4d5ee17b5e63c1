----------------------------- MODULE LineInput -----------------------------
(***************************************************************************)
(* Lines of any length: getstr() with its growing buffer, getline() on top *)
(* of it, and getpass4(), which reads a line with the terminal's echo off. *)
(* One step is one getc() of the loop; a caller keeps its buffer and its   *)
(* size from call to call, as macfile_parse and wol's main do.             *)
(***************************************************************************)
EXTENDS Integers, Sequences

CONSTANTS
  MIN_CHUNK,   \* the least number of octets a buffer grows by
  MaxLine,     \* bound: octets one call stores
  Letter,      \* octets that are not the delimiter
  Newline,     \* the delimiter
  NUL,         \* the octet that ends a string
  Free,        \* an allocated octet nobody has written
  NoBlock      \* the null pointer

Char == Letter \cup {Newline}
LineCell == Char \cup {NUL, Free}

ASSUME LineConstants ==
  /\ MIN_CHUNK \in Nat \ {0, 1}
  /\ MaxLine \in Nat
  /\ Newline \notin Letter /\ NUL \notin Char
  /\ Free \notin Char \cup {NUL}
  /\ NoBlock \notin Seq(LineCell)

VARIABLES
  lineptr,       \* the caller's buffer, a sequence of cells, or NoBlock
  n,             \* the caller's idea of its size
  read_pos,      \* octets between the start of the buffer and the next one
  nchars_avail,  \* allocated octets from there on
  taken,         \* the octets getc() has given this call
  ferr,          \* the stream's sticky error indicator
  lret,          \* the last return value
  at,            \* "idle", "loop" (inside getstr) or "restore" (in getpass4)
  secret,        \* the running call is getpass4's
  echo, old,     \* the terminal's echo flag; getpass4's copy of it
  before,        \* the flag when getpass4 was called last
  refused        \* the terminal refused to have it put back

ttyVars  == <<secret, echo, old, before, refused>>
lineVars == <<lineptr, n, read_pos, nchars_avail, taken, ferr, lret, at,
              ttyVars>>

LineInit ==
  /\ lineptr = NoBlock /\ n = 0 /\ read_pos = 0 /\ nchars_avail = 0
  /\ taken = <<>> /\ ferr = FALSE /\ lret = 0
  /\ at = "idle" /\ secret = FALSE
  /\ echo \in BOOLEAN /\ old = echo /\ before = echo /\ refused = FALSE

LineTypeOK ==
  /\ lineptr \in Seq(LineCell) \cup {NoBlock}
  /\ n \in Nat /\ read_pos \in Nat /\ nchars_avail \in Int
  /\ taken \in Seq(Char) /\ lret \in Int
  /\ at \in {"idle", "loop", "restore"}
  /\ {ferr, secret, echo, old, before, refused} \subseteq BOOLEAN

(* malloc(size), and realloc of a block to size octets. *)
Malloc(size) == [k \in 1..size |-> Free]
Realloc(block, size) ==
  [k \in 1..size |-> IF k \in DOMAIN block THEN block[k] ELSE Free]

(* Mutant of Return: a line that could not be read is told at once. *)
ReturnAtOnce(value) ==
  /\ lret' = value
  /\ at' = IF secret' /\ value # -1 THEN "restore" ELSE "idle"

(* getstr hands value back: to the caller, or to getpass4. *)
Return(value) ==
  /\ lret' = value
  /\ at' = IF secret' THEN "restore" ELSE "idle"

(* getstr() up to the loop, for a caller that has called with lineptr, &n.   *)
Enter ==
  /\ taken' = <<>>
  /\ UNCHANGED ferr
  /\ \/ /\ lineptr # NoBlock
        /\ UNCHANGED <<lineptr, n>>
        /\ read_pos' = 0 /\ nchars_avail' = n
        /\ at' = "loop" /\ UNCHANGED lret
     \/ /\ lineptr = NoBlock
        /\ n' = MIN_CHUNK
        /\ lineptr' = Malloc(MIN_CHUNK)
        /\ read_pos' = 0 /\ nchars_avail' = MIN_CHUNK
        /\ at' = "loop" /\ UNCHANGED lret
     \/ /\ lineptr = NoBlock               \* malloc fails
        /\ n' = MIN_CHUNK
        /\ UNCHANGED <<lineptr, read_pos, nchars_avail>>
        /\ Return(-1)

(* getline() is called. *)
Getline ==
  /\ at = "idle"
  /\ secret' = FALSE
  /\ UNCHANGED <<echo, old, before, refused>>
  /\ Enter

(* getpass4() is called: it gives up unless it can read the terminal's flags *)
(* and switch the echo off, and reads a line with the echo off.              *)
Getpass ==
  /\ at = "idle"
  /\ before' = echo
  /\ refused' = FALSE
  /\ \/ /\ lret' = -1                      \* tcgetattr or tcsetattr fails
        /\ UNCHANGED <<lineptr, n, read_pos, nchars_avail, taken, ferr, at,
                       secret, echo, old>>
     \/ /\ secret' = TRUE
        /\ old' = echo
        /\ echo' = FALSE
        /\ Enter

(* The tail of getpass4: the flags are put back, and nobody asks whether     *)
(* tcsetattr could.                                                          *)
Restore ==
  /\ at = "restore"
  /\ \E works \in BOOLEAN :
       /\ echo' = IF works THEN old ELSE echo
       /\ refused' = ~ works
  /\ at' = "idle"
  /\ UNCHANGED <<lineptr, n, read_pos, nchars_avail, taken, ferr, lret,
                 secret, old, before>>

(* The size the buffer grows to. *)
Grown(size) == IF size > MIN_CHUNK THEN 2 * size ELSE size + MIN_CHUNK

(* Mutants of IsFull and Room: the NUL is forgotten; the room grows by less  *)
(* than the buffer.                                                          *)
IsFullLate == nchars_avail < 1
RoomAdded(size) == nchars_avail + MIN_CHUNK

(* There is always room for an octet and the NUL.                            *)
IsFull == nchars_avail < 2

Room(size) == size - read_pos

(* What the loop does with c once there is room for it in a buffer of size   *)
(* octets, of which avail are free: EOF and a stream in error end the call,  *)
(* with the partial line if there is one, a delimiter ends the line.         *)
Store(block, c, avail, pos, error) ==
  \/ /\ c = "EOF" \/ error
     /\ UNCHANGED read_pos
     /\ nchars_avail' = avail
     /\ IF pos = 0
          THEN lineptr' = block /\ Return(-1)
          ELSE lineptr' = [block EXCEPT ![pos + 1] = NUL] /\ Return(pos)
  \/ /\ c # "EOF" /\ ~ error
     /\ read_pos' = pos + 1
     /\ nchars_avail' = avail - 1
     /\ IF c = Newline
          THEN /\ lineptr' = [block EXCEPT ![pos + 1] = c, ![pos + 2] = NUL]
               /\ Return(pos + 1)
          ELSE /\ lineptr' = [block EXCEPT ![pos + 1] = c]
               /\ UNCHANGED <<lret, at>>

(* One round of the loop. The error indicator is set by a getc() that fails  *)
(* and stays set.                                                            *)
Getc(c, fails) ==
  /\ at = "loop"
  /\ Len(taken) < MaxLine \/ c \in {Newline, "EOF"}
  /\ fails => c = "EOF"
  /\ ferr' = (ferr \/ fails)
  /\ taken' = IF c = "EOF" THEN taken ELSE Append(taken, c)
  /\ UNCHANGED ttyVars
  /\ IF IsFull
       THEN LET size == Grown(n)
            IN /\ n' = size
               /\ \/ Store(Realloc(lineptr, size), c, Room(size), read_pos, ferr')
                  \/ /\ lineptr' = NoBlock         \* realloc fails
                     /\ nchars_avail' = Room(size)
                     /\ UNCHANGED read_pos
                     /\ Return(-1)
       ELSE n' = n /\ Store(lineptr, c, nchars_avail, read_pos, ferr')

LineNext ==
  \/ Getline
  \/ Getpass
  \/ Restore
  \/ \E c \in Char \cup {"EOF"}, fails \in BOOLEAN : Getc(c, fails)

LineSpec == LineInit /\ [][LineNext]_lineVars

-----------------------------------------------------------------------------
(* The two asserts of the loop (getstr.c:84 and :97), and that the caller's  *)
(* size is the size of the block: while getstr runs, position, room and size *)
(* describe one and the same buffer, however often it has grown and moved    *)
(* and whatever an earlier call, failed or not, left behind.                 *)
BookkeepingHolds ==
  at = "loop" =>
    /\ lineptr # NoBlock
    /\ n = Len(lineptr)
    /\ n - nchars_avail = read_pos
    /\ nchars_avail >= 1

(* A call that returns a count returns the octets it took from the stream,   *)
(* in order, and a NUL after them inside the buffer; all of them, unless the *)
(* stream's error indicator was set, when the octet read last is lost.       *)
LineIsWhole ==
  (at # "loop" /\ lret > 0) =>
    /\ lret = Len(taken) \/ (ferr /\ lret = Len(taken) - 1)
    /\ lret < Len(lineptr)
    /\ SubSeq(lineptr, 1, lret) = SubSeq(taken, 1, lret)
    /\ lineptr[lret + 1] = NUL

(* getpass4 leaves the terminal as it found it on every way out, the ways    *)
(* after a failed read and a failed allocation included; the one exception   *)
(* is a terminal that refuses the last tcsetattr, whose answer is not read.  *)
EchoComesBack ==
  (at = "idle" /\ ~ refused) => echo = before
=============================================================================
