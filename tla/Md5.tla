-------------------------------- MODULE Md5 --------------------------------
(***************************************************************************)
(* The buffering of lib/md5.c: input of any length, in pieces of any       *)
(* length, reaches the compression function in whole blocks. An octet is   *)
(* the number of its place in the input, so that what is compressed can be *)
(* compared with what was fed. The arithmetic of the four rounds is not    *)
(* modelled: md5_process_block is what it is called with.                  *)
(***************************************************************************)
EXTENDS Integers, Sequences

CONSTANTS
  Block,      \* octets the compression function takes (64)
  Field,      \* octets of the length at the end of the last block (8)
  Word,       \* values of a word of the counter (2^32)
  BlockSize,  \* octets md5_stream reads at a time, a multiple of Block
  MaxPiece,   \* bound: octets in one piece of input
  MaxFed      \* bound: octets in the whole input

ASSUME Md5Constants ==
  /\ Block \in Nat /\ Field \in 1..(Block - 1)
  /\ BlockSize \in Nat \ {0} /\ BlockSize % Block = 0
  /\ Word \in Nat \ {0} /\ Word % 8 = 0
  /\ MaxPiece \in Nat /\ MaxPiece < Word /\ BlockSize < Word /\ 2 * Block < Word

VARIABLES
  buffer,    \* the context's two blocks
  buflen,    \* how much of it is waiting
  total,     \* the two words that count octets
  absorbed,  \* everything md5_process_block has been given, in order
  fed,       \* octets of input so far
  sum,       \* octets in md5_stream's own buffer
  phase      \* "bytes", "stream", "partial", "finish", "done" or "error"

md5Vars == <<buffer, buflen, total, absorbed, fed, sum, phase>>

(* An octet of the context's buffer nobody has written, the first octet of   *)
(* fillbuf and the others, and input octets `from' to `to'.                  *)
Junk    == <<"junk", 0>>
PadOne  == <<"fill", 128>>
PadZero == <<"fill", 0>>
InputOctets(from, to) == [k \in 1..(to - from + 1) |-> <<"input", from + k - 1>>]

(* memcpy(&buf[offset], octets). *)
Copied(buf, offset, octets) ==
  [k \in DOMAIN buf |->
     IF k - offset \in DOMAIN octets THEN octets[k - offset] ELSE buf[k]]

(* The whole blocks in n octets: n & ~63. *)
Whole(len) == len - (len % Block)

(* md5_process_block, as far as its caller can tell; the counter's low word  *)
(* carries into the high one.                                                *)
Counted(t, len) ==
  LET low == (t[1] + len) % Word
  IN  <<low, IF low < len THEN (t[2] + 1) % Word ELSE t[2]>>
ProcessBlock(ctx, octets) ==
  [ctx EXCEPT !.absorbed = @ \o octets, !.total = Counted(@, Len(octets))]

Context == [buffer |-> buffer, buflen |-> buflen, total |-> total,
            absorbed |-> absorbed]

(* First part of md5_process_bytes: what is waiting is filled up to two      *)
(* blocks at most, and compressed when there is more than one.               *)
AddOf(ctx, len) ==
  IF 2 * Block - ctx.buflen > len THEN len ELSE 2 * Block - ctx.buflen
FillUp(ctx, octets) ==
  LET add    == AddOf(ctx, Len(octets))
      buf    == Copied(ctx.buffer, ctx.buflen, SubSeq(octets, 1, add))
      filled == ctx.buflen + add
      whole  == Whole(filled)
      after  == ProcessBlock([ctx EXCEPT !.buffer = buf],
                             SubSeq(buf, 1, whole))
  IN IF filled > Block
       THEN [after EXCEPT !.buflen = filled % Block,
                          !.buffer = Copied(buf, 0, SubSeq(buf, whole + 1, filled))]
       ELSE [ctx EXCEPT !.buffer = buf, !.buflen = filled]

(* Second part: whole blocks are compressed where they are. An unaligned     *)
(* input goes through the context's buffer, and its last block is left.      *)
BlocksIn(octets, aligned) ==
  IF aligned THEN Whole(Len(octets)) ELSE Whole(Len(octets) - 1)
Direct(ctx, octets, aligned) ==
  LET whole == BlocksIn(octets, aligned)
  IN ProcessBlock(
       IF aligned \/ whole = 0 THEN ctx
       ELSE [ctx EXCEPT !.buffer =
               Copied(@, 0, SubSeq(octets, whole - Block + 1, whole))],
       SubSeq(octets, 1, whole))

(* Last part: the rest waits in the buffer, unless it completes a block.     *)
Keep(ctx, octets) ==
  LET buf  == Copied(ctx.buffer, ctx.buflen, octets)
      left == ctx.buflen + Len(octets)
  IN IF left >= Block
       THEN [ProcessBlock(ctx, SubSeq(buf, 1, Block)) EXCEPT
               !.buffer = Copied(buf, 0, SubSeq(buf, Block + 1, left)),
               !.buflen = left - Block]
       ELSE [ctx EXCEPT !.buffer = buf, !.buflen = left]

(* md5_process_bytes(octets, ctx). *)
ProcessBytes(ctx, octets, aligned) ==
  LET add    == IF ctx.buflen # 0 THEN AddOf(ctx, Len(octets)) ELSE 0
      first  == IF ctx.buflen # 0 THEN FillUp(ctx, octets) ELSE ctx
      rest   == SubSeq(octets, add + 1, Len(octets))
      direct == Len(rest) >= Block
      second == IF direct THEN Direct(first, rest, aligned) ELSE first
      last   == IF direct
                  THEN SubSeq(rest, BlocksIn(rest, aligned) + 1, Len(rest))
                  ELSE rest
  IN IF last = <<>> THEN second ELSE Keep(second, last)

(* Mutant of Pad: the last block can hold one octet less than that. *)
PadTight(bytes) ==
  IF bytes > Block - Field THEN 2 * Block - Field - bytes
                           ELSE Block - Field - bytes

(* md5_finish_ctx: padding up to the length field, and the field, which is   *)
(* eight times the counted octets in two words.                              *)
Pad(bytes) ==
  IF bytes >= Block - Field THEN 2 * Block - Field - bytes
                            ELSE Block - Field - bytes

FillBuf(len) == [k \in 1..len |-> IF k = 1 THEN PadOne ELSE PadZero]
LengthField(t) ==
  [k \in 1..Field |->
     IF k = Field
       THEN <<"bits", (t[1] * 8) % Word,
                      ((t[2] * 8) % Word) + (t[1] \div (Word \div 8))>>
       ELSE <<"bits">>]
FinishCtx(ctx) ==
  LET t   == Counted(ctx.total, ctx.buflen)
      buf == Copied(ctx.buffer, ctx.buflen,
                    FillBuf(Pad(ctx.buflen)) \o LengthField(t))
  IN ProcessBlock([ctx EXCEPT !.total = t],
                  SubSeq(buf, 1, ctx.buflen + Pad(ctx.buflen) + Field))

Becomes(ctx) ==
  /\ buffer' = ctx.buffer /\ buflen' = ctx.buflen
  /\ total' = ctx.total /\ absorbed' = ctx.absorbed

-----------------------------------------------------------------------------
(* md5_init_ctx. *)
Md5Init ==
  /\ buffer = [k \in 1..(2 * Block) |-> Junk]
  /\ buflen = 0 /\ total = <<0, 0>> /\ absorbed = <<>>
  /\ fed = 0 /\ sum = 0
  /\ phase \in {"bytes", "stream"}

(* A caller of md5_process_bytes hands over a piece of any length. *)
Bytes(len, aligned) ==
  /\ phase = "bytes"
  /\ fed + len <= MaxFed
  /\ Becomes(ProcessBytes(Context, InputOctets(fed + 1, fed + len), aligned))
  /\ fed' = fed + len
  /\ UNCHANGED <<sum, phase>>

(* md5_stream: one fread of its loop, which may be short. A full buffer is   *)
(* compressed at once; nothing read is the end or an error.                  *)
Fread(len, eof) ==
  /\ phase = "stream"
  /\ len <= BlockSize - sum /\ fed + len <= MaxFed
  /\ eof => len < BlockSize - sum
  /\ fed' = fed + len
  /\ IF sum + len = BlockSize
       THEN /\ Becomes(ProcessBlock(Context, InputOctets(fed' - BlockSize + 1, fed')))
            /\ sum' = 0 /\ UNCHANGED phase
       ELSE /\ sum' = sum + len
            /\ phase' = IF len = 0 THEN IF eof THEN "partial" ELSE "error"
                        ELSE IF eof THEN "partial" ELSE "stream"
            /\ UNCHANGED <<buffer, buflen, total, absorbed>>

(* process_partial_block: what is in md5_stream's buffer, if anything. *)
Partial ==
  /\ phase = "partial"
  /\ IF sum > 0
       THEN Becomes(ProcessBytes(Context, InputOctets(fed - sum + 1, fed), TRUE))
       ELSE UNCHANGED <<buffer, buflen, total, absorbed>>
  /\ sum' = 0
  /\ phase' = "finish"
  /\ UNCHANGED fed

Finish ==
  /\ phase \in {"bytes", "finish"}
  /\ Becomes(FinishCtx(Context))
  /\ phase' = "done"
  /\ UNCHANGED <<fed, sum>>

Md5Next ==
  \/ \E len \in 0..MaxPiece, aligned \in BOOLEAN : Bytes(len, aligned)
  \/ \E len \in 0..BlockSize, eof \in BOOLEAN : Fread(len, eof)
  \/ Partial
  \/ Finish

Md5Spec == Md5Init /\ [][Md5Next]_md5Vars

-----------------------------------------------------------------------------
(* Until the context is finished every octet of the input has been           *)
(* compressed, or waits in one of the two buffers, once and in order,        *)
(* whatever the pieces were, and only whole blocks have been compressed.     *)
InOrder ==
  /\ absorbed \o SubSeq(buffer, 1, buflen) = InputOctets(1, fed - sum)
  /\ Len(absorbed) % Block = 0
  /\ buflen <= 2 * Block

(* RFC 1321, 3.1 and 3.2: the finished message is the input, one marked      *)
(* octet, as few others as fill the block up to the length field, and the    *)
(* length of the input in bits, modulo the two words; the counter is not     *)
(* disturbed by the padding that went through the same function.             *)
PaddedMessage ==
  LET len == Len(absorbed)
      pad == len - fed - Field
      bits == absorbed[len]
  IN /\ SubSeq(absorbed, 1, fed) = InputOctets(1, fed)
     /\ pad \in 1..Block /\ len % Block = 0
     /\ SubSeq(absorbed, fed + 1, fed + pad) = FillBuf(pad)
     /\ bits[2] + Word * bits[3] = (8 * fed) % (Word * Word)

(* md5.c hashes the input it was given, in pieces of whatever length: what   *)
(* was fed so far while it is fed, and the padded message of RFC 1321 in the *)
(* end.                                                                      *)
EveryOctetOnce == IF phase = "done" THEN PaddedMessage ELSE InOrder
=============================================================================
