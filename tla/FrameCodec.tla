----------------------------- MODULE FrameCodec -----------------------------
(***************************************************************************)
(* The binary frames of a link (packages/protocol/src/codec.js): what      *)
(* encodeFrame writes, and the parser that accumulates chunks.  A buffer   *)
(* is the sequence of its bytes.  The loop of push() is a recursive        *)
(* function of the buffer.                                                 *)
(***************************************************************************)
EXTENDS Naturals, Sequences

Byte == 0..255
HEADER_BYTES == 13

(* writeUInt32LE, and readUInt32LE at an offset.                            *)
UInt32LE(n) == [i \in 1..4 |-> (n \div 256^(i-1)) % 256]
ReadUInt32LE(buf, at) ==
  buf[at+1] + 256 * buf[at+2] + 65536 * buf[at+3] + 16777216 * buf[at+4]

encodeFrame(f) ==
  <<f.kind % 256>> \o UInt32LE(f.channel) \o UInt32LE(f.seq)
    \o UInt32LE(Len(f.data)) \o f.data

Missing(buf) ==
  \/ Len(buf) < HEADER_BYTES
  \/ Len(buf) < HEADER_BYTES + ReadUInt32LE(buf, 9)

(* The frames a buffer holds and the bytes that stay in it.                 *)
parse[buf \in Seq(Byte)] ==
  IF Missing(buf) THEN [frames |-> <<>>, buf |-> buf]
  ELSE LET end  == HEADER_BYTES + ReadUInt32LE(buf, 9)
           more == parse[SubSeq(buf, end + 1, Len(buf))]
       IN  [frames |-> <<[kind |-> buf[1], channel |-> ReadUInt32LE(buf, 1),
                          seq |-> ReadUInt32LE(buf, 5),
                          data |-> SubSeq(buf, HEADER_BYTES + 1, end)]>> \o more.frames,
            buf |-> more.buf]

(* One chunk more: what push() returns, after what it returned before.      *)
push(parser, chunk) ==
  LET done == parse[parser.buf \o chunk]
  IN  [frames |-> parser.frames \o done.frames, buf |-> done.buf]
-------------------------------------------------------------------------------
newParser == [frames |-> <<>>, buf |-> <<>>]

(* However the bytes of some frames are cut into three chunks, the parser    *)
(* returns exactly those frames, in order, and keeps nothing back            *)
(* (codec.js:88-108).                                                        *)
ChunksDoNotMatter(frames) ==
  LET bytes[n \in 0..Len(frames)] ==
        IF n = 0 THEN <<>> ELSE bytes[n-1] \o encodeFrame(frames[n])
      all == bytes[Len(frames)]
  IN  \A i, j \in 0..Len(all) :
        i <= j =>
          push(push(push(newParser, SubSeq(all, 1, i)), SubSeq(all, i + 1, j)),
               SubSeq(all, j + 1, Len(all))) = [frames |-> frames, buf |-> <<>>]
===============================================================================
