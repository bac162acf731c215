-------------------------------- MODULE Codec --------------------------------
(***************************************************************************)
(* One slice's data on its way: ZSTDCompressUtil::Compress fills a list of *)
(* malloc()ed chunks, SendFileSlice writes them, Recv gathers c_len_ units *)
(* and ZSTDDecompressUtil::Decompress restores the slice.                  *)
(*                                                                         *)
(* The slice is the sequence 1, 2 .. len.  zstd is external and known by   *)
(* its contract only: what it has taken of the input (ate) is what the     *)
(* frame decodes to, the frame's units are numbered as they come out, and  *)
(* how many there are is its own choice.  The slice header is unit 0.      *)
(***************************************************************************)
EXTENDS Naturals, Sequences, SequencesExt

CONSTANTS MaxLen,            \* lengths of slices are 1 .. MaxLen
          MaxFrame,          \* bound: units of a compressed slice
          Grow,              \* bound: units zstd adds to its frame in one call
          Limit,             \* 1 MiB, below which the buffers are small
          SmallIn, SmallOut, \* ZSTD_CStreamInSize(), ZSTD_CStreamOutSize()
          BigIn, BigOut,     \* 6.5 MiB, 4 MiB
          UInt,              \* 2^32, the header's fields are uint32_t
          IntMax             \* of the int that Decompress returns

ASSUME CodecAssumption == /\ {MaxLen, MaxFrame, Grow, Limit} \subseteq Nat \ {0}
                          /\ {SmallIn, SmallOut, BigIn, BigOut} \subseteq Nat \ {0}
                          /\ IntMax \in Nat /\ UInt = 2 * (IntMax + 1) /\ MaxLen < UInt

VARIABLES len,              \* of the slice
          faults,           \* may system calls and zstd fail this time?
          at,               \* where the slice is
          index, pos,       \* Compress: the input chunk, and the position in it
          ate, pend, ended, \* zstd: input taken, units held back, frame ended?
          out,              \* zstd: units of the frame that have come out
          mem, freed,       \* mem[b]: what buffer b holds; buffers freed so far
          buff_out,         \* the current output buffer
          compress_buf_,    \* the chunks: [c |-> buffer, len |-> units]
          header,           \* the first chunk's fields
          chunk, w_index,   \* SendFileSlice
          wire,             \* what has been written
          input, restored   \* Decompress: input.pos, and what out_buf holds

compressing == <<index, pos, ate, pend, ended, out, mem, buff_out, compress_buf_, header>>
sending     == <<chunk, w_index, wire>>
restoring   == <<input, restored>>
vars == <<len, faults, at, compressing, freed, sending, restoring>>

buff_in_size  == IF len < Limit THEN SmallIn ELSE BigIn
buff_out_size == IF len < Limit THEN SmallOut ELSE BigOut

UpTo(n) == [i \in 1 .. n |-> i]

Init == /\ len \in 1 .. MaxLen
        /\ faults \in BOOLEAN
        /\ at = "compress"
        /\ index = 0 /\ pos = 0
        /\ ate = <<>> /\ pend = 0 /\ ended = FALSE /\ out = 0
        /\ mem = << <<>> >> /\ freed = {} /\ buff_out = 1
        /\ compress_buf_ = <<>> /\ header = [len |-> 0, c_len |-> 0]
        /\ chunk = 1 /\ w_index = 0 /\ wire = <<>>
        /\ input = 0 /\ restored = <<>>
-----------------------------------------------------------------------------
(* Compress: one call of ZSTD_compressStream2(), and what becomes of it.   *)

last_chunk == index + buff_in_size >= len
act_buff_in_size == IF last_chunk THEN len - index ELSE buff_in_size

(* The unit of the slice that is i units after input.pos. *)
InputAtStart(i) == pos + i
InputAt(i) == index + pos + i

(* zstd takes k units, adds g to its frame and puts n units out.  It       *)
(* leaves input only if the output buffer is full; it may hold units back  *)
(* unless it is to end the frame, which takes at least one more unit.      *)
CompressStream2(k, g, n) ==
  /\ ended' = (last_chunk /\ k = act_buff_in_size - pos)
  /\ out + pend + g <= (IF ended' THEN MaxFrame ELSE MaxFrame - 1)
  /\ n <= pend + g
  /\ k < act_buff_in_size - pos => n = buff_out_size
  /\ ended' => /\ IF ended THEN g = 0 ELSE g > 0
               /\ n = pend + g \/ n = buff_out_size
  /\ ~ended' => k + n > 0
  /\ ate' = ate \o [i \in 1 .. k |-> InputAt(i)]
  /\ pend' = pend + g - n
  /\ out' = out + n

(* LinkCompressChunk: the first call puts the header in front; buff_out    *)
(* now belongs to the list and a new one is allocated.                     *)
LinkReusing(n) ==
  LET filled == [mem EXCEPT ![buff_out] = [i \in 1 .. n |-> out + i]]
      front == IF compress_buf_ = <<>> THEN << [c |-> Len(mem) + 1, len |-> 1] >> ELSE <<>>
  IN  /\ mem' = filled \o (IF front = <<>> THEN <<>> ELSE << <<0>> >>)
      /\ compress_buf_' = compress_buf_ \o front \o << [c |-> buff_out, len |-> n] >>
      /\ buff_out' = buff_out
LinkCompressChunk(n) ==
  LET filled == [mem EXCEPT ![buff_out] = [i \in 1 .. n |-> out + i]]
      front == IF compress_buf_ = <<>> THEN << [c |-> Len(mem) + 1, len |-> 1] >> ELSE <<>>
  IN  /\ mem' = filled \o (IF front = <<>> THEN <<>> ELSE << <<0>> >>) \o << <<>> >>
      /\ compress_buf_' = compress_buf_ \o front \o << [c |-> buff_out, len |-> n] >>
      /\ buff_out' = Len(mem')

(* SetChunkLinksHeader, with c_len_ the sum of what has come out. *)
SetHeaderUntruncated == header' = [len |-> len, c_len |-> out']
SetChunkLinksHeader == header' = [len |-> len % UInt, c_len |-> out' % UInt]

finished(k) == IF last_chunk THEN ended' /\ pend' = 0 ELSE pos + k = act_buff_in_size

Compress ==
  /\ at = "compress"
  /\ \E k \in 0 .. act_buff_in_size - pos, g \in 0 .. Grow, n \in 0 .. buff_out_size :
       /\ CompressStream2(k, g, n)
       /\ LinkCompressChunk(n)
       /\ \/ ~finished(k) /\ pos' = pos + k /\ UNCHANGED <<at, index, header>>
          \/ /\ finished(k) /\ ~last_chunk
             /\ index' = index + act_buff_in_size /\ pos' = 0
             /\ UNCHANGED <<at, header>>
          \/ /\ finished(k) /\ last_chunk
             /\ SetChunkLinksHeader
             /\ at' = "send" /\ pos' = pos + k /\ UNCHANGED index
  /\ UNCHANGED <<len, faults, freed, sending, restoring>>

(* No context, a parameter refused, or an error of zstd: nullptr. *)
CompressFailsLeaking == /\ at = "compress"
                        /\ faults
                        /\ at' = "failed"
                        /\ UNCHANGED <<len, faults, compressing, freed, sending, restoring>>
CompressFails == /\ at = "compress"
                 /\ faults
                 /\ freed' = freed \cup {buff_out}
                 /\ at' = "failed"
                 /\ UNCHANGED <<len, faults, compressing, sending, restoring>>
-----------------------------------------------------------------------------
(* SendFileSlice. *)

(* One write() of n units.  An empty chunk is left at once; EAGAIN changes *)
(* nothing and is tried again.                                             *)
Write == /\ at = "send"
         /\ chunk <= Len(compress_buf_)
         /\ LET c == compress_buf_[chunk]
            IN  \E n \in 0 .. c.len - w_index :
                  /\ n > 0 \/ c.len = 0
                  /\ wire' = wire \o SubSeq(mem[c.c], w_index + 1, w_index + n)
                  /\ \/ w_index + n < c.len /\ w_index' = w_index + n /\ UNCHANGED chunk
                     \/ w_index + n = c.len /\ w_index' = 0 /\ chunk' = chunk + 1
         /\ UNCHANGED <<len, faults, at, compressing, freed, restoring>>

(* connect() or write() fails. *)
SendFails == /\ at = "send"
             /\ faults
             /\ at' = "unsent"
             /\ UNCHANGED <<len, faults, compressing, freed, sending, restoring>>

SentAll == /\ at = "send"
           /\ chunk > Len(compress_buf_)
           /\ at' = IF Len(wire) - 1 = out THEN "gather" ELSE "unsent"
           /\ UNCHANGED <<len, faults, compressing, freed, sending, restoring>>
-----------------------------------------------------------------------------
(* Recv has gathered as many units as the header announces.  If more were  *)
(* sent, Recv stops at a part of the frame or runs past c_buf_.            *)
payload == Tail(wire)

Gather == /\ at = "gather"
          /\ at' \in IF header.c_len = Len(payload) THEN {"decompress"}
                                                   ELSE {"refused", "overrun"}
          /\ UNCHANGED <<len, faults, compressing, freed, sending, restoring>>

(* One call of ZSTD_decompressStream(): it takes k units and puts n out,   *)
(* and once it has all of the frame it holds nothing back that has room.   *)
room == header.len - Len(restored)
frameIntact == payload = UpTo(out) /\ ended
DecompressStream ==
  /\ at = "decompress"
  /\ input < Len(payload)
  /\ frameIntact
  /\ \E k \in 0 .. Len(payload) - input, n \in 0 .. room :
       /\ k + n > 0
       /\ Len(restored) + n <= Len(ate)
       /\ input + k = Len(payload) => n = room \/ Len(restored) + n = Len(ate)
       /\ input' = input + k
       /\ restored' = restored \o SubSeq(ate, Len(restored) + 1, Len(restored) + n)
  /\ UNCHANGED <<len, faults, at, compressing, freed, sending>>

(* No context, or the data is corrupt: -1. *)
DecompressFails == /\ at = "decompress"
                   /\ faults \/ ~frameIntact
                   /\ at' = "refused"
                   /\ UNCHANGED <<len, faults, compressing, freed, sending, restoring>>

(* The count comes back as an int: beyond IntMax it is negative, which     *)
(* equals no len_.                                                         *)
AsIntUnsigned(n) == n = header.len
AsInt(n) == n <= IntMax /\ n = header.len
Decompressed == /\ at = "decompress"
                /\ input = Len(payload)
                /\ at' = IF AsInt(Len(restored)) THEN "accepted" ELSE "refused"
                /\ UNCHANGED <<len, faults, compressing, freed, sending, restoring>>
-----------------------------------------------------------------------------
(* Run has returned and ~FileSlice frees the chunks, one after the other.  *)
Linked == {compress_buf_[i].c : i \in 1 .. Len(compress_buf_)}
Finals == {"accepted", "refused", "overrun", "unsent", "failed"}
Destroy == /\ at \in Finals
           /\ ~(Linked \subseteq freed)
           /\ freed' = freed \cup Linked
           /\ UNCHANGED <<len, faults, at, compressing, sending, restoring>>

(* The slice's story ends here. *)
Over == /\ at \in Finals
        /\ Linked \subseteq freed
        /\ UNCHANGED vars

Next == \/ Compress \/ CompressFails \/ Write \/ SendFails \/ SentAll \/ Gather
        \/ DecompressStream \/ DecompressFails \/ Decompressed \/ Destroy \/ Over

Spec == Init /\ [][Next]_vars
-----------------------------------------------------------------------------
(* Types; the header's two lengths are what fits 32 bits. *)
TypeOK == /\ len \in 1 .. MaxLen /\ faults \in BOOLEAN
          /\ at \in {"compress", "send", "gather", "decompress"} \cup Finals
          /\ index \in 0 .. len /\ pos \in 0 .. len
          /\ ate \in Seq(1 .. len) /\ pend \in Nat /\ ended \in BOOLEAN /\ out \in 0 .. MaxFrame
          /\ mem \in Seq(Seq(0 .. MaxFrame)) /\ freed \subseteq DOMAIN mem
          /\ buff_out \in DOMAIN mem
          /\ compress_buf_ \in Seq([c : DOMAIN mem, len : 0 .. MaxFrame])
          /\ header \in [len : 0 .. UInt - 1, c_len : 0 .. UInt - 1]
          /\ chunk \in Nat \ {0} /\ w_index \in Nat /\ wire \in Seq(0 .. MaxFrame)
          /\ input \in Nat /\ restored \in Seq(1 .. len)

(* What SendFileSlice has written is always the header and then the frame  *)
(* as zstd put it out: no chunk is overwritten, left out or sent twice.    *)
FrameInOrder == /\ IsPrefix(wire, <<0>> \o UpTo(out))
                /\ at \in {"gather", "decompress"} => Len(wire) = 1 + out /\ ended /\ pend = 0

(* A slice that the receiver accepts is the slice that was read, however   *)
(* zstd cuts its input and output and write() the chunks.                  *)
RoundTrip == at = "accepted" => restored = UpTo(len)

(* If no call fails, the receiver accepts a slice exactly if its length is *)
(* an int and its compressed length a uint32_t.                            *)
AcceptedExactlyWhen ==
  ~faults /\ at \in Finals => (at = "accepted" <=> len <= IntMax /\ out < UInt)

(* No buffer has two owners, so none is freed twice.  In the end all are   *)
(* freed but the one that a successful Compress returns and Run ignores.   *)
BuffersOwned ==
  /\ \A i, j \in 1 .. Len(compress_buf_) : i # j => compress_buf_[i].c # compress_buf_[j].c
  /\ buff_out \notin Linked
  /\ at \in Finals /\ Linked \subseteq freed
       => DOMAIN mem \ freed = IF at = "failed" THEN {} ELSE {buff_out}
=============================================================================
