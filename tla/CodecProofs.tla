----------------------------- MODULE CodecProofs -----------------------------
(***************************************************************************)
(* For slices, frames and buffers of any size, with and without faults:    *)
(* what Compress, SendFileSlice, Recv and Decompress do to a slice keeps   *)
(* its order and its bytes, its acceptance depends on nothing but the two  *)
(* conversions of its lengths, and no buffer has two owners.               *)
(***************************************************************************)
EXTENDS Codec, SequenceTheorems, TLAPS

(* What zstd has taken is the slice up to where Compress stands. *)
InputInv == /\ index < len /\ pos <= act_buff_in_size
            /\ ate = UpTo(index + pos)
            /\ out + pend <= MaxFrame
            /\ ended => index + pos = len /\ out + pend > 0

(* What each place of the slice's story tells about the others. *)
StageInv ==
  /\ at \notin {"compress", "failed"} => /\ ended /\ pend = 0 /\ compress_buf_ # <<>>
                                         /\ header = [len |-> len, c_len |-> out % UInt]
  /\ at \in {"compress", "failed"} => chunk = 1 /\ w_index = 0 /\ wire = <<>>
  /\ at \in {"gather", "decompress", "accepted"} => Len(wire) = 1 + out
  /\ at \in {"compress", "send", "gather"} => input = 0 /\ restored = <<>>
  /\ at \in {"decompress", "accepted"} => out < UInt
  /\ at \in {"failed", "unsent"} => faults
  /\ at = "overrun" => out >= UInt
  /\ at = "refused" => faults \/ out >= UInt \/ len > IntMax
  /\ at = "accepted" => len <= IntMax

(* What is restored is the slice from its beginning, and all of it once    *)
(* the whole frame has been taken.                                         *)
RestoreInv ==
  /\ Len(restored) <= len
  /\ restored = UpTo(Len(restored))
  /\ at = "decompress" => input <= out /\ (input = out => Len(restored) = len)
  /\ at = "accepted" => Len(restored) = len

(* Every buffer is linked once or is the current one, and is not freed     *)
(* before the end.                                                         *)
OwnerInv ==
  /\ \A i, j \in 1 .. Len(compress_buf_) : i # j => compress_buf_[i].c # compress_buf_[j].c
  /\ buff_out \notin Linked
  /\ DOMAIN mem = Linked \cup {buff_out}
  /\ at \notin Finals => freed = {}
  /\ at = "failed" => buff_out \in freed
  /\ at # "failed" => buff_out \notin freed

(* Chunk i starts at unit P[i] of what is to be sent, holds the units from *)
(* there on, and the wire holds what is in front of the next unit.         *)
Layout(P) ==
  /\ P[1] = 0
  /\ P[Len(compress_buf_) + 1] = IF compress_buf_ = <<>> THEN 0 ELSE 1 + out
  /\ \A i \in 1 .. Len(compress_buf_) : /\ P[i + 1] = P[i] + compress_buf_[i].len
                                        /\ P[i + 1] <= 1 + out
  /\ \A i \in 1 .. Len(compress_buf_) :
       /\ Len(mem[compress_buf_[i].c]) = compress_buf_[i].len
       /\ \A j \in 1 .. compress_buf_[i].len : mem[compress_buf_[i].c][j] = P[i] + j - 1
  /\ chunk <= Len(compress_buf_) + 1
  /\ w_index > 0 => chunk <= Len(compress_buf_) /\ w_index <= compress_buf_[chunk].len
  /\ Len(wire) = P[chunk] + w_index
  /\ \A i \in 1 .. Len(wire) : wire[i] = i - 1

LayoutInv == /\ compress_buf_ = <<>> => out = 0
             /\ \E P \in [1 .. Len(compress_buf_) + 1 -> Nat] : Layout(P)

IInv == /\ TypeOK
        /\ InputInv
        /\ StageInv
        /\ RestoreInv
        /\ OwnerInv
        /\ LayoutInv
-----------------------------------------------------------------------------
(* The constants that the proofs need as numbers. *)
LEMMA UIntFacts == /\ UInt \in Nat /\ UInt > 1 /\ IntMax \in Nat
                   /\ MaxLen \in Nat /\ MaxLen < UInt
                   /\ MaxFrame \in Nat \ {0} /\ Grow \in Nat
  BY CodecAssumption

(* Storing a number in a uint32_t keeps it exactly if it fits. *)
LEMMA ModFacts ==
  ASSUME NEW n \in Nat
  PROVE  /\ n % UInt \in 0 .. UInt - 1
         /\ n % UInt = n <=> n < UInt
  <1>1. UInt \in Nat /\ UInt > 0
    BY UIntFacts
  <1>2. n % UInt \in 0 .. UInt - 1
    BY <1>1
  <1>3. n < UInt => n % UInt = n
    BY <1>1
  <1> QED
    BY <1>1, <1>2, <1>3

(* A function on 1 .. n is a sequence of length n. *)
LEMMA SeqOfFcn ==
  ASSUME NEW n \in Nat, NEW S, NEW f \in [1 .. n -> S]
  PROVE  f \in Seq(S) /\ Len(f) = n
  OBVIOUS

(* The elements of UpTo(n). *)
LEMMA UpToFacts ==
  ASSUME NEW n \in Nat
  PROVE  /\ UpTo(n) \in Seq(1 .. n)
         /\ Len(UpTo(n)) = n
         /\ \A i \in 1 .. n : UpTo(n)[i] = i
  <1>1. UpTo(n) \in [1 .. n -> 1 .. n]
    BY DEF UpTo
  <1> QED
    BY <1>1 DEF UpTo

(* A sequence whose elements are their own indices is UpTo of its length. *)
LEMMA IsUpTo ==
  ASSUME NEW S, NEW s \in Seq(S), \A i \in 1 .. Len(s) : s[i] = i
  PROVE  s = UpTo(Len(s))
  <1>1. s \in [1 .. Len(s) -> S] /\ Len(s) \in Nat
    BY LenProperties
  <1> QED
    BY <1>1 DEF UpTo
(* The input that one call of ZSTD_compressStream2() takes. *)
LEMMA InFacts ==
  ASSUME NEW k \in Nat, index \in Nat, pos \in Nat
  PROVE  /\ [i \in 1 .. k |-> InputAt(i)] \in Seq(index + pos + 1 .. index + pos + k)
         /\ Len([i \in 1 .. k |-> InputAt(i)]) = k
         /\ \A j \in 1 .. k : [i \in 1 .. k |-> InputAt(i)][j] = index + pos + j
  <1>1. [i \in 1 .. k |-> InputAt(i)] \in [1 .. k -> index + pos + 1 .. index + pos + k]
    BY DEF InputAt
  <1> QED
    BY <1>1 DEF InputAt

(* Two sequences and one more element, put together. *)
LEMMA ConcatFacts ==
  ASSUME NEW S, NEW s \in Seq(S), NEW t \in Seq(S), NEW e \in S
  PROVE  /\ (s \o t) \o <<e>> \in Seq(S)
         /\ Len((s \o t) \o <<e>>) = Len(s) + Len(t) + 1
         /\ \A i \in 1 .. Len(s) : ((s \o t) \o <<e>>)[i] = s[i]
         /\ \A i \in 1 .. Len(t) : ((s \o t) \o <<e>>)[Len(s) + i] = t[i]
         /\ ((s \o t) \o <<e>>)[Len(s) + Len(t) + 1] = e
  <1> DEFINE st == s \o t
             u == <<e>>
  <1>1. Len(s) \in Nat /\ Len(t) \in Nat
    OBVIOUS
  <1>2. st \in Seq(S) /\ u \in Seq(S)
    OBVIOUS
  <1>3. /\ Len(st) = Len(s) + Len(t)
        /\ \A i \in 1 .. Len(s) + Len(t) : st[i] = IF i <= Len(s) THEN s[i] ELSE t[i - Len(s)]
    BY ConcatProperties
  <1>4. Len(u) = 1 /\ u[1] = e
    OBVIOUS
  <1> HIDE DEF st, u
  <1>5. /\ st \o u \in Seq(S)
        /\ Len(st \o u) = Len(st) + Len(u)
        /\ \A i \in 1 .. Len(st) + Len(u) :
             (st \o u)[i] = IF i <= Len(st) THEN st[i] ELSE u[i - Len(st)]
    BY <1>2, ConcatProperties
  <1>6. /\ Len(st \o u) = Len(s) + Len(t) + 1
        /\ (st \o u)[Len(s) + Len(t) + 1] = e
    BY <1>1, <1>3, <1>4, <1>5
  <1>7. ASSUME NEW i \in 1 .. Len(s)
        PROVE  (st \o u)[i] = s[i]
    BY <1>1, <1>3, <1>4, <1>5
  <1>8. ASSUME NEW i \in 1 .. Len(t)
        PROVE  (st \o u)[Len(s) + i] = t[i]
    BY <1>1, <1>3, <1>4, <1>5
  <1> QED
    BY <1>5, <1>6, <1>7, <1>8 DEF st, u

(* What LinkCompressChunk does to the buffers and to the list, element by  *)
(* element.                                                                *)
LEMMA LinkFacts ==
  ASSUME NEW n \in Nat, NEW S, NEW R, mem \in Seq(Seq(S)), buff_out \in DOMAIN mem,
         compress_buf_ \in Seq(R),
         0 \in S, out \in Nat, \A i \in 1 .. n : out + i \in S, LinkCompressChunk(n),
         [c |-> Len(mem) + 1, len |-> 1] \in R,
         [c |-> buff_out, len |-> n] \in R
  PROVE  /\ mem' \in Seq(Seq(S))
         /\ Len(mem') = Len(mem) + (IF compress_buf_ = <<>> THEN 2 ELSE 1)
         /\ mem'[buff_out] \in Seq(S)
         /\ Len(mem'[buff_out]) = n
         /\ \A i \in 1 .. n : mem'[buff_out][i] = out + i
         /\ \A b \in DOMAIN mem \ {buff_out} : mem'[b] = mem[b]
         /\ compress_buf_ = <<>> => mem'[Len(mem) + 1] = <<0>>
         /\ buff_out' = Len(mem')
         /\ compress_buf_' \in Seq(R)
         /\ Len(compress_buf_') = Len(compress_buf_) + (IF compress_buf_ = <<>> THEN 2 ELSE 1)
         /\ \A i \in 1 .. Len(compress_buf_) : compress_buf_'[i] = compress_buf_[i]
         /\ compress_buf_ = <<>> => compress_buf_'[1] = [c |-> Len(mem) + 1, len |-> 1]
         /\ compress_buf_'[Len(compress_buf_')] = [c |-> buff_out, len |-> n]
  <1> DEFINE new == [i \in 1 .. n |-> out + i]
             filled == [mem EXCEPT ![buff_out] = new]
             first == compress_buf_ = <<>>
             front == IF first THEN << [c |-> Len(mem) + 1, len |-> 1] >> ELSE <<>>
             head == IF first THEN << <<0>> >> ELSE <<>>
  <1>1. new \in Seq(S) /\ Len(new) = n /\ \A i \in 1 .. n : new[i] = out + i
    <2>1. new \in [1 .. n -> S] /\ \A i \in 1 .. n : new[i] = out + i
      OBVIOUS
    <2> HIDE DEF new
    <2> QED
      BY <2>1, SeqOfFcn
  <1>2. /\ mem' = (filled \o head) \o << <<>> >>
        /\ compress_buf_' = (compress_buf_ \o front) \o << [c |-> buff_out, len |-> n] >>
        /\ buff_out' = Len(mem')
    BY DEF LinkCompressChunk
  <1>3. /\ Len(mem) \in Nat /\ buff_out \in 1 .. Len(mem) /\ DOMAIN mem = 1 .. Len(mem)
        /\ Len(compress_buf_) \in Nat
        /\ first => Len(compress_buf_) = 0
    OBVIOUS
  <1>4. /\ filled \in Seq(Seq(S)) /\ Len(filled) = Len(mem)
        /\ filled[buff_out] = new
        /\ \A j \in 1 .. Len(mem) : j # buff_out => filled[j] = mem[j]
    <2> HIDE DEF new
    <2> QED
      BY <1>1, <1>3, ExceptSeq
  <1>5. head \in Seq(Seq(S)) /\ front \in Seq(R) /\ <<>> \in Seq(S)
    OBVIOUS
  <1>6. /\ Len(head) = IF first THEN 1 ELSE 0
        /\ Len(front) = IF first THEN 1 ELSE 0
        /\ first => /\ head[1] = <<0>>
                    /\ front[1] = [c |-> Len(mem) + 1, len |-> 1]
    OBVIOUS
  <1> HIDE DEF new, filled, first, front, head
  <1>7. /\ mem' \in Seq(Seq(S))
        /\ Len(mem') = Len(filled) + Len(head) + 1
        /\ \A i \in 1 .. Len(filled) : mem'[i] = filled[i]
        /\ \A i \in 1 .. Len(head) : mem'[Len(filled) + i] = head[i]
    <2> DEFINE T == Seq(S)
               fresh == <<>>
               r == (filled \o head) \o << fresh >>
    <2>1. filled \in Seq(T)
      BY <1>4
    <2>2. head \in Seq(T)
      BY <1>5
    <2>3. fresh \in T
      OBVIOUS
    <2> HIDE DEF fresh, T
    <2>4. r \in Seq(T)
      BY <2>1, <2>2, <2>3, ConcatFacts
    <2>5. Len(r) = Len(filled) + Len(head) + 1
      BY <2>1, <2>2, <2>3, ConcatFacts
    <2>6. \A i \in 1 .. Len(filled) : r[i] = filled[i]
      BY <2>1, <2>2, <2>3, ConcatFacts
    <2>7. \A i \in 1 .. Len(head) : r[Len(filled) + i] = head[i]
      BY <2>1, <2>2, <2>3, ConcatFacts
    <2> HIDE DEF r
    <2>8. mem' = r
      BY <1>2 DEF r, fresh
    <2> QED
      BY <2>4, <2>5, <2>6, <2>7, <2>8 DEF T
  <1>8. /\ compress_buf_' \in Seq(R)
        /\ Len(compress_buf_') = Len(compress_buf_) + Len(front) + 1
        /\ \A i \in 1 .. Len(compress_buf_) : compress_buf_'[i] = compress_buf_[i]
        /\ \A i \in 1 .. Len(front) : compress_buf_'[Len(compress_buf_) + i] = front[i]
        /\ compress_buf_'[Len(compress_buf_) + Len(front) + 1] = [c |-> buff_out, len |-> n]
    <2> DEFINE back == [c |-> buff_out, len |-> n]
               r == (compress_buf_ \o front) \o << back >>
    <2>1. compress_buf_' = r /\ back \in R
      BY <1>2
    <2> HIDE DEF back
    <2>2. r \in Seq(R)
      BY <1>5, <2>1, ConcatFacts
    <2>3. Len(r) = Len(compress_buf_) + Len(front) + 1
      BY <1>5, <2>1, ConcatFacts
    <2>4. \A i \in 1 .. Len(compress_buf_) : r[i] = compress_buf_[i]
      BY <1>5, <2>1, ConcatFacts
    <2>5. \A i \in 1 .. Len(front) : r[Len(compress_buf_) + i] = front[i]
      BY <1>5, <2>1, ConcatFacts
    <2>6. r[Len(compress_buf_) + Len(front) + 1] = back
      BY <1>5, <2>1, ConcatFacts
    <2> HIDE DEF r
    <2> QED
      BY <2>1, <2>2, <2>3, <2>4, <2>5, <2>6 DEF back
  <1>9. /\ mem'[buff_out] = new
        /\ \A b \in DOMAIN mem \ {buff_out} : mem'[b] = mem[b]
    BY <1>3, <1>4, <1>7
  <1>10. /\ Len(mem') = Len(mem) + (IF first THEN 2 ELSE 1)
         /\ Len(compress_buf_') = Len(compress_buf_) + (IF first THEN 2 ELSE 1)
         /\ compress_buf_'[Len(compress_buf_')] = [c |-> buff_out, len |-> n]
    <2>1. CASE first
      BY <1>3, <1>4, <1>6, <1>7, <1>8, <2>1
    <2>2. CASE ~first
      BY <1>3, <1>4, <1>6, <1>7, <1>8, <2>2
    <2> QED
      BY <2>1, <2>2
  <1>11. ASSUME first
         PROVE  /\ mem'[Len(mem) + 1] = <<0>>
                /\ compress_buf_'[1] = [c |-> Len(mem) + 1, len |-> 1]
    <2>1. 1 \in 1 .. Len(head) /\ 1 \in 1 .. Len(front)
      BY <1>6, <1>11
    <2>2. mem'[Len(filled) + 1] = head[1] /\ compress_buf_'[Len(compress_buf_) + 1] = front[1]
      BY <1>7, <1>8, <2>1
    <2> QED
      BY <1>3, <1>4, <1>6, <1>11, <2>2
  <1>12. /\ mem'[buff_out] \in Seq(S)
         /\ Len(mem'[buff_out]) = n
         /\ \A i \in 1 .. n : mem'[buff_out][i] = out + i
    BY <1>1, <1>9
  <1> QED
    BY <1>2, <1>7, <1>8, <1>9, <1>10, <1>11, <1>12 DEF first

(* A sequence whose elements are in B is a sequence over B. *)
LEMMA SeqIn ==
  ASSUME NEW A, NEW B, NEW s \in Seq(A), \A i \in 1 .. Len(s) : s[i] \in B
  PROVE  s \in Seq(B)
  <1>1. Len(s) \in Nat /\ s \in [1 .. Len(s) -> B]
    BY LenProperties
  <1> QED
    BY <1>1

(* The input chunk of a call lies within the slice, and ends it if it is   *)
(* the last.                                                               *)
LEMMA SizeFacts ==
  ASSUME TypeOK, InputInv
  PROVE  /\ len \in Nat /\ index \in Nat /\ pos \in Nat /\ out \in Nat /\ pend \in Nat
         /\ buff_out_size \in Nat \ {0} /\ act_buff_in_size \in Nat
         /\ index + act_buff_in_size <= len
         /\ last_chunk <=> index + act_buff_in_size = len
  <1>1. /\ len \in Nat /\ index \in Nat /\ pos \in Nat /\ out \in Nat /\ pend \in Nat
        /\ index < len
        /\ buff_in_size \in Nat \ {0} /\ buff_out_size \in Nat \ {0}
    BY CodecAssumption DEF TypeOK, InputInv, buff_in_size, buff_out_size
  <1> QED
    BY <1>1 DEF act_buff_in_size, last_chunk

(* One call of ZSTD_compressStream2(): the input and the size of the       *)
(* frame.                                                                  *)
LEMMA CompressInput ==
  ASSUME IInv,
         NEW k \in 0 .. act_buff_in_size - pos, NEW g \in 0 .. Grow,
         NEW n \in 0 .. buff_out_size,
         CompressStream2(k, g, n), LinkCompressChunk(n),
         UNCHANGED len,
         \/ ~finished(k) /\ pos' = pos + k /\ UNCHANGED <<at, index, header>>
         \/ /\ finished(k) /\ ~last_chunk
            /\ index' = index + act_buff_in_size /\ pos' = 0
            /\ UNCHANGED <<at, header>>
         \/ /\ finished(k) /\ last_chunk
            /\ SetChunkLinksHeader
            /\ at' = "send" /\ pos' = pos + k /\ UNCHANGED index
  PROVE  /\ InputInv'
         /\ index' \in 0 .. len /\ pos' \in 0 .. len /\ ate' \in Seq(1 .. len)
         /\ pend' \in Nat /\ ended' \in BOOLEAN /\ out' \in 0 .. MaxFrame
         /\ out' = out + n
         /\ at' # at => ended' /\ pend' = 0
  <1> USE DEF IInv
  <1>1. /\ len \in Nat /\ index \in Nat /\ pos \in Nat /\ out \in Nat /\ pend \in Nat
        /\ act_buff_in_size \in Nat
        /\ index + act_buff_in_size <= len
        /\ last_chunk <=> index + act_buff_in_size = len
    BY SizeFacts
  <1>2. k \in Nat /\ g \in Nat /\ n \in Nat /\ pos + k <= act_buff_in_size /\ MaxFrame \in Nat
    BY <1>1, SizeFacts, UIntFacts DEF InputInv
  <1>3. /\ ended' <=> index + pos + k = len
        /\ ended' \in BOOLEAN
        /\ out' = out + n /\ pend' = pend + g - n /\ n <= pend + g
        /\ out + pend + g <= MaxFrame
    <2>1. ended' = (last_chunk /\ k = act_buff_in_size - pos)
      BY DEF CompressStream2
    <2>2. ended' \in BOOLEAN
      BY <2>1
    <2>3. last_chunk /\ k = act_buff_in_size - pos <=> index + pos + k = len
      BY <1>1, <1>2
    <2> QED
      <3>1. ended' <=> index + pos + k = len
        BY <2>1, <2>3
      <3>2. /\ out' = out + n /\ pend' = pend + g - n /\ n <= pend + g
            /\ out + pend + g <= MaxFrame
        BY <1>1, <1>2 DEF CompressStream2
      <3> QED
        BY <2>2, <3>1, <3>2
  <1>4. ended' => out + pend + g > 0
    BY <1>1, <1>2 DEF CompressStream2, InputInv
  <1>5. out' + pend' <= MaxFrame /\ pend' \in Nat /\ out' \in 0 .. MaxFrame
    BY <1>1, <1>2, <1>3
  <1>6. /\ index' + pos' = index + pos + k /\ index' \in Nat /\ pos' \in Nat /\ index' < len
        /\ pos' <= act_buff_in_size'
        /\ at' # at => ended' /\ pend' = 0
    <2>1. CASE index' = index /\ pos' = pos + k
      <3>1. act_buff_in_size' = act_buff_in_size
        BY <2>1 DEF act_buff_in_size, last_chunk, buff_in_size
      <3>2. at' # at => ended' /\ pend' = 0
        BY DEF finished
      <3> QED
        BY <1>1, <1>2, <2>1, <3>1, <3>2 DEF InputInv
    <2>2. CASE /\ finished(k) /\ ~last_chunk
               /\ index' = index + act_buff_in_size /\ pos' = 0 /\ at' = at
      <3>1. pos + k = act_buff_in_size /\ index' < len
        BY <1>1, <2>2 DEF finished
      <3>2. act_buff_in_size' \in Nat
        BY <1>1, <3>1, <2>2, CodecAssumption DEF act_buff_in_size, buff_in_size
      <3> QED
        BY <1>1, <1>2, <2>2, <3>1, <3>2
    <2> QED
      BY <2>1, <2>2 DEF finished
  <1>7. ate' = UpTo(index' + pos') /\ ate' \in Seq(1 .. len)
    <2> DEFINE more == [i \in 1 .. k |-> InputAt(i)]
               m == index + pos
    <2>1. m \in Nat /\ m + k \in Nat /\ m + k <= len
      BY <1>1, <1>2
    <2>2. more \in Seq(m + 1 .. m + k) /\ Len(more) = k /\ \A j \in 1 .. k : more[j] = m + j
      BY <1>1, <1>2, InFacts
    <2>3. ate \in Seq(1 .. m) /\ Len(ate) = m /\ \A j \in 1 .. m : ate[j] = j
      BY <2>1, UpToFacts DEF InputInv
    <2>4. ate' = ate \o more
      BY DEF CompressStream2
    <2> HIDE DEF more, m
    <2>5. ate \in Seq(Nat) /\ more \in Seq(Nat)
      BY <1>2, <2>1, <2>2, <2>3, SeqIn
    <2>6. /\ ate' \in Seq(Nat) /\ Len(ate') = m + k
          /\ \A i \in 1 .. m + k : ate'[i] = IF i <= m THEN ate[i] ELSE more[i - m]
      <3>1. /\ ate' \in Seq(Nat)
            /\ Len(ate') = Len(ate) + Len(more)
            /\ \A i \in 1 .. Len(ate) + Len(more) :
                 ate'[i] = IF i <= Len(ate) THEN ate[i] ELSE more[i - Len(ate)]
        BY <2>4, <2>5, ConcatProperties
      <3> QED
        BY <2>2, <2>3, <3>1
    <2>7. \A i \in 1 .. m + k : ate'[i] = i
      BY <1>2, <2>1, <2>2, <2>3, <2>6
    <2>8. ate' = UpTo(m + k)
      BY <2>6, <2>7, IsUpTo
    <2>9. ate' \in Seq(1 .. len)
      BY <1>1, <2>1, <2>6, <2>7, SeqIn
    <2> QED
      BY <1>6, <2>8, <2>9 DEF m
  <1>8. InputInv'
    <2>1. ended' => index' + pos' = len'
      BY <1>3, <1>6
    <2>2. ended' => out' + pend' > 0
      BY <1>1, <1>2, <1>3, <1>4
    <2> QED
      BY <1>5, <1>6, <1>7, <2>1, <2>2 DEF InputInv
  <1> QED
    <2>1. index' \in 0 .. len /\ pos' \in 0 .. len
      BY <1>1, <1>2, <1>6
    <2> QED
      BY <1>3, <1>5, <1>6, <1>7, <1>8, <2>1

(* LinkFacts for what Compress links: types, buffers and chunks. *)
LEMMA CompressLink ==
  ASSUME IInv, at = "compress", NEW n \in Nat, LinkCompressChunk(n), out' = out + n,
         out + n <= MaxFrame
  PROVE  /\ mem' \in Seq(Seq(0 .. MaxFrame))
         /\ compress_buf_' \in Seq([c : DOMAIN mem', len : 0 .. MaxFrame])
         /\ buff_out' \in DOMAIN mem' /\ buff_out' = Len(mem')
         /\ DOMAIN mem = 1 .. Len(mem) /\ DOMAIN mem' = 1 .. Len(mem')
         /\ Len(mem) \in Nat /\ Len(mem') \in Nat
         /\ Len(mem') = Len(mem) + (IF compress_buf_ = <<>> THEN 2 ELSE 1)
         /\ Len(mem'[buff_out]) = n
         /\ \A i \in 1 .. n : mem'[buff_out][i] = out + i
         /\ \A b \in DOMAIN mem \ {buff_out} : mem'[b] = mem[b]
         /\ compress_buf_ = <<>> => mem'[Len(mem) + 1] = <<0>>
         /\ Len(compress_buf_) \in Nat
         /\ Len(compress_buf_') = Len(compress_buf_) + (IF compress_buf_ = <<>> THEN 2 ELSE 1)
         /\ \A i \in 1 .. Len(compress_buf_) : compress_buf_'[i] = compress_buf_[i]
         /\ compress_buf_ = <<>> => compress_buf_'[1] = [c |-> Len(mem) + 1, len |-> 1]
         /\ compress_buf_'[Len(compress_buf_')] = [c |-> buff_out, len |-> n]
         /\ compress_buf_ = <<>> <=> Len(compress_buf_) = 0
         /\ \A i \in 1 .. Len(compress_buf_) : /\ compress_buf_[i].c \in DOMAIN mem
                                               /\ compress_buf_[i].len \in 0 .. MaxFrame
  <1> DEFINE S == 0 .. MaxFrame
             D == DOMAIN mem
             Q == [c : D, len : S]
             R == [c : Nat, len : Nat]
             first == compress_buf_ = <<>>
  <1>1. /\ mem \in Seq(Seq(S)) /\ buff_out \in D /\ compress_buf_ \in Seq(Q)
        /\ out \in Nat /\ MaxFrame \in Nat \ {0}
    BY UIntFacts DEF IInv, TypeOK
  <1>2. D = 1 .. Len(mem) /\ Len(mem) \in Nat
    BY <1>1
  <1>3. /\ \A i \in 1 .. Len(compress_buf_) : compress_buf_[i] \in Q
        /\ Len(compress_buf_) \in Nat /\ (first <=> Len(compress_buf_) = 0)
    <2> HIDE DEF Q
    <2> QED
      BY <1>1
  <1>4. /\ \A q \in Q : q.c \in D /\ q.len \in S
        /\ Q \subseteq R
    BY <1>1, <1>2
  <1>5. /\ compress_buf_ \in Seq(R)
        /\ [c |-> Len(mem) + 1, len |-> 1] \in R
        /\ [c |-> buff_out, len |-> n] \in R
    <2>1. compress_buf_ \in Seq(R)
      <3> HIDE DEF Q, R
      <3> QED
        BY <1>1, <1>4, SeqMonotonic
    <2> QED
      BY <1>1, <1>2, <2>1
  <1>6. 0 \in S /\ \A i \in 1 .. n : out + i \in S
    BY <1>1
  <1>7. /\ mem' \in Seq(Seq(S))
        /\ Len(mem') = Len(mem) + (IF first THEN 2 ELSE 1)
        /\ Len(mem'[buff_out]) = n
        /\ \A i \in 1 .. n : mem'[buff_out][i] = out + i
        /\ \A b \in D \ {buff_out} : mem'[b] = mem[b]
        /\ first => mem'[Len(mem) + 1] = <<0>>
        /\ buff_out' = Len(mem')
        /\ compress_buf_' \in Seq(R)
        /\ Len(compress_buf_') = Len(compress_buf_) + (IF first THEN 2 ELSE 1)
        /\ \A i \in 1 .. Len(compress_buf_) : compress_buf_'[i] = compress_buf_[i]
        /\ first => compress_buf_'[1] = [c |-> Len(mem) + 1, len |-> 1]
        /\ compress_buf_'[Len(compress_buf_')] = [c |-> buff_out, len |-> n]
    <2> HIDE DEF S, R
    <2> QED
      BY <1>1, <1>5, <1>6, LinkFacts
  <1>8. DOMAIN mem' = 1 .. Len(mem') /\ Len(mem') \in Nat /\ Len(mem') > Len(mem)
    <2>1. DOMAIN mem' = 1 .. Len(mem') /\ Len(mem') \in Nat
      BY <1>7, LenProperties
    <2>2. CASE first
      BY <1>2, <1>7, <2>1, <2>2
    <2>3. CASE ~first
      BY <1>2, <1>7, <2>1, <2>3
    <2> QED
      BY <2>1, <2>2, <2>3
  <1>9. ASSUME NEW i \in 1 .. Len(compress_buf_')
        PROVE  compress_buf_'[i] \in [c : DOMAIN mem', len : S]
    <2>1. /\ i \in Nat
          /\ i \in 1 .. Len(compress_buf_) \/ i = Len(compress_buf_') \/ (first /\ i = 1)
      <3> DEFINE l == Len(compress_buf_)
                 m == Len(compress_buf_')
      <3>1. l \in Nat /\ (first <=> l = 0) /\ m = l + (IF first THEN 2 ELSE 1) /\ i \in 1 .. m
        BY <1>3, <1>7
      <3> HIDE DEF l, m, first
      <3>2. i \in Nat /\ (i \in 1 .. l \/ i = m \/ (first /\ i = 1))
        BY <3>1
      <3> QED
        BY <3>2 DEF l, m
    <2>2. CASE i \in 1 .. Len(compress_buf_)
      <3>1. compress_buf_'[i] = compress_buf_[i] /\ compress_buf_[i] \in Q
        BY <1>3, <1>7, <2>2
      <3>2. D \subseteq DOMAIN mem'
        BY <1>2, <1>8
      <3> QED
        BY <3>1, <3>2
    <2>3. CASE i = Len(compress_buf_')
      <3>1. buff_out \in DOMAIN mem' /\ n \in S
        BY <1>1, <1>2, <1>8
      <3>2. compress_buf_'[i] = [c |-> buff_out, len |-> n]
        BY <1>7, <2>3
      <3> QED
        BY <3>1, <3>2
    <2>4. CASE first /\ i = 1
      <3>1. Len(mem) + 1 \in DOMAIN mem' /\ 1 \in S
        BY <1>1, <1>2, <1>8
      <3>2. compress_buf_'[i] = [c |-> Len(mem) + 1, len |-> 1]
        BY <1>7, <2>4
      <3> QED
        BY <3>1, <3>2
    <2> QED
      BY <2>1, <2>2, <2>3, <2>4
  <1>10. compress_buf_' \in Seq([c : DOMAIN mem', len : S])
    <2> DEFINE B == [c : DOMAIN mem', len : S]
    <2>1. \A i \in 1 .. Len(compress_buf_') : compress_buf_'[i] \in B
      BY <1>9
    <2>2. compress_buf_' \in Seq(R)
      BY <1>7
    <2> HIDE DEF B, R
    <2>3. compress_buf_' \in Seq(B)
      BY <2>1, <2>2, SeqIn
    <2> QED
      BY <2>3 DEF B
  <1>11. buff_out' \in DOMAIN mem'
    BY <1>2, <1>7, <1>8
  <1> HIDE DEF Q, R
  <1> QED
    BY <1>2, <1>3, <1>4, <1>7, <1>8, <1>10, <1>11

(* Linking a chunk gives every buffer one owner. *)
LEMMA CompressOwner ==
  ASSUME IInv, at = "compress", NEW n \in Nat, LinkCompressChunk(n), out' = out + n,
         out + n <= MaxFrame,
         freed' = freed, at' \in {"compress", "send"}
  PROVE  OwnerInv'
  <1> DEFINE first == compress_buf_ = <<>>
             L == Len(compress_buf_)
  <1>1. /\ buff_out' = Len(mem') /\ DOMAIN mem = 1 .. Len(mem) /\ DOMAIN mem' = 1 .. Len(mem')
        /\ Len(mem) \in Nat /\ L \in Nat /\ (first <=> L = 0)
        /\ Len(mem') = Len(mem) + (IF first THEN 2 ELSE 1)
        /\ Len(compress_buf_') = L + (IF first THEN 2 ELSE 1)
        /\ \A i \in 1 .. L : /\ compress_buf_'[i].c = compress_buf_[i].c
                             /\ compress_buf_[i].c \in 1 .. Len(mem)
        /\ first => compress_buf_'[1].c = Len(mem) + 1
        /\ compress_buf_'[Len(compress_buf_')].c = buff_out
    <2>1. /\ buff_out' = Len(mem') /\ DOMAIN mem = 1 .. Len(mem) /\ DOMAIN mem' = 1 .. Len(mem')
          /\ Len(mem) \in Nat /\ L \in Nat /\ (first <=> L = 0)
          /\ Len(mem') = Len(mem) + (IF first THEN 2 ELSE 1)
          /\ Len(compress_buf_') = L + (IF first THEN 2 ELSE 1)
      BY CompressLink
    <2>2. /\ \A i \in 1 .. L : /\ compress_buf_'[i] = compress_buf_[i]
                               /\ compress_buf_[i].c \in DOMAIN mem
          /\ first => compress_buf_'[1] = [c |-> Len(mem) + 1, len |-> 1]
          /\ compress_buf_'[Len(compress_buf_')] = [c |-> buff_out, len |-> n]
      BY CompressLink
    <2> HIDE DEF L, first
    <2> QED
      BY <2>1, <2>2
  <1>2. /\ \A i, j \in 1 .. L : i # j => compress_buf_[i].c # compress_buf_[j].c
        /\ \A i \in 1 .. L : compress_buf_[i].c # buff_out
        /\ buff_out \in 1 .. Len(mem)
        /\ \A b \in 1 .. Len(mem) : b = buff_out \/ \E i \in 1 .. L : compress_buf_[i].c = b
        /\ freed = {}
    <2>1. /\ \A i, j \in 1 .. L : i # j => compress_buf_[i].c # compress_buf_[j].c
          /\ buff_out \notin Linked /\ DOMAIN mem = Linked \cup {buff_out} /\ freed = {}
          /\ buff_out \in 1 .. Len(mem)
      BY <1>1 DEF IInv, TypeOK, OwnerInv, Finals
    <2>2. \A b \in 1 .. Len(mem) : b = buff_out \/ b \in Linked
      BY <1>1, <2>1
    <2>3. \A b : b \in Linked <=> \E i \in 1 .. L : compress_buf_[i].c = b
      BY DEF Linked
    <2> HIDE DEF L
    <2> QED
      BY <2>1, <2>2, <2>3
  <1> HIDE DEF first, L
  <1> DEFINE M == Len(compress_buf_')
             B(i) == compress_buf_'[i].c
  <1>a. /\ \A i \in 1 .. M : i \in 1 .. L \/ i = M \/ (first /\ i = 1)
        /\ \A i \in 1 .. L : i \in 1 .. M /\ i # M
        /\ first => 1 # M /\ \A i \in 1 .. L : FALSE
    BY <1>1
  <1>b. /\ \A i \in 1 .. L : B(i) = compress_buf_[i].c /\ B(i) \in 1 .. Len(mem) /\ B(i) # buff_out
        /\ first => B(1) = Len(mem) + 1
        /\ B(M) = buff_out
    BY <1>1, <1>2
  <1>c. \A i, j \in 1 .. L : i # j => B(i) # B(j)
    BY <1>2, <1>b
  <1>d. Len(mem) + 1 # buff_out /\ \A b \in 1 .. Len(mem) : b # Len(mem) + 1
    BY <1>1, <1>2
  <1>3. \A i, j \in 1 .. Len(compress_buf_') : i # j => compress_buf_'[i].c # compress_buf_'[j].c
    <2> HIDE DEF M, B
    <2>1. \A i, j \in 1 .. M : i # j => B(i) # B(j)
      BY <1>a, <1>b, <1>c, <1>d
    <2> QED
      BY <2>1 DEF M, B
  <1>4. \A i \in 1 .. Len(compress_buf_') : compress_buf_'[i].c \in 1 .. Len(mem') - 1
    <2>1. /\ \A b \in 1 .. Len(mem) : b \in 1 .. Len(mem') - 1
          /\ first => Len(mem) + 1 \in 1 .. Len(mem') - 1
      BY <1>1
    <2> HIDE DEF M, B
    <2>2. \A i \in 1 .. M : B(i) \in 1 .. Len(mem') - 1
      BY <1>2, <1>a, <1>b, <2>1
    <2> QED
      BY <2>2 DEF M, B
  <1>5. ASSUME NEW b \in 1 .. Len(mem') - 1
        PROVE  \E i \in 1 .. Len(compress_buf_') : compress_buf_'[i].c = b
    <2>1. CASE b = buff_out
      BY <1>1, <2>1
    <2>2. CASE b \in 1 .. Len(mem) /\ b # buff_out
      <3>1. PICK i \in 1 .. L : compress_buf_[i].c = b
        BY <1>2, <2>2
      <3>2. i \in 1 .. Len(compress_buf_')
        BY <1>1
      <3>3. compress_buf_'[i].c = b
        BY <1>1, <3>1
      <3> QED
        BY <3>2, <3>3
    <2>3. CASE first /\ b = Len(mem) + 1
      BY <1>1, <2>3
    <2> QED
      BY <1>1, <2>1, <2>2, <2>3
  <1>6. Linked' = 1 .. Len(mem') - 1
    <2>1. \A b : b \in Linked' <=> \E i \in 1 .. Len(compress_buf_') : compress_buf_'[i].c = b
      BY DEF Linked
    <2>2. \A b : b \in Linked' <=> b \in 1 .. Len(mem') - 1
      BY <1>4, <1>5, <2>1
    <2> QED
      BY <2>2
  <1> QED
    <2>1. buff_out' \notin Linked' /\ DOMAIN mem' = Linked' \cup {buff_out'}
      BY <1>1, <1>6
    <2> QED
      BY <1>2, <1>3, <2>1 DEF OwnerInv, Finals

(* Linking a chunk continues the layout: the new chunk starts where the    *)
(* list ended.                                                             *)
LEMMA CompressLayout ==
  ASSUME IInv, at = "compress", NEW n \in Nat, LinkCompressChunk(n), out' = out + n,
         out + n <= MaxFrame,
         UNCHANGED <<chunk, w_index, wire>>
  PROVE  LayoutInv' /\ compress_buf_' # <<>>
  <1> DEFINE first == compress_buf_ = <<>>
             L == Len(compress_buf_)
             M == Len(compress_buf_')
  <1>1. /\ L \in Nat /\ (first <=> L = 0) /\ M = L + (IF first THEN 2 ELSE 1)
        /\ Len(mem'[buff_out]) = n
        /\ \A i \in 1 .. n : mem'[buff_out][i] = out + i
        /\ \A b \in DOMAIN mem \ {buff_out} : mem'[b] = mem[b]
        /\ first => mem'[Len(mem) + 1] = <<0>>
    BY CompressLink
  <1>2. /\ \A i \in 1 .. L : /\ compress_buf_'[i] = compress_buf_[i]
                             /\ compress_buf_[i].c \in DOMAIN mem
                             /\ compress_buf_[i].len \in 0 .. MaxFrame
        /\ first => compress_buf_'[1] = [c |-> Len(mem) + 1, len |-> 1]
        /\ compress_buf_'[M] = [c |-> buff_out, len |-> n]
    BY CompressLink
  <1>3. /\ out \in Nat /\ MaxFrame \in Nat /\ (first => out = 0)
        /\ chunk = 1 /\ w_index = 0 /\ wire = <<>>
        /\ \A i \in 1 .. L : compress_buf_[i].c # buff_out
    <2>1. out \in Nat /\ MaxFrame \in Nat
      BY UIntFacts DEF IInv, TypeOK
    <2>2. first => out = 0
      BY DEF IInv, StageInv, LayoutInv
    <2>3. chunk = 1 /\ w_index = 0 /\ wire = <<>>
      BY DEF IInv, StageInv, LayoutInv
    <2>4. \A i \in 1 .. L : compress_buf_[i].c # buff_out
      BY DEF IInv, OwnerInv, Linked
    <2> QED
      BY <2>1, <2>2, <2>3, <2>4
  <1>4. PICK P \in [1 .. L + 1 -> Nat] : Layout(P)
    BY DEF IInv, LayoutInv
  <1>5. /\ P[1] = 0
        /\ P[L + 1] = IF first THEN 0 ELSE 1 + out
        /\ \A i \in 1 .. L : /\ P[i + 1] = P[i] + compress_buf_[i].len
                             /\ P[i + 1] <= 1 + out
        /\ \A i \in 1 .. L :
             /\ Len(mem[compress_buf_[i].c]) = compress_buf_[i].len
             /\ \A j \in 1 .. compress_buf_[i].len : mem[compress_buf_[i].c][j] = P[i] + j - 1
    BY <1>4 DEF Layout
  <1> DEFINE P2 == [i \in 1 .. M + 1 |-> IF i <= L + 1 THEN P[i]
                                         ELSE IF i = M THEN 1 ELSE 1 + out + n]
  <1> HIDE DEF first, L, M
  <1>6. /\ P2 \in [1 .. M + 1 -> Nat]
        /\ P2[1] = 0
        /\ P2[M + 1] = 1 + out + n
        /\ P2[M] = 1 + out
        /\ \A i \in 1 .. L : P2[i] = P[i] /\ P2[i + 1] = P[i + 1]
        /\ first => M = 2
    <2>1. CASE first
      BY <1>1, <1>3, <1>5, <2>1
    <2>2. CASE ~first
      BY <1>1, <1>3, <1>5, <2>2
    <2> QED
      BY <2>1, <2>2
  <1> HIDE DEF P2
  <1>7. ASSUME NEW i \in 1 .. M
        PROVE  /\ P2[i + 1] = P2[i] + compress_buf_'[i].len
               /\ P2[i + 1] <= 1 + out + n
               /\ Len(mem'[compress_buf_'[i].c]) = compress_buf_'[i].len
               /\ \A j \in 1 .. compress_buf_'[i].len : mem'[compress_buf_'[i].c][j] = P2[i] + j - 1
    <2>1. CASE i \in 1 .. L
      <3>1. /\ compress_buf_'[i] = compress_buf_[i]
            /\ mem'[compress_buf_[i].c] = mem[compress_buf_[i].c]
        BY <1>1, <1>2, <1>3, <2>1
      <3>2. P2[i] = P[i] /\ P2[i + 1] = P[i + 1]
        BY <1>6, <2>1
      <3>3. P[i + 1] <= 1 + out /\ P[i + 1] \in Nat
        <4>1. i + 1 \in 1 .. L + 1
          BY <1>1, <2>1
        <4> QED
          BY <1>4, <1>5, <2>1, <4>1
      <3>4. P[i + 1] <= 1 + out + n
        BY <1>3, <3>3
      <3>5. /\ P[i + 1] = P[i] + compress_buf_[i].len
            /\ Len(mem[compress_buf_[i].c]) = compress_buf_[i].len
            /\ \A j \in 1 .. compress_buf_[i].len : mem[compress_buf_[i].c][j] = P[i] + j - 1
        BY <1>5, <2>1
      <3> QED
        BY <3>1, <3>2, <3>4, <3>5
    <2>2. CASE i = M
      <3>1. compress_buf_'[i].c = buff_out /\ compress_buf_'[i].len = n
        BY <1>2, <2>2
      <3>2. out \in Nat /\ P2[i] = 1 + out /\ P2[i + 1] = 1 + out + n
        BY <1>3, <1>6, <2>2
      <3>3. \A j \in 1 .. n : out + j = P2[i] + j - 1
        BY <3>2
      <3>4. P2[i + 1] = P2[i] + n /\ P2[i + 1] <= 1 + out + n
        BY <3>2
      <3> QED
        BY <1>1, <3>1, <3>3, <3>4
    <2>3. CASE first /\ i = 1
      <3>1. compress_buf_'[i].c = Len(mem) + 1 /\ compress_buf_'[i].len = 1
        BY <1>2, <2>3
      <3>2. mem'[Len(mem) + 1] = <<0>>
        BY <1>1, <2>3
      <3>3. P2[i] = 0 /\ P2[i + 1] = 1
        BY <1>3, <1>6, <2>3
      <3> QED
        BY <1>3, <3>1, <3>2, <3>3
    <2>4. i \in 1 .. L \/ i = M \/ (first /\ i = 1)
      BY <1>1
    <2> QED
      BY <2>1, <2>2, <2>3, <2>4
  <1>8. M \in Nat /\ M > 0 /\ compress_buf_' # <<>>
    BY <1>1, CompressLink DEF M, L, first
  <1>9. PICK Q \in [1 .. M + 1 -> Nat] :
          /\ Q[1] = 0
          /\ Q[M + 1] = 1 + out'
          /\ \A i \in 1 .. M : Q[i + 1] = Q[i] + compress_buf_'[i].len /\ Q[i + 1] <= 1 + out'
          /\ \A i \in 1 .. M :
               /\ Len(mem'[compress_buf_'[i].c]) = compress_buf_'[i].len
               /\ \A j \in 1 .. compress_buf_'[i].len : mem'[compress_buf_'[i].c][j] = Q[i] + j - 1
    <2>1. out' = out + n /\ 1 + out + n = 1 + out'
      BY <1>3
    <2> QED
      BY <1>6, <1>7, <2>1
  <1>10. /\ chunk' <= M + 1 /\ ~(w_index' > 0)
         /\ Len(wire') = Q[chunk'] + w_index'
         /\ \A i \in 1 .. Len(wire') : wire'[i] = i - 1
    BY <1>3, <1>8, <1>9
  <1>11. Layout(Q)'
    BY <1>8, <1>9, <1>10 DEF Layout, M
  <1> QED
    BY <1>8, <1>9, <1>11 DEF LayoutInv, M

(* One call in Compress, and what becomes of it. *)
LEMMA CompressIInv ==
  ASSUME IInv, Compress
  PROVE  IInv'
  <1>1. /\ at = "compress"
        /\ UNCHANGED <<len, faults, freed, chunk, w_index, wire, input, restored>>
    BY DEF Compress, sending, restoring
  <1>2. PICK k \in 0 .. act_buff_in_size - pos, g \in 0 .. Grow, n \in 0 .. buff_out_size :
          /\ CompressStream2(k, g, n)
          /\ LinkCompressChunk(n)
          /\ \/ ~finished(k) /\ pos' = pos + k /\ UNCHANGED <<at, index, header>>
             \/ /\ finished(k) /\ ~last_chunk
                /\ index' = index + act_buff_in_size /\ pos' = 0
                /\ UNCHANGED <<at, header>>
             \/ /\ finished(k) /\ last_chunk
                /\ SetChunkLinksHeader
                /\ at' = "send" /\ pos' = pos + k /\ UNCHANGED index
    BY DEF Compress
  <1>3. /\ InputInv'
        /\ index' \in 0 .. len /\ pos' \in 0 .. len /\ ate' \in Seq(1 .. len)
        /\ pend' \in Nat /\ ended' \in BOOLEAN /\ out' \in 0 .. MaxFrame
        /\ out' = out + n
        /\ at' # at => ended' /\ pend' = 0
    BY <1>1, <1>2, CompressInput
  <1>4. /\ n \in Nat /\ out + n <= MaxFrame /\ out' \in Nat
        /\ len \in 1 .. MaxLen /\ len < UInt /\ len \in Nat
    BY <1>3, SizeFacts, UIntFacts DEF IInv, TypeOK
  <1>5. /\ at' \in {"compress", "send"}
        /\ at' = "compress" => header' = header
        /\ at' = "send" => header' = [len |-> len, c_len |-> out' % UInt]
    BY <1>1, <1>2, <1>4, ModFacts DEF SetChunkLinksHeader
  <1>6. OwnerInv'
    BY <1>1, <1>2, <1>3, <1>4, <1>5, CompressOwner
  <1>7. LayoutInv' /\ compress_buf_' # <<>>
    BY <1>1, <1>2, <1>3, <1>4, CompressLayout
  <1>8. TypeOK'
    <2>1. /\ mem' \in Seq(Seq(0 .. MaxFrame))
          /\ compress_buf_' \in Seq([c : DOMAIN mem', len : 0 .. MaxFrame])
          /\ buff_out' \in DOMAIN mem'
      BY <1>1, <1>2, <1>3, <1>4, CompressLink
    <2>2. freed' \subseteq DOMAIN mem'
      BY <1>1 DEF IInv, OwnerInv, Finals
    <2>3. header' \in [len : 0 .. UInt - 1, c_len : 0 .. UInt - 1]
      <3>1. out' % UInt \in 0 .. UInt - 1 /\ len \in 0 .. UInt - 1
        BY <1>4, ModFacts, UIntFacts
      <3>2. [len |-> len, c_len |-> out' % UInt] \in [len : 0 .. UInt - 1, c_len : 0 .. UInt - 1]
        BY <3>1
      <3>3. header \in [len : 0 .. UInt - 1, c_len : 0 .. UInt - 1]
        BY DEF IInv, TypeOK
      <3> QED
        BY <1>5, <3>2, <3>3
    <2> QED
      BY <1>1, <1>3, <1>5, <2>1, <2>2, <2>3 DEF IInv, TypeOK
  <1>9. StageInv'
    BY <1>1, <1>3, <1>5, <1>7 DEF IInv, StageInv
  <1>10. RestoreInv'
    BY <1>1, <1>5 DEF IInv, RestoreInv
  <1> QED
    BY <1>3, <1>6, <1>7, <1>8, <1>9, <1>10 DEF IInv

(* One write() in SendFileSlice puts the next units of the layout on the   *)
(* wire.                                                                   *)
LEMMA WriteIInv ==
  ASSUME IInv, Write
  PROVE  IInv'
  <1> DEFINE L == Len(compress_buf_)
             c == compress_buf_[chunk]
  <1>1. /\ at = "send" /\ chunk <= L
        /\ UNCHANGED <<len, faults, at, compressing, freed, restoring>>
    BY DEF Write
  <1>2. PICK n \in 0 .. c.len - w_index :
          /\ wire' = wire \o SubSeq(mem[c.c], w_index + 1, w_index + n)
          /\ \/ w_index + n < c.len /\ w_index' = w_index + n /\ UNCHANGED chunk
             \/ w_index + n = c.len /\ w_index' = 0 /\ chunk' = chunk + 1
    BY DEF Write
  <1>3. /\ L \in Nat /\ chunk \in 1 .. L /\ w_index \in Nat /\ MaxFrame \in Nat /\ out \in Nat
        /\ c.c \in DOMAIN mem /\ c.len \in 0 .. MaxFrame /\ mem[c.c] \in Seq(0 .. MaxFrame)
        /\ wire \in Seq(0 .. MaxFrame)
    <2>1. /\ compress_buf_ \in Seq([c : DOMAIN mem, len : 0 .. MaxFrame]) /\ chunk \in Nat \ {0}
          /\ w_index \in Nat /\ out \in 0 .. MaxFrame /\ mem \in Seq(Seq(0 .. MaxFrame))
          /\ wire \in Seq(0 .. MaxFrame)
      BY DEF IInv, TypeOK
    <2>2. L \in Nat /\ chunk \in 1 .. L
      BY <1>1, <2>1
    <2>3. c \in [c : DOMAIN mem, len : 0 .. MaxFrame]
      BY <2>1, <2>2, ElementOfSeq
    <2>4. c.c \in DOMAIN mem /\ c.len \in 0 .. MaxFrame
      BY <2>3
    <2>5. mem[c.c] \in Seq(0 .. MaxFrame)
      BY <2>1, <2>4, LenProperties
    <2>6. out \in Nat /\ MaxFrame \in Nat
      BY <2>1, UIntFacts
    <2> HIDE DEF L, c
    <2> QED
      BY <2>1, <2>2, <2>4, <2>5, <2>6
  <1>4. PICK P \in [1 .. L + 1 -> Nat] : Layout(P)
    BY DEF IInv, LayoutInv
  <1> DEFINE p == P[chunk]
             l == c.len
             s == mem[c.c]
             S == 0 .. MaxFrame
  <1>5. /\ p \in Nat /\ P[chunk + 1] = p + l /\ l \in Nat
        /\ w_index <= l /\ Len(wire) = p + w_index
    <2>1. p \in Nat /\ l \in Nat /\ Len(wire) = p + w_index
      <3>1. chunk \in 1 .. L + 1 /\ l \in Nat
        BY <1>3
      <3> QED
        BY <1>4, <3>1 DEF Layout
    <2>2. P[chunk + 1] = p + l
      BY <1>3, <1>4 DEF Layout
    <2>3. w_index <= l
      BY <1>3, <1>4, <2>1 DEF Layout
    <2> QED
      BY <2>1, <2>2, <2>3
  <1>6. /\ s \in Seq(S) /\ Len(s) = l /\ \A j \in 1 .. l : s[j] = p + j - 1
        /\ wire \in Seq(S) /\ \A i \in 1 .. Len(wire) : wire[i] = i - 1
    BY <1>3, <1>4 DEF Layout
  <1> DEFINE piece == SubSeq(s, w_index + 1, w_index + n)
  <1>7. wire' = wire \o piece
    BY <1>2
  <1> HIDE DEF L, c, p, l, s, S
  <1>8. n \in Nat /\ w_index + n <= l
    <2>1. w_index \in Nat /\ l \in Nat /\ w_index <= l
      BY <1>3, <1>5
    <2>2. n \in 0 .. l - w_index
      BY <1>2 DEF l
    <2> QED
      BY <2>1, <2>2
  <1>9. /\ piece \in Seq(S) /\ Len(piece) = n
        /\ \A i \in 1 .. n : piece[i] = p + w_index + i - 1
    <2> DEFINE a == w_index + 1
               b == w_index + n
    <2>0. w_index \in Nat /\ n \in Nat
      BY <1>3, <1>8
    <2>1. a \in Int /\ b \in Int /\ b - a + 1 = n
      BY <2>0
    <2>2. \A i \in a .. b : i \in 1 .. l
      BY <1>3, <1>5, <1>8
    <2>3. \A i \in a .. b : s[i] \in S
      BY <1>6, <2>2, ElementOfSeq
    <2> HIDE DEF a, b
    <2>4. /\ SubSeq(s, a, b) \in Seq(S)
          /\ Len(SubSeq(s, a, b)) = IF a <= b THEN b - a + 1 ELSE 0
          /\ \A i \in 1 .. b - a + 1 : SubSeq(s, a, b)[i] = s[a + i - 1]
      BY <2>1, <2>3, SubSeqProperties
    <2>5. Len(SubSeq(s, a, b)) = n
      BY <1>8, <2>1, <2>4
    <2>6. ASSUME NEW i \in 1 .. n
          PROVE  s[a + i - 1] = p + w_index + i - 1
      <3>1. a + i - 1 \in 1 .. l /\ a + i - 1 = w_index + i
        BY <1>3, <1>5, <1>8 DEF a
      <3>2. s[w_index + i] = p + (w_index + i) - 1
        BY <1>6, <3>1
      <3> QED
        BY <1>3, <1>5, <3>1, <3>2
    <2> QED
      BY <2>1, <2>4, <2>5, <2>6 DEF a, b
  <1> HIDE DEF piece
  <1>10. /\ wire' \in Seq(S) /\ Len(wire') = p + w_index + n
         /\ \A i \in 1 .. Len(wire') : wire'[i] = i - 1
    <2>1. /\ wire' \in Seq(S)
          /\ Len(wire') = Len(wire) + Len(piece)
          /\ \A i \in 1 .. Len(wire) + Len(piece) :
               wire'[i] = IF i <= Len(wire) THEN wire[i] ELSE piece[i - Len(wire)]
      BY <1>6, <1>7, <1>9, ConcatProperties
    <2>2. Len(wire) = p + w_index /\ Len(piece) = n /\ Len(wire) \in Nat
      BY <1>3, <1>5, <1>9
    <2>3. ASSUME NEW i \in 1 .. Len(wire) + n
          PROVE  wire'[i] = i - 1
      <3>1. CASE i <= Len(wire)
        BY <1>6, <2>1, <2>2, <3>1
      <3>2. CASE i > Len(wire)
        <4>1. i - Len(wire) \in 1 .. n
          BY <1>8, <2>2, <3>2
        <4>2. wire'[i] = piece[i - Len(wire)]
          BY <2>1, <2>2, <3>2
        <4>3. piece[i - Len(wire)] = p + w_index + (i - Len(wire)) - 1
          BY <1>9, <4>1
        <4> QED
          BY <1>3, <1>5, <2>2, <4>2, <4>3
      <3> QED
        BY <2>2, <3>1, <3>2
    <2> QED
      BY <2>1, <2>2, <2>3
  <1>11. /\ chunk' \in Nat \ {0} /\ w_index' \in Nat /\ chunk' <= L + 1
         /\ w_index' > 0 => chunk' <= L /\ chunk' = chunk /\ w_index' <= l
         /\ Len(wire') = P[chunk'] + w_index'
    <2>1. /\ L \in Nat /\ chunk \in 1 .. L /\ w_index \in Nat /\ n \in Nat /\ p \in Nat
          /\ l \in Nat
          /\ Len(wire') = p + w_index + n /\ P[chunk] = p /\ P[chunk + 1] = p + l
      BY <1>3, <1>5, <1>8, <1>10 DEF p
    <2>2. CASE w_index + n < l /\ w_index' = w_index + n /\ chunk' = chunk
      BY <2>1, <2>2
    <2>3. CASE w_index + n = l /\ w_index' = 0 /\ chunk' = chunk + 1
      BY <2>1, <2>3
    <2> QED
      BY <1>2, <2>2, <2>3 DEF l
  <1>12. Layout(P)'
    BY <1>1, <1>4, <1>10, <1>11 DEF Layout, compressing, L, l, c
  <1>13. LayoutInv'
    BY <1>1, <1>4, <1>12 DEF LayoutInv, IInv, compressing, L
  <1>14. TypeOK'
    BY <1>1, <1>10, <1>11 DEF IInv, TypeOK, compressing, restoring, S
  <1> QED
    BY <1>1, <1>13, <1>14
    DEF IInv, InputInv, act_buff_in_size, buff_in_size, last_chunk, StageInv, RestoreInv, OwnerInv,
       Linked, Finals, compressing, restoring

(* Once all is sent, what follows the header on the wire is the whole      *)
(* frame.                                                                  *)
LEMMA PayloadFacts ==
  ASSUME IInv, at \in {"gather", "decompress"}
  PROVE  /\ out \in Nat \ {0} /\ Len(payload) = out /\ payload = UpTo(out)
         /\ ended /\ header.len = len /\ header.c_len = out % UInt /\ len \in 1 .. MaxLen
         /\ ate = UpTo(len) /\ Len(ate) = len
  <1>1. /\ out \in Nat /\ ended /\ pend = 0 /\ Len(wire) = 1 + out
        /\ wire \in Seq(0 .. MaxFrame)
        /\ header = [len |-> len, c_len |-> out % UInt] /\ len \in 1 .. MaxLen
    BY DEF IInv, TypeOK, StageInv
  <1>2. out > 0 /\ ate = UpTo(len)
    BY <1>1 DEF IInv, InputInv
  <1>3. \A i \in 1 .. Len(wire) : wire[i] = i - 1
    BY DEF IInv, LayoutInv, Layout
  <1>4. wire # <<>>
    BY <1>1
  <1>5. /\ payload \in Seq(0 .. MaxFrame) /\ Len(payload) = out
        /\ \A i \in 1 .. out : payload[i] = wire[i + 1]
    BY <1>1, <1>4, HeadTailProperties DEF payload
  <1>6. \A i \in 1 .. Len(payload) : payload[i] = i
    BY <1>1, <1>3, <1>5
  <1>7. payload = UpTo(Len(payload))
    BY <1>5, <1>6, IsUpTo
  <1>8. Len(ate) = len
    BY <1>1, <1>2, UpToFacts, UIntFacts
  <1> QED
    BY <1>1, <1>2, <1>5, <1>7, <1>8

(* A step that leaves the chunks and the wire alone. *)
LEMMA ChunksKept ==
  ASSUME IInv, UNCHANGED <<len, faults, compressing, sending>>
  PROVE  InputInv' /\ LayoutInv' /\ Linked' = Linked
  BY DEF IInv, InputInv, act_buff_in_size, buff_in_size, last_chunk, LayoutInv, Layout, Linked,
         compressing, sending

(* When no chunk is left, the whole frame has been written. *)
LEMMA SentAllIInv ==
  ASSUME IInv, SentAll
  PROVE  IInv'
  <1>1. /\ at = "send" /\ chunk > Len(compress_buf_)
        /\ UNCHANGED <<len, faults, compressing, freed, sending, restoring>>
    BY DEF SentAll
  <1>2. /\ out \in Nat /\ chunk \in Nat /\ w_index \in Nat /\ Len(compress_buf_) \in Nat
        /\ compress_buf_ # <<>>
    BY <1>1 DEF IInv, TypeOK, StageInv
  <1>3. PICK P \in [1 .. Len(compress_buf_) + 1 -> Nat] : Layout(P)
    BY DEF IInv, LayoutInv
  <1>4. Len(wire) = 1 + out
    <2>1. chunk = Len(compress_buf_) + 1 /\ w_index = 0
      BY <1>1, <1>2, <1>3 DEF Layout
    <2>2. Len(wire) = P[chunk] + w_index /\ P[Len(compress_buf_) + 1] = 1 + out
      BY <1>2, <1>3 DEF Layout
    <2> QED
      BY <1>2, <2>1, <2>2
  <1>5. at' = "gather"
    BY <1>2, <1>4 DEF SentAll
  <1>6. InputInv' /\ LayoutInv' /\ Linked' = Linked
    BY <1>1, ChunksKept
  <1>7. TypeOK'
    BY <1>1, <1>5 DEF IInv, TypeOK, Finals, compressing, sending, restoring
  <1>8. StageInv' /\ RestoreInv'
    BY <1>1, <1>4, <1>5 DEF IInv, StageInv, RestoreInv, compressing, sending, restoring
  <1>9. OwnerInv'
    BY <1>1, <1>5, <1>6 DEF IInv, OwnerInv, Finals, compressing
  <1> QED
    BY <1>6, <1>7, <1>8, <1>9 DEF IInv

(* Recv gathers the whole frame unless its length did not fit the header. *)
LEMMA GatherIInv ==
  ASSUME IInv, Gather
  PROVE  IInv'
  <1>1. /\ at = "gather"
        /\ UNCHANGED <<len, faults, compressing, freed, sending, restoring>>
    BY DEF Gather
  <1>2. /\ out \in Nat \ {0} /\ Len(payload) = out /\ header.c_len = out % UInt
    BY <1>1, PayloadFacts
  <1>3. \/ at' = "decompress" /\ out < UInt
        \/ at' \in {"refused", "overrun"} /\ out >= UInt
    BY <1>2, ModFacts, UIntFacts DEF Gather
  <1>4. InputInv' /\ LayoutInv' /\ Linked' = Linked
    BY <1>1, ChunksKept
  <1>5. TypeOK'
    BY <1>1, <1>3 DEF IInv, TypeOK, Finals, compressing, sending, restoring
  <1>6. StageInv'
    BY <1>1, <1>3 DEF IInv, StageInv, compressing, sending, restoring
  <1>7. RestoreInv'
    BY <1>1, <1>2, <1>3 DEF IInv, RestoreInv, StageInv, compressing, restoring
  <1>8. OwnerInv'
    BY <1>1, <1>3, <1>4 DEF IInv, OwnerInv, Finals, compressing
  <1> QED
    BY <1>4, <1>5, <1>6, <1>7, <1>8 DEF IInv

(* One call of ZSTD_decompressStream() continues what is restored. *)
LEMMA DecompressIInv ==
  ASSUME IInv, DecompressStream
  PROVE  IInv'
  <1>1. /\ at = "decompress" /\ input < Len(payload)
        /\ UNCHANGED <<len, faults, at, compressing, freed, sending>>
    BY DEF DecompressStream
  <1>2. PICK k \in 0 .. Len(payload) - input, n \in 0 .. room :
          /\ Len(restored) + n <= Len(ate)
          /\ input + k = Len(payload) => n = room \/ Len(restored) + n = Len(ate)
          /\ input' = input + k
          /\ restored' = restored \o SubSeq(ate, Len(restored) + 1, Len(restored) + n)
    BY DEF DecompressStream
  <1>3. /\ out \in Nat \ {0} /\ Len(payload) = out /\ len \in 1 .. MaxLen /\ len \in Nat
        /\ header.len = len /\ ate = UpTo(len) /\ Len(ate) = len
    BY <1>1, PayloadFacts, UIntFacts
  <1>4. /\ restored \in Seq(1 .. len) /\ restored = UpTo(Len(restored)) /\ Len(restored) \in Nat
        /\ Len(restored) <= len /\ input \in Nat
    BY DEF IInv, TypeOK, RestoreInv
  <1> DEFINE r == Len(restored)
             S == 1 .. len
             a == r + 1
             b == r + n
             piece == SubSeq(ate, a, b)
  <1>5. restored' = restored \o piece
    BY <1>2
  <1>6. k \in Nat /\ n \in Nat /\ r + n <= len /\ r \in Nat /\ input + k <= out /\ input + k \in Nat
        /\ (input + k = out => r + n = len)
    BY <1>2, <1>3, <1>4 DEF room
  <1>7. /\ ate \in Seq(S) /\ \A i \in 1 .. len : ate[i] = i
        /\ \A i \in 1 .. r : restored[i] = i
    BY <1>3, <1>4, UpToFacts
  <1> HIDE DEF r, S, piece
  <1>8. /\ piece \in Seq(S) /\ Len(piece) = n
        /\ \A i \in 1 .. n : piece[i] = r + i
    <2>1. a \in Int /\ b \in Int /\ b - a + 1 = n /\ \A i \in a .. b : i \in 1 .. len
      BY <1>3, <1>6
    <2>2. \A i \in a .. b : ate[i] \in S
      BY <1>3, <1>7, <2>1, ElementOfSeq
    <2> HIDE DEF a, b
    <2>3. /\ SubSeq(ate, a, b) \in Seq(S)
          /\ Len(SubSeq(ate, a, b)) = IF a <= b THEN b - a + 1 ELSE 0
          /\ \A i \in 1 .. b - a + 1 : SubSeq(ate, a, b)[i] = ate[a + i - 1]
      BY <2>1, <2>2, SubSeqProperties
    <2>4. Len(SubSeq(ate, a, b)) = n
      BY <1>6, <2>1, <2>3
    <2>5. ASSUME NEW i \in 1 .. n
          PROVE  ate[a + i - 1] = r + i
      <3>1. a + i - 1 \in 1 .. len /\ a + i - 1 = r + i
        BY <1>3, <1>6 DEF a
      <3> QED
        BY <1>7, <3>1
    <2> QED
      BY <2>1, <2>3, <2>4, <2>5 DEF piece
  <1>9. /\ restored' \in Seq(S) /\ Len(restored') = r + n
        /\ \A i \in 1 .. Len(restored') : restored'[i] = i
    <2>1. /\ restored' \in Seq(S)
          /\ Len(restored') = Len(restored) + Len(piece)
          /\ \A i \in 1 .. Len(restored) + Len(piece) :
               restored'[i] = IF i <= Len(restored) THEN restored[i] ELSE piece[i - Len(restored)]
      BY <1>4, <1>5, <1>8, ConcatProperties DEF S
    <2>2. Len(restored) = r /\ Len(piece) = n
      BY <1>8 DEF r
    <2>3. ASSUME NEW i \in 1 .. r + n
          PROVE  restored'[i] = i
      <3>1. CASE i <= r
        BY <1>6, <1>7, <2>1, <2>2, <3>1
      <3>2. CASE i > r
        <4>1. i - r \in 1 .. n
          BY <1>6, <3>2
        <4>2. restored'[i] = piece[i - r] /\ piece[i - r] = r + (i - r)
          BY <1>6, <1>8, <2>1, <2>2, <3>2, <4>1
        <4> QED
          BY <1>6, <4>2
      <3> QED
        BY <1>6, <3>1, <3>2
    <2> QED
      BY <2>1, <2>2, <2>3
  <1>10. restored' = UpTo(Len(restored'))
    BY <1>9, IsUpTo
  <1>11. InputInv' /\ LayoutInv' /\ Linked' = Linked
    BY <1>1, ChunksKept
  <1>12. TypeOK'
    BY <1>1, <1>2, <1>6, <1>9 DEF IInv, TypeOK, Finals, compressing, sending, S
  <1>13. StageInv'
    BY <1>1 DEF IInv, StageInv, compressing, sending
  <1>14. RestoreInv'
    BY <1>1, <1>2, <1>6, <1>9, <1>10 DEF RestoreInv, compressing
  <1>15. OwnerInv'
    BY <1>1, <1>11 DEF IInv, OwnerInv, compressing
  <1> QED
    BY <1>11, <1>12, <1>13, <1>14, <1>15 DEF IInv

(* The steps that end the slice's story. *)
LEMMA EndIInv ==
  ASSUME IInv, CompressFails \/ SendFails \/ DecompressFails \/ Decompressed
  PROVE  IInv'
  <1>1. UNCHANGED <<len, faults, compressing, sending, restoring>>
    BY DEF CompressFails, SendFails, DecompressFails, Decompressed
  <1>2. InputInv' /\ LayoutInv' /\ Linked' = Linked
    BY <1>1, ChunksKept
  <1>3. \/ at = "compress" /\ at' = "failed" /\ faults /\ freed' = freed \cup {buff_out}
        \/ at = "send" /\ at' = "unsent" /\ faults /\ freed' = freed
        \/ at = "decompress" /\ at' = "refused" /\ faults /\ freed' = freed
        \/ /\ at = "decompress" /\ at' = "accepted" /\ freed' = freed
           /\ len <= IntMax /\ Len(restored) = len
        \/ at = "decompress" /\ at' = "refused" /\ len > IntMax /\ freed' = freed
    <2>1. CASE CompressFails
      BY <2>1 DEF CompressFails
    <2>2. CASE SendFails
      BY <2>2 DEF SendFails
    <2>3. CASE DecompressFails
      BY <2>3, PayloadFacts DEF DecompressFails, frameIntact
    <2>4. CASE Decompressed
      <3>1. at = "decompress" /\ input = Len(payload) /\ freed' = freed
        BY <2>4 DEF Decompressed
      <3>2. Len(payload) = out /\ header.len = len /\ len \in 1 .. MaxLen
        BY <3>1, PayloadFacts
      <3>3. Len(restored) = len
        BY <3>1, <3>2 DEF IInv, RestoreInv
      <3> QED
        BY <2>4, <3>1, <3>2, <3>3, UIntFacts DEF Decompressed, AsInt
    <2> QED
      BY <2>1, <2>2, <2>3, <2>4
  <1>4. TypeOK'
    BY <1>1, <1>3 DEF IInv, TypeOK, Finals, compressing, sending, restoring
  <1>5. StageInv'
    BY <1>1, <1>3 DEF IInv, StageInv, compressing, sending, restoring
  <1>6. RestoreInv'
    BY <1>1, <1>3 DEF IInv, RestoreInv, compressing, restoring
  <1>7. OwnerInv'
    BY <1>1, <1>2, <1>3 DEF IInv, OwnerInv, Finals, compressing
  <1> QED
    BY <1>2, <1>4, <1>5, <1>6, <1>7 DEF IInv

(* ~FileSlice frees the chunks and nothing else. *)
LEMMA DestroyIInv ==
  ASSUME IInv, Destroy
  PROVE  IInv'
  <1>1. /\ at \in Finals /\ freed' = freed \cup Linked
        /\ UNCHANGED <<len, faults, at, compressing, sending, restoring>>
    BY DEF Destroy
  <1>2. InputInv' /\ LayoutInv' /\ Linked' = Linked
    BY <1>1, ChunksKept
  <1>3. OwnerInv'
    BY <1>1, <1>2 DEF IInv, OwnerInv, compressing
  <1>4. TypeOK'
    <2>1. Linked \subseteq DOMAIN mem
      BY DEF IInv, OwnerInv
    <2> QED
      BY <1>1, <2>1 DEF IInv, TypeOK, compressing, sending, restoring
  <1>5. StageInv' /\ RestoreInv'
    BY <1>1 DEF IInv, StageInv, RestoreInv, compressing, sending, restoring
  <1> QED
    BY <1>2, <1>3, <1>4, <1>5 DEF IInv

(* Stuttering. *)
LEMMA SameIInv ==
  ASSUME IInv, UNCHANGED vars
  PROVE  IInv'
  <1>1. UNCHANGED <<len, faults, at, compressing, freed, sending, restoring>>
    BY DEF vars
  <1>2. InputInv' /\ LayoutInv' /\ Linked' = Linked
    BY <1>1, ChunksKept
  <1>3. TypeOK'
    BY <1>1 DEF IInv, TypeOK, Finals, compressing, sending, restoring
  <1>4. StageInv' /\ RestoreInv'
    BY <1>1 DEF IInv, StageInv, RestoreInv, compressing, sending, restoring
  <1>5. OwnerInv'
    BY <1>1, <1>2 DEF IInv, OwnerInv, Finals, compressing
  <1> QED
    BY <1>2, <1>3, <1>4, <1>5 DEF IInv

(* The invariant holds when Compress begins. *)
LEMMA InitIInv == Init => IInv
  <1> SUFFICES ASSUME Init PROVE IInv
    OBVIOUS
  <1>1. /\ len \in 1 .. MaxLen /\ len \in Nat /\ len > 0
        /\ MaxFrame \in Nat /\ UInt \in Nat /\ UInt > 1
    BY UIntFacts DEF Init
  <1>2. UpTo(0) = <<>>
    BY DEF UpTo
  <1>3. /\ Len(mem) = 1 /\ DOMAIN mem = 1 .. 1 /\ mem \in Seq(Seq(0 .. MaxFrame))
        /\ Len(compress_buf_) = 0
        /\ Linked = {}
    BY DEF Init, Linked
  <1>4. TypeOK
    <2>1. header \in [len : 0 .. UInt - 1, c_len : 0 .. UInt - 1]
      BY <1>1 DEF Init
    <2>2. /\ ate \in Seq(1 .. len) /\ wire \in Seq(0 .. MaxFrame) /\ restored \in Seq(1 .. len)
          /\ compress_buf_ \in Seq([c : DOMAIN mem, len : 0 .. MaxFrame])
      BY DEF Init
    <2>3. freed \subseteq DOMAIN mem /\ buff_out \in DOMAIN mem
      BY <1>3 DEF Init
    <2>4. ended \in BOOLEAN /\ faults \in BOOLEAN
      BY DEF Init
    <2>5. /\ at = "compress" /\ index = 0 /\ pos = 0 /\ pend = 0 /\ out = 0
          /\ chunk = 1 /\ w_index = 0 /\ input = 0
      BY DEF Init
    <2> QED
      BY <1>1, <1>3, <2>1, <2>2, <2>3, <2>4, <2>5 DEF TypeOK
  <1>5. InputInv
    <2>1. act_buff_in_size \in Nat
      BY <1>1, CodecAssumption DEF Init, act_buff_in_size, buff_in_size, last_chunk
    <2> QED
      BY <1>1, <1>2, <2>1 DEF Init, InputInv
  <1>6. StageInv
    BY DEF Init, StageInv
  <1>7. RestoreInv
    BY <1>1, <1>2 DEF Init, RestoreInv
  <1>8. OwnerInv
    BY <1>3 DEF Init, OwnerInv, Finals
  <1>9. LayoutInv
    <2> DEFINE P == [i \in 1 .. 1 |-> 0]
    <2>1. P \in [1 .. Len(compress_buf_) + 1 -> Nat] /\ P[1] = 0
      BY <1>3
    <2> HIDE DEF P
    <2>2. Layout(P)
      BY <1>3, <2>1 DEF Init, Layout
    <2> QED
      BY <2>1, <2>2 DEF Init, LayoutInv
  <1> QED
    BY <1>4, <1>5, <1>6, <1>7, <1>8, <1>9 DEF IInv

(* Every step preserves the invariant. *)
LEMMA NextIInv == IInv /\ [Next]_vars => IInv'
  <1> SUFFICES ASSUME IInv, [Next]_vars PROVE IInv'
    OBVIOUS
  <1> QED
    BY CompressIInv, WriteIInv, SentAllIInv, GatherIInv, DecompressIInv, EndIInv, DestroyIInv,
       SameIInv DEF Next, Over

(* The invariant always holds. *)
LEMMA AlwaysIInv == Spec => []IInv
  BY InitIInv, NextIInv, PTL DEF Spec
-----------------------------------------------------------------------------
(* What Compress, SendFileSlice, Recv and Decompress keep is well-typed,   *)
(* for slices, frames and buffers of any size; the header's lengths fit    *)
(* 32 bits.                                                                *)
THEOREM TypeCorrect == Spec => []TypeOK
  <1>1. IInv => TypeOK
    BY DEF IInv
  <1> QED
    BY <1>1, AlwaysIInv, PTL

(* However zstd cuts its output and write() the chunks, what SendFileSlice *)
(* writes is the header and then the frame, in order and without a gap.    *)
THEOREM InOrder == Spec => []FrameInOrder
  <1>1. ASSUME IInv
        PROVE  FrameInOrder
    <2> DEFINE S == 0 .. MaxFrame
               t == <<0>> \o UpTo(out)
               L == Len(compress_buf_)
               m == Len(wire)
    <2>1. /\ wire \in Seq(S) /\ out \in Nat /\ out <= MaxFrame /\ MaxFrame \in Nat /\ m \in Nat
          /\ L \in Nat /\ chunk \in Nat \ {0} /\ w_index \in Nat
          /\ \A i \in 1 .. L : compress_buf_[i].len \in 0 .. MaxFrame
      <3> DEFINE Q == [c : DOMAIN mem, len : 0 .. MaxFrame]
      <3>1. /\ wire \in Seq(S) /\ out \in 0 .. MaxFrame /\ MaxFrame \in Nat
            /\ compress_buf_ \in Seq(Q) /\ chunk \in Nat \ {0} /\ w_index \in Nat
        BY <1>1, UIntFacts DEF IInv, TypeOK
      <3>2. \A q \in Q : q.len \in 0 .. MaxFrame
        OBVIOUS
      <3> HIDE DEF Q
      <3>3. \A i \in 1 .. L : compress_buf_[i] \in Q
        BY <3>1, ElementOfSeq
      <3> QED
        BY <3>1, <3>2, <3>3
    <2>2. PICK P \in [1 .. L + 1 -> Nat] : Layout(P)
      BY <1>1 DEF IInv, LayoutInv
    <2>3. m <= 1 + out
      <3>1. CASE chunk <= L
        <4>1. chunk \in 1 .. L /\ chunk \in 1 .. L + 1
          BY <2>1, <3>1
        <4>2. P[chunk] \in Nat /\ P[chunk] + compress_buf_[chunk].len <= 1 + out
          BY <2>2, <4>1 DEF Layout
        <4>3. w_index <= compress_buf_[chunk].len /\ m = P[chunk] + w_index
          BY <2>1, <2>2, <4>1 DEF Layout
        <4>4. compress_buf_[chunk].len \in Nat /\ w_index \in Nat /\ out \in Nat
          BY <2>1, <4>1
        <4> QED
          BY <4>2, <4>3, <4>4
      <3>2. CASE chunk > L
        <4>1. chunk = L + 1 /\ w_index = 0 /\ m = P[L + 1] + w_index
          BY <2>1, <2>2, <3>2 DEF Layout
        <4>2. P[L + 1] <= 1 + out /\ P[L + 1] \in Nat
          BY <2>1, <2>2 DEF Layout
        <4> QED
          BY <2>1, <4>1, <4>2
      <3> QED
        BY <2>1, <3>1, <3>2
    <2>4. \A i \in 1 .. m : wire[i] = i - 1
      BY <2>2 DEF Layout
    <2>5. t \in Seq(S) /\ Len(t) = 1 + out /\ \A i \in 1 .. 1 + out : t[i] = i - 1
      <3> DEFINE z == <<0>>
                 u == UpTo(out)
      <3>1. z \in Seq(S) /\ Len(z) = 1 /\ z[1] = 0
        BY <2>1
      <3>2. u \in Seq(S) /\ Len(u) = out /\ \A i \in 1 .. out : u[i] = i
        <4> HIDE DEF u
        <4>1. u \in Seq(1 .. out) /\ Len(u) = out /\ \A i \in 1 .. out : u[i] = i
          BY <2>1, UpToFacts DEF u
        <4> QED
          BY <2>1, <4>1, SeqIn
      <3> HIDE DEF z, u
      <3>3. z \in Seq(S)
        BY <3>1
      <3>4. u \in Seq(S)
        BY <3>2
      <3>5. /\ z \o u \in Seq(S)
            /\ Len(z \o u) = Len(z) + Len(u)
            /\ \A i \in 1 .. Len(z) + Len(u) :
                 (z \o u)[i] = IF i <= Len(z) THEN z[i] ELSE u[i - Len(z)]
        BY <3>3, <3>4, ConcatProperties
      <3>6. ASSUME NEW i \in 1 .. 1 + out
            PROVE  (z \o u)[i] = i - 1
        <4>1. CASE i = 1
          BY <2>1, <3>1, <3>2, <3>5, <4>1
        <4>2. CASE i > 1
          BY <2>1, <3>1, <3>2, <3>5, <4>2
        <4>3. i = 1 \/ i > 1
          BY <2>1
        <4> QED
          BY <4>1, <4>2, <4>3
      <3> QED
        BY <3>1, <3>2, <3>5, <3>6 DEF z, u
    <2> HIDE DEF t, S, m
    <2>6. SubSeq(t, 1, m) = wire
      <3>1. \A i \in 1 .. m : i \in 1 .. Len(t) /\ t[i] \in S
        BY <2>1, <2>3, <2>5, ElementOfSeq
      <3>2. /\ SubSeq(t, 1, m) \in Seq(S)
            /\ Len(SubSeq(t, 1, m)) = IF 1 <= m THEN m - 1 + 1 ELSE 0
            /\ \A i \in 1 .. m - 1 + 1 : SubSeq(t, 1, m)[i] = t[1 + i - 1]
        BY <2>1, <3>1, SubSeqProperties
      <3>3. Len(SubSeq(t, 1, m)) = m /\ \A i \in 1 .. m : SubSeq(t, 1, m)[i] = wire[i]
        BY <2>1, <2>3, <2>4, <2>5, <3>2
      <3> QED
        BY <2>1, <3>2, <3>3, SeqEqual DEF m
    <2>7. SubSeq(wire, 1, Len(wire)) = wire
      BY <2>1, SubSeqFull
    <2>8. IsPrefix(wire, t)
      BY <2>3, <2>5, <2>6, <2>7 DEF IsPrefix, m
    <2>9. at \in {"gather", "decompress"} => Len(wire) = 1 + out /\ ended /\ pend = 0
      BY <1>1 DEF IInv, StageInv
    <2> QED
      BY <2>8, <2>9 DEF FrameInOrder, t
  <1> QED
    BY <1>1, AlwaysIInv, PTL

(* A slice that the receiver accepts is the slice that the sender read.    *)
THEOREM RestoredExactly == Spec => []RoundTrip
  <1>1. IInv => RoundTrip
    BY DEF IInv, RestoreInv, RoundTrip
  <1> QED
    BY <1>1, AlwaysIInv, PTL

(* Without faults a slice is accepted exactly if its length is an int and  *)
(* its compressed length a uint32_t: the conversions are all that can go   *)
(* wrong.                                                                  *)
THEOREM Acceptance == Spec => []AcceptedExactlyWhen
  <1>1. IInv => AcceptedExactlyWhen
    <2>1. ASSUME IInv
          PROVE  len \in Nat /\ out \in Nat /\ UInt \in Nat /\ IntMax \in Nat
      BY <2>1, UIntFacts DEF IInv, TypeOK
    <2> QED
      BY <2>1 DEF IInv, StageInv, AcceptedExactlyWhen, Finals
  <1> QED
    BY <1>1, AlwaysIInv, PTL

(* No two chunks share a buffer and the current one is in no chunk, so     *)
(* ~FileSlice frees nothing twice; in the end what is not freed is the     *)
(* buffer that a successful Compress hands out.                            *)
THEOREM Ownership == Spec => []BuffersOwned
  <1>1. ASSUME IInv
        PROVE  BuffersOwned
    <2>1. /\ \A i, j \in 1 .. Len(compress_buf_) : i # j => compress_buf_[i].c # compress_buf_[j].c
          /\ buff_out \notin Linked /\ DOMAIN mem = Linked \cup {buff_out}
          /\ freed \subseteq DOMAIN mem
          /\ at = "failed" => buff_out \in freed
          /\ at # "failed" => buff_out \notin freed
      BY <1>1 DEF IInv, OwnerInv, TypeOK
    <2>2. Linked \subseteq freed => DOMAIN mem \ freed = IF at = "failed" THEN {} ELSE {buff_out}
      BY <2>1
    <2> QED
      BY <2>1, <2>2 DEF BuffersOwned
  <1> QED
    BY <1>1, AlwaysIInv, PTL
====
