------------------------------ MODULE Transfer ------------------------------
(***************************************************************************)
(* A whole transfer, with the contents of the file: SplitFile cuts it up   *)
(* (module FileSlice), the header goes over as text (FileHeader), the      *)
(* slices arrive in any order the sender's pool allows and are put where   *)
(* the receiver thinks they belong, and the supervisor reports when it     *)
(* thinks it has them all.                                                 *)
(*                                                                         *)
(* What each connection goes through is the matter of Server, Sender and   *)
(* Codec: here a slice arrives after the header has been parsed, and later *)
(* is put into the file at once.                                           *)
(***************************************************************************)
EXTENDS FileSlice, FileHeader, FiniteSets

CONSTANT Garbage  \* texts that memory which has been freed may hold

ASSUME TransferAssumption == Garbage \subseteq Seq(0 .. Other)

ShortMax == UShort \div 2 - 1  \* of the atomic_short slices_th_num_

VARIABLES stage,           \* how far the transfer is
          text,            \* the header as it was written
          file_size_,      \* what the receiver takes for the file's size
          arrived,         \* slices whose connection has been accepted
          slices_th_num_,  \* connections counted, in 16 bits
          written,         \* slices whose Recv has returned
          out,             \* the mapped output file
          collecting       \* the slices whose futures the supervisor gets

sendVars  == <<text, arrived>>
recvVars  == <<file_size_, slices_th_num_, written, out, collecting>>
transferVars == <<stage, sendVars, recvVars>>

Hole == 0

TransferInit == /\ Init
                /\ stage = "split" /\ text = <<>>
                /\ file_size_ = 0 /\ slices_th_num_ = 0
                /\ arrived = {} /\ written = {} /\ collecting = {}
                /\ out = <<>>
-----------------------------------------------------------------------------
(* The mapped file: the byte at offset b is b + 1, what lies behind it is  *)
(* none of them.                                                           *)
Byte(b) == IF b < buf_size THEN b + 1 ELSE buf_size + 1

Split == (ChooseSegment \/ PushSlice) /\ UNCHANGED transferVars

Formatted == FormatHeader(buf_size, Len(res) % UShort)

(* h points into a temporary string that is gone when write() reads it:    *)
(* its memory may still hold the text, or anything else of that length.    *)
WriteHeader == /\ stage = "split"
               /\ pc = "sent"
               /\ text' \in {Formatted} \cup {g \in Garbage : Len(g) = Len(Formatted)}
               /\ stage' = "header"
               /\ slices_th_num_' = 1
               /\ UNCHANGED <<vars, arrived, file_size_, written, out, collecting>>
-----------------------------------------------------------------------------
(* Recv of the header. *)

str == header_str(text)

RefuseHeader == /\ stage = "header"
                /\ ~WellFormed(str)
                /\ stage' = "refused"
                /\ UNCHANGED <<vars, sendVars, recvVars>>

(* stoul() throws at a missing size, or, when the size is stored, at a     *)
(* missing number of slices.                                               *)
HeaderThrows ==
  /\ stage = "header"
  /\ WellFormed(str)
  /\ \/ Throws(SizeField(str)) /\ UNCHANGED file_size_
     \/ /\ ~Throws(SizeField(str)) /\ Throws(NumField(str))
        /\ file_size_' = stoul(SizeField(str))
  /\ stage' = "threw"
  /\ UNCHANGED <<vars, sendVars, slices_th_num_, written, out, collecting>>

(* MMapOutputArrowFile: a new file that consists of a hole. *)
MMapOutputArrowFile(file_size) == [b \in 0 .. file_size - 1 |-> Hole]

ParseHeader ==
  /\ stage = "header"
  /\ WellFormed(str) /\ ~Throws(SizeField(str)) /\ ~Throws(NumField(str))
  /\ file_size_' = stoul(SizeField(str))
  /\ slices_num' = stoul(NumField(str))
  /\ \/ /\ slices_num' = 0
        /\ stage' = "sigfpe" /\ pc' = "sigfpe"
        /\ UNCHANGED <<split_len_, out>>
     \/ /\ slices_num' # 0
        /\ split_len_' = file_size_' \div slices_num'
        /\ out' = MMapOutputArrowFile(file_size_')
        /\ stage' = "slices" /\ pc' = "received"
  /\ UNCHANGED <<inputs, segment_size, FLAGS_jobs, rest, index, f_index, res, sendVars,
                 slices_th_num_, written, collecting>>
-----------------------------------------------------------------------------
(* The slices. *)

Receiving == stage \in {"slices", "collect", "reported"}

(* The sender's pool starts the Runs in order and has jobs threads for     *)
(* them; Run() of the receiver accepts and counts the connection.  A slice *)
(* that is read behind the end of the file may kill the sender.            *)
ArriveUncounted(i) == /\ Receiving
                      /\ i \notin arrived
                      /\ Cardinality((1 .. i - 1) \ arrived) < jobs
                      /\ arrived' = arrived \cup {i}
                      /\ UNCHANGED <<vars, stage, text, recvVars>>
Arrive(i) == /\ Receiving
             /\ i \notin arrived
             /\ Cardinality((1 .. i - 1) \ arrived) < jobs
             /\ arrived' = arrived \cup {i}
             /\ slices_th_num_' = (slices_th_num_ + 1) % UShort
             /\ \/ stage' = stage
                \/ Source(res[i]) + res[i].len > buf_size /\ stage' = "overrun"
             /\ UNCHANGED <<vars, text, file_size_, written, out, collecting>>

(* Decompress writes the slice to buf_.  Behind the end of the file the    *)
(* bytes are lost in the rest of the last page, or the receiver dies.      *)
PlaceAt(first, s) == [b \in DOMAIN out |-> IF first <= b /\ b < first + s.len
                                             THEN Byte(Source(s) + (b - first))
                                             ELSE out[b]]
PlaceNext(i) == /\ Receiving
                /\ i \in arrived \ written
                /\ written' = written \cup {i}
                /\ out' = PlaceAt(Cardinality(written) * split_len_, res[i])
                /\ UNCHANGED <<vars, stage, sendVars, file_size_, slices_th_num_, collecting>>
Place(i) == /\ Receiving
            /\ i \in arrived \ written
            /\ written' = written \cup {i}
            /\ out' = PlaceAt(Target(res[i]), res[i])
            /\ \/ stage' = stage
               \/ Target(res[i]) + res[i].len > file_size_ /\ stage' = "overrun"
            /\ UNCHANGED <<vars, sendVars, file_size_, slices_th_num_, collecting>>
-----------------------------------------------------------------------------
(* The supervisor of the receiver. *)

(* slices_th_num_ is a short and slices_num_ an unsigned int: a count that *)
(* has become negative is compared as a huge one.                          *)
CountedSigned == slices_th_num_ <= ShortMax /\ slices_th_num_ >= slices_num + 1
Counted == slices_th_num_ > ShortMax \/ slices_th_num_ >= slices_num + 1

WaitEnds == /\ stage = "slices"
            /\ Counted
            /\ collecting' = arrived
            /\ stage' = "collect"
            /\ UNCHANGED <<vars, sendVars, file_size_, slices_th_num_, written, out>>

ReportUncollected == /\ stage = "collect"
                     /\ stage' = "reported"
                     /\ UNCHANGED <<vars, sendVars, recvVars>>
Report == /\ stage = "collect"
          /\ collecting \subseteq written
          /\ stage' = "reported"
          /\ UNCHANGED <<vars, sendVars, recvVars>>

(* All steps but the supervisor's, which has to be woken up for it. *)
Progress == \/ Split \/ WriteHeader
            \/ RefuseHeader \/ HeaderThrows \/ ParseHeader
            \/ \E i \in 1 .. Len(res) : Arrive(i) \/ Place(i)
            \/ Report

TransferNext == Progress \/ WaitEnds
-----------------------------------------------------------------------------
Ended == {"refused", "threw", "sigfpe", "overrun", "reported"}

(* Types, and slices_th_num_ is the number of connections modulo its width. *)
TransferTypes == /\ TypeOK
                 /\ stage \in {"split", "header", "slices", "collect"} \cup Ended
                 /\ text \in Seq(0 .. Other)
                 /\ file_size_ \in Nat
                 /\ slices_th_num_ = IF stage = "split" THEN 0
                                       ELSE (Cardinality(arrived) + 1) % UShort
                 /\ arrived \subseteq 1 .. Len(res)
                 /\ written \subseteq arrived /\ collecting \subseteq arrived
                 /\ DOMAIN out \in {{}, 0 .. file_size_ - 1}
                 /\ \A b \in DOMAIN out : out[b] \in 0 .. buf_size + 1

(* If the header was still there to be written, the receiver knows the     *)
(* file's size and the number of slices exactly when all of it fits what   *)
(* Recv reads and the number of slices is less than 2^16: then and only    *)
(* then are the two numbers what the sender meant, however it is cut.      *)
HeaderReadExactlyWhen ==
  stage \notin {"split", "header"} /\ text = Formatted =>
    (file_size_ = buf_size /\ slices_num = Len(res)
       <=> Len(Formatted) <= HeaderMax /\ Len(res) < UShort)

(* For which inputs does the program promise to copy the file?  At most    *)
(* 2^15 - 1 slices and a rest of fewer bytes than there are slices (or one *)
(* slice), a header that fits, and is written before its memory is reused. *)
Promised ==
  LET w == IF Wanted > IntMax THEN IntMax ELSE Wanted
      n == buf_size \div w
  IN  /\ w \in 1 .. buf_size
      /\ n <= ShortMax
      /\ buf_size % w < n \/ n = 1
      /\ Len(FormatHeader(buf_size, n)) <= HeaderMax
      /\ text \in {<<>>, FormatHeader(buf_size, n)}

(* If so, the transfer is a CopyFile: no byte is misplaced or written      *)
(* twice, in whichever order the slices come, and the report waits for all *)
(* of them.                                                                *)
C == INSTANCE CopyFile WITH size <- buf_size, promised <- Promised, copy <- out,
                            done <- (stage = "reported")
ImplementsCopyFile == C!Spec
=============================================================================
