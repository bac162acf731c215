----------------------------- MODULE FileSlice -----------------------------
(***************************************************************************)
(* How a file is cut up and put together again.  The sender's SplitFile    *)
(* (util/file_slice.h) turns the file into slices that are read at         *)
(* index * segment_size; the receiver (Recv, util/recv_flow.h) is told     *)
(* only the file's size and the number of slices, works out a split_len_   *)
(* of its own and writes slice index at index * split_len_.                *)
(*                                                                         *)
(* Integer widths that the code depends on are parameters: the clamp at    *)
(* INT_MAX and the unsigned short of a slice's index and of slices_num.    *)
(***************************************************************************)
EXTENDS Naturals, Sequences

CONSTANTS FileSizes,    \* sizes of the file to send
          JobCounts,    \* values of --jobs
          SegmentSizes, \* values of --segment_size, 0 is the default
          IntMax,       \* numeric_limits<int>::max()
          UShort        \* 2^16: an unsigned short counts modulo this

ASSUME FileSliceAssumption == /\ FileSizes \subseteq Nat \ {0}
                              /\ JobCounts \subseteq Nat \ {0}
                              /\ SegmentSizes \subseteq Nat
                              /\ IntMax \in Nat \ {0}
                              /\ UShort \in Nat \ {0, 1}

VARIABLES buf_size, jobs, flag,     \* the inputs: flag is --segment_size as given
          segment_size, FLAGS_jobs, \* the flags, which SplitFile modifies
          rest, index, f_index, res, \* SplitFile's locals
          slices_num, split_len_,   \* what the receiver knows
          pc                        \* how far the transfer is

inputs == <<buf_size, jobs, flag>>
vars == <<inputs, segment_size, FLAGS_jobs, rest, index, f_index, res, slices_num, split_len_, pc>>

Init == /\ buf_size \in FileSizes
        /\ jobs \in JobCounts
        /\ flag \in SegmentSizes
        /\ segment_size = flag
        /\ FLAGS_jobs = jobs
        /\ rest = 0 /\ index = 0 /\ f_index = 0
        /\ res = <<>>
        /\ slices_num = 0 /\ split_len_ = 0
        /\ pc = "start"
-----------------------------------------------------------------------------
(* What --segment_size = 0 stands for. *)
Wanted == IF flag = 0 THEN buf_size \div jobs ELSE flag

(* The segment size is settled; a file of fewer bytes than jobs leaves it  *)
(* at 0, and the remainder of a division by 0 is a SIGFPE.                 *)
UnclampedSegment == /\ pc = "start"
                    /\ segment_size' = Wanted
                    /\ IF segment_size' = 0
                         THEN pc' = "sigfpe" /\ UNCHANGED rest
                         ELSE pc' = "split" /\ rest' = buf_size % segment_size'
                    /\ UNCHANGED <<inputs, FLAGS_jobs, index, f_index, res, slices_num, split_len_>>
ChooseSegment == /\ pc = "start"
                 /\ segment_size' = IF Wanted > IntMax THEN IntMax ELSE Wanted
                 /\ FLAGS_jobs' = IF Wanted > IntMax THEN buf_size \div IntMax ELSE jobs
                 /\ IF segment_size' = 0
                      THEN pc' = "sigfpe" /\ UNCHANGED rest
                      ELSE pc' = "split" /\ rest' = buf_size % segment_size'
                 /\ UNCHANGED <<inputs, index, f_index, res, slices_num, split_len_>>

(* The last full segment takes the rest along. *)
SegmentOnly == segment_size
SliceSize == IF f_index + segment_size + rest = buf_size
               THEN segment_size + rest
               ELSE segment_size

(* One round of the do-while loop. *)
PushFullSlice == /\ pc = "split"
                 /\ f_index + segment_size + rest <= buf_size
                 /\ res' = Append(res, [index |-> index, len |-> SliceSize])
                 /\ index' = (index + 1) % UShort
                 /\ f_index' = f_index + SliceSize
                 /\ pc' = IF f_index' < buf_size THEN "split" ELSE "sent"
                 /\ UNCHANGED <<inputs, segment_size, FLAGS_jobs, rest, slices_num, split_len_>>
PushSlice == /\ pc = "split"
             /\ res' = Append(res, [index |-> index, len |-> SliceSize])
             /\ index' = (index + 1) % UShort
             /\ f_index' = f_index + SliceSize
             /\ pc' = IF f_index' < buf_size THEN "split" ELSE "sent"
             /\ UNCHANGED <<inputs, segment_size, FLAGS_jobs, rest, slices_num, split_len_>>

(* The receiver parses the header; slices_num went through the unsigned    *)
(* short parameter of SendingFlow::Init.                                   *)
RoundedUpSplit == /\ pc = "sent"
                  /\ slices_num' = Len(res) % UShort
                  /\ IF slices_num' = 0
                       THEN pc' = "sigfpe" /\ UNCHANGED split_len_
                       ELSE /\ split_len_' = (buf_size + slices_num' - 1) \div slices_num'
                            /\ pc' = "received"
                  /\ UNCHANGED <<inputs, segment_size, FLAGS_jobs, rest, index, f_index, res>>
ReceiveHeader == /\ pc = "sent"
                 /\ slices_num' = Len(res) % UShort
                 /\ IF slices_num' = 0
                      THEN pc' = "sigfpe" /\ UNCHANGED split_len_
                      ELSE split_len_' = buf_size \div slices_num' /\ pc' = "received"
                 /\ UNCHANGED <<inputs, segment_size, FLAGS_jobs, rest, index, f_index, res>>

Next == ChooseSegment \/ PushSlice \/ ReceiveHeader

Spec == Init /\ [][Next]_vars /\ WF_vars(Next)
-----------------------------------------------------------------------------
(* GetBuf(): where the sender reads slice s, and buf_: where it is written. *)
Source(s) == s.index * segment_size
Target(s) == s.index * split_len_

Cut == pc \in {"sent", "received"}

(* Types, and f_index never runs past the file it walks through unless one *)
(* segment is already larger than the file.                                *)
TypeOK == /\ buf_size \in FileSizes /\ jobs \in JobCounts /\ flag \in SegmentSizes
          /\ segment_size \in Nat /\ FLAGS_jobs \in Nat /\ rest \in Nat /\ f_index \in Nat
          /\ index \in 0 .. UShort - 1 /\ slices_num \in Nat
          /\ res \in Seq([index : 0 .. UShort - 1, len : Nat])
          /\ split_len_ \in Nat
          /\ pc \in {"start", "split", "sent", "received", "sigfpe"}
          /\ pc = "split" /\ segment_size <= buf_size => f_index + segment_size + rest <= buf_size

(* Every byte of the file is in exactly one slice and no slice reads past  *)
(* the end of the mapped file, as long as the indices fit their unsigned   *)
(* short and one segment is no larger than the file.                       *)
SlicesTileFile ==
  Cut /\ segment_size <= buf_size /\ Len(res) <= UShort
    => /\ \A i \in 1 .. Len(res) : Source(res[i]) + res[i].len <= buf_size
       /\ \A b \in 0 .. buf_size - 1 :
            \E i \in 1 .. Len(res) :
              \A j \in 1 .. Len(res) :
                Source(res[j]) <= b /\ b < Source(res[j]) + res[j].len <=> i = j

(* A slice's header carries its length in 32 unsigned bits: thanks to the  *)
(* clamp at INT_MAX even the last slice, with its rest, always fits.       *)
HeaderLenFits == \A i \in 1 .. Len(res) : res[i].len <= 2 * IntMax + 1

(* Every slice is written where it was read from. *)
Restored == \A i \in 1 .. Len(res) : Target(res[i]) = Source(res[i])

(* Exactly when does the receiver's division find the sender's segment     *)
(* size again?  When the rest is smaller than the number of slices, or     *)
(* when there is one slice only.                                           *)
RestoredExactlyWhen ==
  pc = "received" /\ segment_size <= buf_size /\ Len(res) < UShort
    => (Restored <=> rest < Len(res) \/ Len(res) = 1)

(* With the default segment size, fewer bytes per job than INT_MAX and     *)
(* fewer jobs than half of what an unsigned short holds, nothing goes      *)
(* wrong: no division by zero, no index wraps, and the file is restored.   *)
DefaultIsSafe ==
  flag = 0 /\ jobs <= buf_size /\ buf_size \div jobs <= IntMax /\ 2 * jobs <= UShort
    => /\ pc # "sigfpe"
       /\ Cut => jobs <= Len(res) /\ Len(res) < 2 * jobs
       /\ pc = "received" => Restored

(* SplitFile's do-while loop ends for every input. *)
SplitEnds == <>(pc \in {"received", "sigfpe"})

(* The claim of the usage message, "Transport Big Arrow File.": with       *)
(* default flags the file arrives as it was, however big it is.            *)
BigFileRestored ==
  flag = 0 /\ jobs <= buf_size /\ pc = "received" => Restored
=============================================================================
