----------------------------- MODULE Validation -----------------------------
(***************************************************************************)
(* The last part of the receiver's Supervise: ValidUtil::getValidResult    *)
(* (util/ValidUtil.h) reads the received Arrow file back into arrays       *)
(* (util/ArrowUtil.h) and averages every Step-th row.  The sender's        *)
(* --verify does the same with the file it sent, and people compare the    *)
(* two results.                                                            *)
(*                                                                         *)
(* The file has four columns that are written, read and sampled with the   *)
(* same indices: one stands for all.  The sampled values themselves stand  *)
(* for their average.                                                      *)
(***************************************************************************)
EXTENDS Transfer

CONSTANTS RowCounts,  \* numbers of rows: of the file, and of --file_rows
          Step        \* STEP, 100000

ASSUME ValidationAssumption == RowCounts \subseteq 0 .. IntMax /\ Step \in Nat \ {0}

VARIABLES rows,         \* of the table in the sender's file
          total,        \* --file_rows of the receiver
          colValue,     \* the column as it was read
          data_offset,  \* rows read so far
          over,         \* something was written behind the arrays
          at,           \* i of the loop over the samples
          samples,      \* what has been summed up
          vpc           \* where Supervise is

validVars == <<rows, total, colValue, data_offset, over, at, samples, vpc>>
allVars   == <<vars, transferVars, validVars>>

ValidationInit == /\ TransferInit
                  /\ rows = 0 /\ total = 0 /\ data_offset = 0 /\ at = 0
                  /\ colValue = <<>> /\ samples = <<>>
                  /\ over = FALSE
                  /\ vpc = "generate"
-----------------------------------------------------------------------------
(* --gen_file: row r of the table has a value of its own, r + 1; the rows  *)
(* are written in their order, and what makes an Arrow file of them comes  *)
(* behind: the last unit of the file is its footer.                        *)
createDataFile == /\ vpc = "generate"
                  /\ \E n \in RowCounts : n < buf_size /\ rows' = n
                  /\ vpc' = "transfer"
                  /\ UNCHANGED <<vars, transferVars, total, colValue, data_offset, over, at,
                                 samples>>

Footer == buf_size - 1

Damaged == {b \in DOMAIN out : out[b] # Byte(b)}

Complete == file_size_ = buf_size /\ Footer \notin Damaged
-----------------------------------------------------------------------------
(* readDataFromFile: the arrays get their size from --file_rows alone.     *)
(* Opening the file throws without a footer at its end; other damage       *)
(* around the rows may be noticed or not.                                  *)
OpenTable == /\ vpc = "transfer"
             /\ stage = "reported"
             /\ total' \in RowCounts
             /\ colValue' = [r \in 0 .. total' - 1 |-> 0]
             /\ \/ Complete /\ vpc' = "read"
                \/ (~Complete \/ Damaged \ (0 .. rows - 1) # {}) /\ vpc' = "threw"
             /\ UNCHANGED <<vars, transferVars, rows, data_offset, over, at, samples>>

(* One record batch, of as many rows as Arrow says.  Rows that do not fit  *)
(* the arrays, or are not what they were, may end in a crash.              *)
ReadBatchRestarting ==
  /\ vpc = "read" /\ stage = "reported"
  /\ \E count \in 1 .. rows - data_offset :
       LET here == data_offset .. data_offset + count - 1
       IN  /\ colValue' = [r \in DOMAIN colValue |->
                             IF r < count THEN out[data_offset + r] ELSE colValue[r]]
           /\ data_offset' = data_offset + count
           /\ over' = (over \/ data_offset' > total)
           /\ \/ vpc' = vpc
              \/ (over' \/ here \cap Damaged # {}) /\ vpc' = "crashed"
  /\ UNCHANGED <<vars, transferVars, rows, total, at, samples>>
ReadBatch ==
  /\ vpc = "read" /\ stage = "reported"
  /\ \E count \in 1 .. rows - data_offset :
       LET here == data_offset .. data_offset + count - 1
       IN  /\ colValue' = [r \in DOMAIN colValue |-> IF r \in here THEN out[r] ELSE colValue[r]]
           /\ data_offset' = data_offset + count
           /\ over' = (over \/ data_offset' > total)
           /\ \/ vpc' = vpc
              \/ (over' \/ here \cap Damaged # {}) /\ vpc' = "crashed"
  /\ UNCHANGED <<vars, transferVars, rows, total, at, samples>>

ReadEnds == /\ vpc = "read" /\ stage = "reported"
            /\ data_offset = rows
            /\ vpc' = "sample"
            /\ UNCHANGED <<vars, transferVars, rows, total, colValue, data_offset, over, at,
                           samples>>
-----------------------------------------------------------------------------
(* One round of the loops of ValidIntArray, ValidStringArray and           *)
(* ValidDoubleArray.  i is an int: beyond INT_MAX it may be kept in a      *)
(* wider register, or wrap and index the array with a negative number.     *)
Sample == /\ vpc = "sample" /\ stage = "reported"
          /\ at < total
          /\ samples' = Append(samples, colValue[at])
          /\ at' = at + Step
          /\ \/ vpc' = vpc
             \/ at' > IntMax /\ vpc' = "wild"
          /\ UNCHANGED <<vars, transferVars, rows, total, colValue, data_offset, over>>

(* The average, "0.0000" if there is no sample, is sent to the sender. *)
SendResult == /\ vpc = "sample" /\ stage = "reported"
              /\ at >= total
              /\ vpc' = "done"
              /\ UNCHANGED <<vars, transferVars, rows, total, colValue, data_offset, over, at,
                           samples>>
-----------------------------------------------------------------------------
getValidResult == OpenTable \/ ReadBatch \/ ReadEnds \/ Sample \/ SendResult

InTransfer(step) == vpc # "generate" /\ step /\ UNCHANGED validVars

ValidationNext == createDataFile \/ InTransfer(TransferNext) \/ getValidResult

(* The threads of both programs keep running, and none of their steps      *)
(* waits for anything but another one.  Only the supervisor's wait may     *)
(* last although its predicate is true (see SupervisorReleased in Server): *)
(* nothing is assumed of WaitEnds.                                         *)
ValidationSpec == /\ ValidationInit /\ [][ValidationNext]_allVars
                  /\ WF_allVars(createDataFile \/ InTransfer(Progress) \/ getValidResult)
-----------------------------------------------------------------------------
Read == {"sample", "wild", "done"}

(* Types, and slices_th_num_ is the number of connections modulo its width. *)
TypesOK == /\ TransferTypes
           /\ rows \in RowCounts \cup {0} /\ total \in RowCounts \cup {0}
           /\ data_offset \in 0 .. rows
           /\ colValue \in [0 .. total - 1 -> 0 .. buf_size + 1]
           /\ over \in BOOLEAN
           /\ at \in Nat
           /\ samples \in Seq(0 .. buf_size + 1)
           /\ vpc \in {"generate", "transfer", "read", "threw", "crashed"} \cup Read

(* However the file is cut into record batches, readDataFromFile puts each *)
(* row of a well transferred file into its place and leaves the rest of    *)
(* the arrays as make_unique made it.  It writes behind the arrays exactly *)
(* when the receiver's --file_rows is less than the rows of the file, and  *)
(* nothing else makes it crash.                                            *)
RowsReadBack ==
  /\ vpc \in Read => (over <=> rows > total)
  /\ vpc = "crashed" /\ Promised => rows > total
  /\ vpc \in Read /\ Promised /\ ~over =>
       colValue = [r \in 0 .. total - 1 |-> IF r < rows THEN r + 1 ELSE 0]

(* What --verify finds in the sender's own file. *)
Verified == [k \in 1 .. (total + Step - 1) \div Step |->
               IF (k - 1) * Step < rows THEN (k - 1) * Step + 1 ELSE 0]

(* For the inputs the program copies, the receiver's result is that of     *)
(* --verify with the same --file_rows, unless there are fewer of these     *)
(* than rows, and it gets one unless --file_rows is so close to INT_MAX    *)
(* that i overflows.                                                       *)
ResultExact ==
  Promised => /\ vpc # "threw"
              /\ vpc = "wild" => total > Step * (IntMax \div Step)
              /\ vpc = "done" /\ rows <= total => samples = Verified

(* Once the receiver has read the header that was meant, the transfer of   *)
(* less than 2^16 - 1 slices comes to an end, unless the supervisor sleeps *)
(* through its predicate: it does not wait for a number of connections     *)
(* that its counter cannot reach.  (With one more slice the count has      *)
(* wrapped to 0 when the last one is there, and the supervisor may have    *)
(* slept through the time its predicate was true.)                         *)
TransferEnds ==
  <>(\/ stage \in Ended \ {"reported"}
     \/ pc = "sigfpe"
     \/ vpc \in {"threw", "crashed", "wild", "done"}
     \/ Len(res) >= UShort - 1
     \/ stage # "split" /\ text # Formatted)
  \/ <>[](stage = "slices" /\ Counted)
=============================================================================
