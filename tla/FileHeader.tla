----------------------------- MODULE FileHeader -----------------------------
(***************************************************************************)
(* The file header "S<size>#<slices>": how SendFileSizeOnly formats it     *)
(* (util/sending_flow.h) and what Recv takes it for (util/recv_flow.h).    *)
(* A character is a digit 0 .. Base - 1 or one of the numbers below.       *)
(***************************************************************************)
EXTENDS Naturals, Sequences, SequencesExt

CONSTANTS Base,      \* 10
          HeaderMax  \* kFileSliceHeaderLen + 1, what Recv reads at most

ASSUME HeaderAssumption == Base \in Nat \ {0, 1} /\ HeaderMax \in Nat \ {0}

S     == Base
Hash  == Base + 1
Other == Base + 2  \* any character that is neither of these nor a digit

(* operator<< of an unsigned integer. *)
Digits[n \in Nat] == IF n < Base THEN <<n>> ELSE Append(Digits[n \div Base], n % Base)

FormatHeader(file_size, slices_num) ==
  <<S>> \o Digits[file_size] \o <<Hash>> \o Digits[slices_num]

(* std::stoul() takes digits as long as there are any and throws if there  *)
(* is none.                                                                *)
LeadingDigits(str) == LET end == SelectInSeq(str, LAMBDA c : c >= Base)
                      IN  IF end = 0 THEN str ELSE SubSeq(str, 1, end - 1)
Throws(str) == LeadingDigits(str) = <<>>
Value(digits) == LET value[i \in 0 .. Len(digits)] ==
                       IF i = 0 THEN 0 ELSE value[i - 1] * Base + digits[i]
                 IN  value[Len(digits)]
stoul(str)    == Value(LeadingDigits(str))

(* One round of reads fills at most HeaderMax bytes of read_buf. *)
header_strShort(text) == SubSeq(text, 1, IF Len(text) < HeaderMax THEN Len(text) ELSE HeaderMax - 1)
header_str(text) == SubSeq(text, 1, IF Len(text) < HeaderMax THEN Len(text) ELSE HeaderMax)

HashAt(str)     == SelectInSeq(str, LAMBDA c : c = Hash)  \* 0 if there is none
SizeField(str)  == SubSeq(str, 2, HashAt(str) - 1)
NumField(str)   == SubSeq(str, HashAt(str) + 1, Len(str))
WellFormed(str) == str # <<>> /\ Head(str) = S /\ HashAt(str) # 0
=============================================================================
