-------------------------- MODULE FileSliceProofs --------------------------
(***************************************************************************)
(* For every file size, number of jobs, segment size and integer width:    *)
(* the slices tile the file, their lengths fit the slice header, and the   *)
(* receiver finds the sender's offsets again exactly when the rest is      *)
(* smaller than the number of slices; with default flags it always is.     *)
(***************************************************************************)
EXTENDS FileSlice, SequenceTheorems, TLAPS

(* Arithmetic. *)

(* Division with remainder. *)
LEMMA DivMod ==
  ASSUME NEW b \in Nat, NEW q \in Nat \ {0}
  PROVE  /\ b \div q \in Nat
         /\ b % q \in Nat
         /\ b % q < q
         /\ b = (b \div q) * q + (b % q)
  OBVIOUS

(* The first slice starts at the start of the file. *)
LEMMA MulZero ==
  ASSUME NEW q \in Nat
  PROVE  0 * q = 0
  OBVIOUS

(* Multiplication by the segment size keeps the order ... *)
LEMMA MulMono ==
  ASSUME NEW x \in Nat, NEW y \in Nat, NEW q \in Nat, x <= y
  PROVE  x * q \in Nat /\ y * q \in Nat /\ x * q <= y * q
  OBVIOUS

(* ... and different numbers of segments are a segment apart. *)
LEMMA MulStrict ==
  ASSUME NEW x \in Nat, NEW y \in Nat, NEW q \in Nat, x < y
  PROVE  x * q \in Nat /\ y * q \in Nat /\ x * q + q <= y * q
  <1>1. (x + 1) * q <= y * q
    BY MulMono
  <1>2. (x + 1) * q = x * q + q
    OBVIOUS
  <1> QED
    BY <1>1, <1>2, MulMono

(* Quotient and remainder are unique. *)
LEMMA DivUnique ==
  ASSUME NEW b \in Nat, NEW q \in Nat \ {0}, NEW n \in Nat, NEW r \in Nat,
         b = n * q + r, r < q
  PROVE  b \div q = n /\ b % q = r
  <1> DEFINE d == b \div q
  <1>1. d \in Nat /\ b % q \in Nat /\ b % q < q /\ b = d * q + (b % q)
    BY DivMod
  <1>2. ~ d < n
    BY <1>1, MulStrict
  <1>3. ~ n < d
    BY <1>1, MulStrict
  <1>4. d = n
    BY <1>1, <1>2, <1>3
  <1> QED
    BY <1>1, <1>4

(* At least one segment fits if the segment is no longer than the file. *)
LEMMA AtLeastOne ==
  ASSUME NEW b \in Nat, NEW q \in Nat \ {0}, q <= b
  PROVE  b \div q \in Nat \ {0}
  <1>1. b \div q \in Nat /\ b % q < q /\ b = (b \div q) * q + (b % q) /\ b % q \in Nat
    BY DivMod
  <1>2. 0 * q = 0
    OBVIOUS
  <1> QED
    BY <1>1, <1>2

(* A number that fits is not reduced. *)
LEMMA SmallMod ==
  ASSUME NEW b \in Nat, NEW q \in Nat \ {0}, b < q
  PROVE  b % q = b
  OBVIOUS

(* Counting modulo u may reduce at every step. *)
LEMMA ModSucc ==
  ASSUME NEW n \in Nat, NEW u \in Nat \ {0}
  PROVE  ((n % u) + 1) % u = (n + 1) % u
  <1>1. PICK d \in Nat, m \in Nat : n % u = m /\ m < u /\ n = d * u + m
    <2>1. n \div u \in Nat /\ n % u \in Nat /\ n % u < u /\ n = (n \div u) * u + (n % u)
      BY DivMod
    <2> QED
      BY <2>1
  <1>2. CASE m + 1 < u
    <2>1. n + 1 = d * u + (m + 1) /\ n + 1 \in Nat /\ m + 1 \in Nat
      BY <1>1
    <2>2. PICK k \in Nat, l \in Nat : k = n + 1 /\ l = m + 1
      BY <2>1
    <2>3. k = d * u + l /\ l < u
      BY <1>2, <2>1, <2>2
    <2>4. k % u = l /\ l % u = l
      BY <2>3, DivUnique, SmallMod
    <2> QED
      BY <1>1, <2>2, <2>4
  <1>3. CASE m + 1 = u
    <2>1. (d + 1) * u = d * u + u
      OBVIOUS
    <2>2. PICK k \in Nat, c \in Nat : k = n + 1 /\ c = d + 1
      OBVIOUS
    <2>3. k = c * u + 0 /\ 0 < u
      BY <1>1, <1>3, <2>1, <2>2
    <2>5. k % u = 0
      BY <2>3, DivUnique
    <2>4. u % u = 0
      OBVIOUS
    <2> QED
      BY <1>1, <1>3, <2>2, <2>4, <2>5
  <1> QED
    BY <1>1, <1>2, <1>3

-----------------------------------------------------------------------------
(* How many slices a segment size no larger than the file makes. *)
Q == buf_size \div segment_size

(* The segment size is settled once and for all. *)
SegmentInv == pc \notin {"start", "sigfpe"}
                => /\ segment_size \in Nat \ {0}
                   /\ segment_size <= IntMax
                   /\ segment_size = IF Wanted > IntMax THEN IntMax ELSE Wanted
                   /\ rest = buf_size % segment_size
                   /\ segment_size > buf_size => rest = buf_size

(* Slice i has index i - 1, as far as an unsigned short goes. *)
IndexInv == /\ index = Len(res) % UShort
            /\ \A i \in 1 .. Len(res) : res[i].index = (i - 1) % UShort

(* The loop has walked through whole segments; the last one gets the rest. *)
WalkInv == /\ pc = "start" => res = <<>> /\ f_index = 0
           /\ pc = "split" /\ segment_size <= buf_size
                => /\ f_index = Len(res) * segment_size
                   /\ Len(res) < Q
                   /\ \A i \in 1 .. Len(res) : res[i].len = segment_size
           /\ pc = "split" /\ segment_size > buf_size => res = <<>> /\ f_index = 0
           /\ Cut /\ segment_size <= buf_size
                => /\ Len(res) = Q
                   /\ \A i \in 1 .. Len(res) :
                        res[i].len = IF i = Q THEN segment_size + rest ELSE segment_size

ReceivedInv == pc = "received" => /\ slices_num = Len(res) % UShort
                                  /\ slices_num # 0
                                  /\ split_len_ = buf_size \div slices_num

FaultInv == pc = "sigfpe"
              => \/ Wanted = 0
                 \/ /\ Len(res) % UShort = 0
                    /\ segment_size = Wanted \/ Wanted > IntMax
                    /\ segment_size <= buf_size => Len(res) = Q

(* The types alone; TypeOK's bound on f_index follows from WalkInv. *)
Types == /\ buf_size \in Nat \ {0} /\ jobs \in Nat \ {0} /\ flag \in Nat
         /\ buf_size \in FileSizes /\ jobs \in JobCounts /\ flag \in SegmentSizes
         /\ segment_size \in Nat /\ FLAGS_jobs \in Nat /\ rest \in Nat /\ f_index \in Nat
         /\ index \in 0 .. UShort - 1 /\ slices_num \in Nat
         /\ res \in Seq([index : 0 .. UShort - 1, len : Nat])
         /\ split_len_ \in Nat
         /\ pc \in {"start", "split", "sent", "received", "sigfpe"}

IInv == /\ Types
        /\ SegmentInv
        /\ IndexInv
        /\ WalkInv
        /\ ReceivedInv
        /\ FaultInv
        /\ HeaderLenFits

(* IInv holds in the beginning. *)
LEMMA InitIInv == Init => IInv
  <1> SUFFICES ASSUME Init
               PROVE  IInv
    OBVIOUS
  <1> USE FileSliceAssumption
  <1>1. res = <<>> /\ Len(res) = 0 /\ res \in Seq([index : 0 .. UShort - 1, len : Nat])
    BY EmptySeq DEF Init
  <1>2. Types
    BY <1>1 DEF Init, Types
  <1>3. 0 % UShort = 0
    BY SmallMod
  <1> QED
    BY <1>1, <1>2, <1>3 DEF Init, IInv, SegmentInv, IndexInv, WalkInv, ReceivedInv,
       FaultInv, HeaderLenFits, Cut

(* The choice of the segment size keeps it: the clamp and the rest. *)
LEMMA ChooseIInv ==
  ASSUME IInv, ChooseSegment
  PROVE  IInv'
  <1> USE FileSliceAssumption
  <1> DEFINE s == segment_size'
  <1>1. Types
    BY DEF IInv
  <1>2. buf_size \div jobs \in Nat /\ buf_size \div IntMax \in Nat
    BY <1>1, DivMod DEF Types
  <1>3. Wanted \in Nat
    BY <1>1, <1>2 DEF Wanted, Types
  <1>4. s \in Nat /\ s <= IntMax /\ s = IF Wanted > IntMax THEN IntMax ELSE Wanted
    BY <1>3 DEF ChooseSegment
  <1>5. FLAGS_jobs' \in Nat
    BY <1>1, <1>2 DEF ChooseSegment, Types
  <1>6. UNCHANGED <<buf_size, jobs, flag, Wanted, index, f_index, res, slices_num, split_len_>>
    BY DEF ChooseSegment, inputs, Wanted
  <1>7. pc = "start" /\ res = <<>> /\ f_index = 0 /\ Len(res) = 0
    BY EmptySeq DEF ChooseSegment, IInv, WalkInv
  <1>8. CASE s = 0
    <2>1. pc' = "sigfpe" /\ rest' = rest /\ Wanted = 0
      BY <1>4, <1>8 DEF ChooseSegment
    <2>2. Types'
      BY <1>1, <1>4, <1>5, <1>6, <2>1 DEF Types
    <2> QED
      BY <1>6, <1>7, <2>1, <2>2 DEF IInv, SegmentInv, IndexInv, WalkInv, ReceivedInv,
         FaultInv, HeaderLenFits, Cut
  <1>9. CASE s # 0
    <2>1. pc' = "split" /\ rest' = buf_size % s
      BY <1>9 DEF ChooseSegment
    <2>2. rest' \in Nat /\ buf_size = (buf_size \div s) * s + rest' /\ buf_size \div s \in Nat
      BY <1>1, <1>4, <1>9, <2>1, DivMod DEF Types
    <2>3. s > buf_size => rest' = buf_size
      BY <1>1, <1>4, <1>9, <2>1, SmallMod DEF Types
    <2>4. s <= buf_size => buf_size \div s # 0
      BY <1>1, <1>4, <1>9, AtLeastOne DEF Types
    <2>5. Types'
      BY <1>1, <1>4, <1>5, <1>6, <2>1, <2>2 DEF Types
    <2>6. SegmentInv'
      BY <1>4, <1>6, <1>9, <2>1, <2>3 DEF SegmentInv, Types
    <2>7. 0 * s = 0
      BY <1>4, MulZero
    <2>8. WalkInv'
      <3>1. res' = <<>> /\ Len(res') = 0 /\ f_index' = 0
        BY <1>6, <1>7
      <3>2. Q' = buf_size \div s
        BY <1>6 DEF Q
      <3>3. s <= buf_size => 0 < buf_size \div s
        BY <2>2, <2>4
      <3>4. s <= buf_size' => f_index' = Len(res') * s /\ Len(res') < Q'
        BY <1>6, <2>7, <3>1, <3>2, <3>3
      <3> QED
        BY <2>1, <3>1, <3>4 DEF WalkInv, Cut
    <2> QED
      BY <1>6, <1>7, <2>1, <2>5, <2>6, <2>8 DEF IInv, IndexInv, ReceivedInv, FaultInv,
         HeaderLenFits
  <1> QED
    BY <1>8, <1>9

(* A round of the loop keeps it: one more slice, one segment further. *)
LEMMA PushIInv ==
  ASSUME IInv, PushSlice
  PROVE  IInv'
  <1> USE FileSliceAssumption
  <1> DEFINE n == Len(res)
             e == [index |-> index, len |-> SliceSize]
             E == [index : 0 .. UShort - 1, len : Nat]
  <1>1. Types /\ pc = "split" /\ res \in Seq(E)
    BY DEF IInv, PushSlice, Types
  <1>2. /\ segment_size \in Nat \ {0}
        /\ segment_size <= IntMax
        /\ rest = buf_size % segment_size
        /\ segment_size > buf_size => rest = buf_size
        /\ buf_size \in Nat /\ IntMax \in Nat /\ f_index \in Nat
    BY <1>1 DEF IInv, SegmentInv, Types
  <1>3. Q \in Nat /\ rest \in Nat /\ rest < segment_size /\ buf_size = Q * segment_size + rest
    BY <1>2, DivMod DEF Q
  <1>4. SliceSize \in Nat /\ SliceSize <= segment_size + rest
    BY <1>2, <1>3 DEF SliceSize
  <1>5. e \in E
    BY <1>1, <1>4 DEF Types
  <1>6. n \in Nat /\ res' \in Seq(E) /\ Len(res') = n + 1
        /\ res'[n + 1] = e /\ (\A i \in 1 .. n : res'[i] = res[i])
    BY <1>1, <1>5, LenProperties, AppendProperties DEF PushSlice
  <1>7. UNCHANGED <<buf_size, jobs, flag, Wanted, Q, segment_size, FLAGS_jobs, rest,
                    slices_num, split_len_>>
    BY DEF PushSlice, inputs, Wanted, Q
  <1>8. f_index' = f_index + SliceSize
    BY DEF PushSlice
  <1>9. pc' \in {"split", "sent"} /\ (pc' = "split" <=> f_index' < buf_size)
    BY DEF PushSlice
  <1>10. index' = (index + 1) % UShort /\ index' \in 0 .. UShort - 1
    BY <1>1, DivMod DEF PushSlice, Types
  <1>11. Types'
    BY <1>1, <1>4, <1>6, <1>7, <1>8, <1>9, <1>10 DEF Types
  <1>12. SegmentInv'
    BY <1>1, <1>7, <1>9 DEF IInv, SegmentInv
  <1>13. IndexInv'
    <2>1. index = n % UShort /\ \A i \in 1 .. n : res[i].index = (i - 1) % UShort
      BY DEF IInv, IndexInv
    <2>2. index' = (n + 1) % UShort
      BY <1>6, <1>10, <2>1, ModSucc
    <2>3. res'[n + 1].index = ((n + 1) - 1) % UShort
      BY <1>6, <2>1
    <2>4. \A i \in 1 .. Len(res') : i \in 1 .. n \/ i = n + 1
      BY <1>6
    <2> QED
      BY <1>6, <2>1, <2>2, <2>3, <2>4 DEF IndexInv
  <1>14. HeaderLenFits'
    <2>1. SliceSize <= 2 * IntMax + 1
      BY <1>2, <1>3, <1>4
    <2>2. \A i \in 1 .. Len(res') : i \in 1 .. n \/ i = n + 1
      BY <1>6
    <2>3. \A i \in 1 .. n : res[i].len <= 2 * IntMax + 1
      BY DEF IInv, HeaderLenFits
    <2>4. res'[n + 1].len = SliceSize
      BY <1>6
    <2>5. \A i \in 1 .. Len(res') : res'[i].len <= 2 * IntMax + 1
      BY <1>6, <2>1, <2>2, <2>3, <2>4
    <2> QED
      BY <2>5 DEF HeaderLenFits
  <1>15. WalkInv'
    <2>1. CASE segment_size > buf_size
      <3>1. SliceSize = segment_size /\ f_index = 0 /\ res = <<>>
        BY <1>1, <1>2, <2>1 DEF IInv, WalkInv, SliceSize
      <3>2. pc' = "sent"
        BY <1>2, <1>8, <1>9, <2>1, <3>1
      <3> QED
        BY <1>2, <1>7, <2>1, <3>2 DEF WalkInv
    <2>2. CASE segment_size <= buf_size
      <3>1. /\ f_index = n * segment_size
            /\ n < Q
            /\ \A i \in 1 .. n : res[i].len = segment_size
        BY <1>1, <2>2 DEF IInv, WalkInv
      <3>2. (n + 1) * segment_size = n * segment_size + segment_size
        BY <1>2, <1>6
      <3>3. \A i \in 1 .. Len(res') : i \in 1 .. n \/ i = n + 1
        BY <1>6
      <3>4. CASE n + 1 = Q
        <4>1. f_index + segment_size + rest = buf_size
          BY <1>2, <1>3, <1>6, <3>1, <3>2, <3>4
        <4>2. SliceSize = segment_size + rest /\ f_index' = buf_size
          BY <1>2, <1>3, <1>8, <4>1 DEF SliceSize
        <4>3. pc' = "sent"
          BY <1>2, <1>9, <4>2
        <4>4. res'[n + 1].len = segment_size + rest
          BY <1>6, <4>2
        <4>5. ASSUME NEW i \in 1 .. n
              PROVE  i # Q /\ res'[i].len = segment_size
          <5>1. res'[i] = res[i]
            BY <1>6
          <5>2. res[i].len = segment_size
            BY <3>1
          <5>3. i # Q
            BY <1>6, <3>4
          <5> QED
            BY <5>1, <5>2, <5>3
        <4>6. \A i \in 1 .. Len(res') :
                res'[i].len = IF i = Q THEN segment_size + rest ELSE segment_size
          BY <3>3, <3>4, <4>4, <4>5
        <4>7. Len(res') = Q
          BY <1>6, <3>4
        <4> QED
          BY <1>2, <1>7, <2>2, <4>3, <4>6, <4>7 DEF WalkInv, Cut
      <3>5. CASE n + 1 # Q
        <4>1. n + 1 < Q
          BY <1>3, <1>6, <3>1, <3>5
        <4>2. (n + 1) * segment_size + segment_size <= Q * segment_size
              /\ Q * segment_size \in Nat /\ (n + 1) * segment_size \in Nat
          <5>1. PICK k \in Nat : k = n + 1
            BY <1>6
          <5>2. k * segment_size + segment_size <= Q * segment_size
                /\ Q * segment_size \in Nat /\ k * segment_size \in Nat
            BY <1>2, <1>3, <4>1, <5>1, MulStrict
          <5> QED
            BY <5>1, <5>2
        <4>3. f_index + segment_size + rest # buf_size
          BY <1>2, <1>3, <3>1, <3>2, <4>2
        <4>4. SliceSize = segment_size /\ f_index' = (n + 1) * segment_size
          BY <1>8, <3>1, <3>2, <4>3 DEF SliceSize
        <4>5. pc' = "split"
          BY <1>2, <1>3, <1>9, <4>2, <4>4
        <4>6. res'[n + 1].len = segment_size
          BY <1>6, <4>4
        <4>7. \A i \in 1 .. Len(res') : res'[i].len = segment_size
          BY <1>6, <3>1, <3>3, <4>6
        <4>8. Len(res') < Q /\ f_index' = Len(res') * segment_size
          BY <1>6, <4>1, <4>4
        <4> QED
          BY <1>2, <1>7, <2>2, <4>5, <4>7, <4>8 DEF WalkInv, Cut
      <3> QED
        BY <3>4, <3>5
    <2> QED
      BY <1>2, <2>1, <2>2
  <1> QED
    BY <1>9, <1>11, <1>12, <1>13, <1>14, <1>15 DEF IInv, ReceivedInv, FaultInv

(* The receiver changes nothing of the sender's. *)
LEMMA ReceiveIInv ==
  ASSUME IInv, ReceiveHeader
  PROVE  IInv'
  <1> USE FileSliceAssumption
  <1>1. Types /\ pc = "sent"
    BY DEF IInv, ReceiveHeader
  <1>2. UNCHANGED <<buf_size, jobs, flag, Wanted, Q, segment_size, FLAGS_jobs, rest, index,
                    f_index, res>>
    BY DEF ReceiveHeader, inputs, Wanted, Q
  <1>3. Len(res) \in Nat
    BY <1>1, LenProperties DEF Types
  <1>4. slices_num' = Len(res) % UShort /\ slices_num' \in 0 .. UShort - 1
    BY <1>3, DivMod DEF ReceiveHeader
  <1>5. IndexInv' /\ HeaderLenFits'
    BY <1>2 DEF IInv, IndexInv, HeaderLenFits
  <1>6. CASE slices_num' = 0
    <2>1. pc' = "sigfpe" /\ split_len_' = split_len_
      BY <1>6 DEF ReceiveHeader
    <2>2. Types'
      BY <1>1, <1>2, <1>4, <2>1 DEF Types
    <2>3. FaultInv'
      BY <1>1, <1>2, <1>4, <1>6 DEF IInv, SegmentInv, WalkInv, FaultInv, Cut
    <2> QED
      BY <1>5, <2>1, <2>2, <2>3 DEF IInv, SegmentInv, WalkInv, ReceivedInv, Cut
  <1>7. CASE slices_num' # 0
    <2>1. pc' = "received" /\ split_len_' = buf_size \div slices_num'
      BY <1>7 DEF ReceiveHeader
    <2>2. split_len_' \in Nat
      <3>1. slices_num' \in Nat \ {0} /\ buf_size \in Nat
        BY <1>1, <1>4, <1>7 DEF Types
      <3> QED
        BY <2>1, <3>1, DivMod
    <2>3. Types'
      BY <1>1, <1>2, <1>4, <2>1, <2>2 DEF Types
    <2>4. SegmentInv' /\ WalkInv'
      BY <1>1, <1>2, <2>1 DEF IInv, SegmentInv, WalkInv, Cut
    <2> QED
      BY <1>2, <1>4, <1>5, <1>7, <2>1, <2>3, <2>4 DEF IInv, ReceivedInv, FaultInv
  <1> QED
    BY <1>6, <1>7

(* IInv is inductive. *)
LEMMA NextIInv == IInv /\ [Next]_vars => IInv'
  <1>1. ASSUME IInv, UNCHANGED vars
        PROVE  IInv'
    BY <1>1 DEF vars, inputs, IInv, Types, SegmentInv, IndexInv, WalkInv, ReceivedInv,
                FaultInv, HeaderLenFits, Cut, Q, Wanted
  <1> QED
    BY <1>1, ChooseIInv, PushIInv, ReceiveIInv DEF Next
-----------------------------------------------------------------------------
(* What the loop has walked through is a part of the file. *)
LEMMA IInvTypes ==
  ASSUME IInv
  PROVE  TypeOK
  <1> USE FileSliceAssumption
  <1>1. Types
    BY DEF IInv
  <1>2. ASSUME pc = "split", segment_size <= buf_size
        PROVE  f_index + segment_size + rest <= buf_size
    <2>1. segment_size \in Nat \ {0} /\ rest = buf_size % segment_size
      BY <1>2 DEF IInv, SegmentInv
    <2>2. Q \in Nat /\ rest \in Nat /\ buf_size = Q * segment_size + rest
      BY <1>1, <2>1, DivMod DEF Q, Types
    <2>3. f_index = Len(res) * segment_size /\ Len(res) < Q /\ Len(res) \in Nat
      BY <1>1, <1>2, LenProperties DEF IInv, WalkInv, Types
    <2>4. f_index + segment_size <= Q * segment_size /\ Q * segment_size \in Nat
      BY <2>1, <2>2, <2>3, MulStrict
    <2> QED
      BY <1>1, <2>1, <2>2, <2>4 DEF Types
  <1> QED
    BY <1>1, <1>2 DEF Types, TypeOK

(* TypeOK of file_slice.h: f_index stays inside the file while it is cut.  *)
THEOREM TypeCorrect == Spec => []TypeOK
  BY IInvTypes, InitIInv, NextIInv, PTL DEF Spec

(* The 32-bit len of the slice header never truncates a slice's length.    *)
THEOREM LengthsFit == Spec => []HeaderLenFits
  <1>1. IInv => HeaderLenFits
    BY DEF IInv
  <1> QED
    BY <1>1, InitIInv, NextIInv, PTL DEF Spec
-----------------------------------------------------------------------------
(* What a finished cut looks like when nothing wrapped around. *)
LEMMA CutFacts ==
  ASSUME IInv, Cut, segment_size <= buf_size, Len(res) <= UShort
  PROVE  /\ segment_size \in Nat \ {0}
         /\ buf_size \in Nat
         /\ Q \in Nat \ {0}
         /\ rest \in Nat
         /\ rest < segment_size
         /\ buf_size = Q * segment_size + rest
         /\ Len(res) = Q
         /\ \A i \in 1 .. Q :
              /\ res[i].index = i - 1
              /\ Source(res[i]) = (i - 1) * segment_size
              /\ res[i].len = IF i = Q THEN segment_size + rest ELSE segment_size
  <1> USE FileSliceAssumption
  <1>1. /\ segment_size \in Nat \ {0}
        /\ rest = buf_size % segment_size
        /\ buf_size \in Nat
    BY DEF IInv, Cut, SegmentInv, Types
  <1>2. Q \in Nat \ {0} /\ rest \in Nat /\ rest < segment_size
        /\ buf_size = Q * segment_size + rest
    BY <1>1, DivMod, AtLeastOne DEF Q
  <1>3. /\ Len(res) = Q
        /\ \A i \in 1 .. Q : res[i].len = IF i = Q THEN segment_size + rest ELSE segment_size
    BY DEF IInv, WalkInv
  <1>4. ASSUME NEW i \in 1 .. Q
        PROVE  res[i].index = i - 1 /\ Source(res[i]) = (i - 1) * segment_size
    <2>1. PICK k \in Nat : k = i - 1
      BY <1>2
    <2>2. k < UShort
      BY <1>2, <1>3, <2>1
    <2>3. k % UShort = k
      BY <2>2, SmallMod
    <2>4. res[i].index = (i - 1) % UShort
      BY <1>3 DEF IInv, IndexInv
    <2> QED
      BY <2>1, <2>3, <2>4 DEF Source
  <1> QED
    BY <1>1, <1>2, <1>3, <1>4

(* Of q slices of s bytes each, r more in the last, exactly one has byte b. *)
InOneSlice(b, q, s, r) ==
  \E i \in 1 .. q : \A j \in 1 .. q :
    (j - 1) * s <= b /\ b < (j - 1) * s + (IF j = q THEN s + r ELSE s) <=> i = j

(* It is the slice of b's segment, or the last one.                        *)
LEMMA ByteInOneSlice ==
  ASSUME NEW q \in Nat \ {0}, NEW s \in Nat \ {0}, NEW r \in Nat, r < s,
         NEW b \in Nat, b < q * s + r
  PROVE  InOneSlice(b, q, s, r)
  <1>1. PICK d \in Nat, m \in Nat : m < s /\ b = d * s + m
    <2>1. b \div s \in Nat /\ b % s \in Nat /\ b % s < s /\ b = (b \div s) * s + (b % s)
      BY DivMod
    <2> QED
      BY <2>1
  <1>2. PICK p \in Nat : p = q - 1
    OBVIOUS
  <1>3. p * s + s = q * s /\ p * s \in Nat /\ q * s \in Nat /\ d * s \in Nat
    BY <1>2
  <1>4. CASE d < p
    <2>1. d + 1 \in 1 .. q
      BY <1>2, <1>4
    <2>2. ASSUME NEW j \in 1 .. q
          PROVE  (j - 1) * s <= b /\ b < (j - 1) * s + (IF j = q THEN s + r ELSE s) <=> d + 1 = j
      <3>1. PICK k \in Nat : k = j - 1
        OBVIOUS
      <3>2. k * s \in Nat
        BY <3>1
      <3>3. CASE k = d
        BY <1>1, <1>2, <1>4, <3>1, <3>2, <3>3
      <3>4. CASE k < d
        <4>1. k * s + s <= d * s /\ j # q
          BY <1>2, <1>4, <3>1, <3>4, MulStrict
        <4> QED
          BY <1>1, <1>3, <3>1, <3>2, <3>4, <4>1
      <3>5. CASE d < k
        <4>1. d * s + s <= k * s
          BY <3>5, MulStrict
        <4> QED
          BY <1>1, <1>3, <3>1, <3>2, <3>5, <4>1
      <3> QED
        BY <3>3, <3>4, <3>5
    <2> QED
      BY <2>1, <2>2 DEF InOneSlice
  <1>5. CASE p <= d
    <2>1. p * s <= d * s
      BY <1>5, MulMono
    <2>2. ASSUME NEW j \in 1 .. q
          PROVE  (j - 1) * s <= b /\ b < (j - 1) * s + (IF j = q THEN s + r ELSE s) <=> q = j
      <3>1. PICK k \in Nat : k = j - 1
        OBVIOUS
      <3>2. k * s \in Nat
        BY <3>1
      <3>3. CASE k = p
        BY <1>1, <1>2, <1>3, <2>1, <3>1, <3>2, <3>3
      <3>4. CASE k # p
        <4>1. k < p
          BY <1>2, <3>1, <3>4
        <4>2. k * s + s <= p * s
          BY <4>1, MulStrict
        <4> QED
          BY <1>1, <1>2, <1>3, <2>1, <3>1, <3>2, <4>1, <4>2
      <3> QED
        BY <3>3, <3>4
    <2> QED
      BY <2>2 DEF InOneSlice
  <1> QED
    BY <1>2, <1>4, <1>5

(* The same of SplitFile's slices. *)
LEMMA SlicesTile ==
  ASSUME IInv, Cut, segment_size <= buf_size, Len(res) <= UShort
  PROVE  /\ \A i \in 1 .. Len(res) : Source(res[i]) + res[i].len <= buf_size
         /\ \A b \in 0 .. buf_size - 1 :
              \E i \in 1 .. Len(res) :
                \A j \in 1 .. Len(res) :
                  Source(res[j]) <= b /\ b < Source(res[j]) + res[j].len <=> i = j
  <1> DEFINE s == segment_size
  <1>1. /\ s \in Nat \ {0}
        /\ buf_size \in Nat
        /\ Q \in Nat \ {0}
        /\ rest \in Nat
        /\ rest < s
        /\ buf_size = Q * s + rest
        /\ Len(res) = Q
        /\ \A i \in 1 .. Q :
             /\ Source(res[i]) = (i - 1) * s
             /\ res[i].len = IF i = Q THEN s + rest ELSE s
    BY CutFacts
  <1>2. ASSUME NEW i \in 1 .. Q
        PROVE  Source(res[i]) + res[i].len <= buf_size
    <2>1. PICK k \in Nat : k = i - 1
      BY <1>1
    <2>2. k * s + s <= Q * s /\ k * s \in Nat /\ Q * s \in Nat
      BY <1>1, <2>1, MulStrict
    <2>3. Source(res[i]) = k * s /\ res[i].len \in {s, s + rest}
      BY <1>1, <2>1
    <2> DEFINE ks == k * s
               qs == Q * s
               len == res[i].len
    <2>4. /\ ks + s <= qs /\ ks \in Nat /\ qs \in Nat
          /\ s \in Nat /\ rest \in Nat /\ len \in {s, s + rest}
      BY <1>1, <2>2, <2>3
    <2>5. Source(res[i]) = ks /\ buf_size = qs + rest
      BY <1>1, <2>3
    <2> HIDE DEF s, ks, qs, len
    <2>6. ks + len <= qs + rest
      BY <2>4
    <2>7. Source(res[i]) + len <= buf_size
      BY <2>5, <2>6
    <2> QED
      BY <2>7 DEF len
  <1>3. ASSUME NEW b \in 0 .. buf_size - 1
        PROVE  \E i \in 1 .. Q : \A j \in 1 .. Q :
                 Source(res[j]) <= b /\ b < Source(res[j]) + res[j].len <=> i = j
    <2>1. b \in Nat /\ b < Q * s + rest
      BY <1>1
    <2> HIDE DEF s
    <2>2. PICK i \in 1 .. Q : \A j \in 1 .. Q :
            (j - 1) * s <= b /\ b < (j - 1) * s + (IF j = Q THEN s + rest ELSE s) <=> i = j
      <3>1. Q \in Nat \ {0} /\ s \in Nat \ {0} /\ rest \in Nat /\ rest < s
        BY <1>1
      <3>2. InOneSlice(b, Q, s, rest)
        BY <2>1, <3>1, ByteInOneSlice
      <3> QED
        BY <3>2 DEF InOneSlice
    <2>3. ASSUME NEW j \in 1 .. Q
          PROVE  Source(res[j]) <= b /\ b < Source(res[j]) + res[j].len <=> i = j
      <3>1. /\ Source(res[j]) = (j - 1) * s
            /\ res[j].len = IF j = Q THEN s + rest ELSE s
        BY <1>1
      <3>2. (j - 1) * s <= b /\ b < (j - 1) * s + (IF j = Q THEN s + rest ELSE s) <=> i = j
        BY <2>2
      <3> QED
        BY <3>1, <3>2, Zenon
    <2> QED
      BY <2>3
  <1> QED
    BY <1>1, <1>2, <1>3

(* SplitFile: every byte is in exactly one slice, no slice leaves the file. *)
THEOREM Tiling == Spec => []SlicesTileFile
  <1>1. IInv => SlicesTileFile
    BY SlicesTile DEF SlicesTileFile
  <1> QED
    BY <1>1, InitIInv, NextIInv, PTL DEF Spec
-----------------------------------------------------------------------------
(* The receiver's split_len_ is buf_size divided by the number of slices.  *)
LEMMA RestoredIff ==
  ASSUME IInv, pc = "received", segment_size <= buf_size, Len(res) < UShort
  PROVE  Restored <=> rest < Len(res) \/ Len(res) = 1
  <1> USE FileSliceAssumption
  <1> DEFINE s == segment_size
  <1>1. Cut /\ Len(res) <= UShort
    <2>1. Len(res) \in Nat
      BY LenProperties DEF IInv, Types
    <2> QED
      BY <2>1 DEF Cut
  <1>2. /\ s \in Nat \ {0}
        /\ buf_size \in Nat
        /\ Q \in Nat \ {0}
        /\ rest \in Nat
        /\ buf_size = Q * s + rest
        /\ Len(res) = Q
        /\ \A i \in 1 .. Q : res[i].index = i - 1
    BY <1>1, CutFacts
  <1>3. split_len_ = buf_size \div Q
    <2>1. Q % UShort = Q
      BY <1>2, SmallMod
    <2> QED
      BY <1>2, <2>1 DEF IInv, ReceivedInv
  <1>4. split_len_ \in Nat /\ buf_size % Q \in Nat /\ buf_size % Q < Q
        /\ buf_size = split_len_ * Q + (buf_size % Q)
    BY <1>2, <1>3, DivMod
  <1>5. buf_size = s * Q + rest
    BY <1>2
  <1>6. CASE Q = 1
    <2>1. \A i \in 1 .. Q : res[i].index = 0
      BY <1>2, <1>6
    <2>2. 0 * s = 0 /\ 0 * split_len_ = 0
      BY <1>2, <1>4, MulZero
    <2>3. Restored
      BY <1>2, <2>1, <2>2 DEF Restored, Target, Source
    <2> QED
      BY <1>2, <1>6, <2>3
  <1>7. CASE rest < Q
    <2>1. split_len_ = s
      BY <1>2, <1>3, <1>5, <1>7, DivUnique
    <2>2. Restored
      BY <2>1 DEF Restored, Target, Source
    <2> QED
      BY <1>2, <1>7, <2>2
  <1>8. CASE Q # 1 /\ ~ rest < Q
    <2>1. 2 \in 1 .. Q /\ res[2].index = 1
      BY <1>2, <1>8
    <2>2. 1 * split_len_ = split_len_ /\ 1 * s = s
      BY <1>2, <1>4
    <2>3. Restored => split_len_ = s
      BY <1>2, <2>1, <2>2 DEF Restored, Target, Source
    <2>4. split_len_ = s => rest = buf_size % Q
      BY <1>2, <1>4, <1>5
    <2> QED
      BY <1>2, <1>4, <1>8, <2>3, <2>4
  <1> QED
    BY <1>2, <1>6, <1>7, <1>8

(* SplitFile against Recv: the file is restored exactly when the rest is   *)
(* smaller than the number of slices, or there is only one slice.          *)
THEOREM Placement == Spec => []RestoredExactlyWhen
  <1>1. IInv => RestoredExactlyWhen
    BY RestoredIff DEF RestoredExactlyWhen
  <1> QED
    BY <1>1, InitIInv, NextIInv, PTL DEF Spec

(* Dividing b into j parts and counting how often such a part fits into b. *)
LEMMA DefaultCount ==
  ASSUME NEW b \in Nat, NEW j \in Nat \ {0}, j <= b, NEW w \in Nat, w = b \div j,
         NEW q \in Nat, q = b \div w
  PROVE  /\ w \in Nat \ {0}
         /\ w <= b
         /\ j <= q
         /\ q < 2 * j
         /\ b % w < q
  <1>1. w \in Nat \ {0}
    BY AtLeastOne
  <1>2. PICK r \in Nat : r < j /\ b = w * j + r
    <2>1. b % j \in Nat /\ b % j < j /\ b = (b \div j) * j + (b % j)
      BY DivMod
    <2> QED
      BY <2>1
  <1>3. PICK t \in Nat : t = b % w /\ t < w /\ b = q * w + t
    <2>1. b % w \in Nat /\ b % w < w /\ b = (b \div w) * w + (b % w)
      BY <1>1, DivMod
    <2> QED
      BY <2>1
  <1>4. b = j * w + r /\ j * w \in Nat /\ q * w \in Nat
    BY <1>1, <1>2
  <1>5. 1 * w <= j * w /\ 1 * w = w
    BY <1>1, MulMono
  <1>6. w <= b
    BY <1>4, <1>5
  <1>7. j <= q
    <2>1. q < j => q * w + w <= j * w
      BY <1>1, MulStrict
    <2> DEFINE qw == q * w
               jw == j * w
    <2>2. /\ qw \in Nat /\ jw \in Nat /\ w \in Nat /\ r \in Nat /\ t \in Nat
          /\ b = jw + r /\ b = qw + t /\ t < w
          /\ q < j => qw + w <= jw
      BY <1>1, <1>3, <1>4, <2>1
    <2> HIDE DEF qw, jw
    <2>3. ~ q < j
      BY <2>2
    <2> QED
      BY <2>3
  <1>8. 1 * j <= w * j /\ 1 * j = j /\ w * j = j * w
    BY <1>1, MulMono
  <1>9. q < 2 * j
    <2>1. PICK k \in Nat : k = 2 * j
      OBVIOUS
    <2>2. k <= q => k * w <= q * w
      BY MulMono
    <2>3. k * w = j * w + j * w
      BY <2>1
    <2> QED
      BY <1>2, <1>3, <1>4, <1>8, <2>1, <2>2, <2>3
  <1>10. j * w <= q * w
    BY <1>7, MulMono
  <1> QED
    BY <1>1, <1>2, <1>3, <1>4, <1>6, <1>7, <1>9, <1>10

(* Default flags, a segment that needs no clamp and at most 2^15 jobs: no  *)
(* SIGFPE, between jobs and 2 * jobs - 1 slices, and the file is restored. *)
THEOREM DefaultFlags == Spec => []DefaultIsSafe
  <1> USE FileSliceAssumption
  <1>1. ASSUME IInv, flag = 0, jobs <= buf_size, buf_size \div jobs <= IntMax,
               2 * jobs <= UShort
        PROVE  /\ pc # "sigfpe"
               /\ Cut => jobs <= Len(res) /\ Len(res) < 2 * jobs
               /\ pc = "received" => Restored
    <2>1. Types
      BY <1>1 DEF IInv
    <2>2. PICK w \in Nat \ {0} : w = buf_size \div jobs
      BY <1>1, <2>1, AtLeastOne DEF Types
    <2>3. PICK q \in Nat : q = buf_size \div w
      BY <2>1, <2>2, DivMod DEF Types
    <2>4. w <= buf_size /\ jobs <= q /\ q < 2 * jobs /\ buf_size % w < q
      BY <1>1, <2>1, <2>2, <2>3, DefaultCount DEF Types
    <2>5. Wanted = w /\ ~ (Wanted > IntMax)
      BY <1>1, <2>1, <2>2 DEF Wanted, Types
    <2>6. q \in Nat \ {0} /\ q < UShort /\ q % UShort = q
      <3>1. q # 0 /\ q < UShort
        BY <1>1, <2>1, <2>3, <2>4 DEF Types
      <3> QED
        BY <3>1, SmallMod
    <2>7. pc # "sigfpe"
      <3>1. ASSUME segment_size = w
            PROVE  Q = q /\ segment_size <= buf_size
        BY <2>3, <2>4, <3>1 DEF Q
      <3> QED
        BY <1>1, <2>2, <2>5, <2>6, <3>1 DEF IInv, FaultInv
    <2>8. ASSUME Cut
          PROVE  /\ segment_size = w
                 /\ rest = buf_size % w
                 /\ Len(res) = q
      <3>1. segment_size = w /\ rest = buf_size % w
        BY <1>1, <2>5, <2>8 DEF IInv, SegmentInv, Cut
      <3>2. Len(res) = Q
        BY <1>1, <2>4, <2>8, <3>1 DEF IInv, WalkInv
      <3> QED
        BY <2>3, <3>1, <3>2 DEF Q
    <2>9. ASSUME pc = "received"
          PROVE  Restored
      <3>1. segment_size <= buf_size /\ Len(res) < UShort /\ rest < Len(res)
        BY <2>4, <2>6, <2>8, <2>9 DEF Cut
      <3> QED
        BY <1>1, <2>9, <3>1, RestoredIff
    <2> QED
      BY <2>4, <2>7, <2>8, <2>9
  <1>2. IInv => DefaultIsSafe
    BY <1>1 DEF DefaultIsSafe
  <1> QED
    BY <1>2, InitIInv, NextIInv, PTL DEF Spec
=============================================================================
