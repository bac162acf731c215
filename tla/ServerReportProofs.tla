------------------------- MODULE ServerReportProofs -------------------------
(***************************************************************************)
(* The order of things in the receiver, for any number of slices, jobs and *)
(* buffer sizes: the supervisor reports only after every Recv, undefined   *)
(* behaviour has one of the causes that UBExplained names, and with one    *)
(* job and no faults no slice overtakes the header as long as the          *)
(* supervisor has not given up.                                            *)
(***************************************************************************)
EXTENDS ServerReadProofs, FiniteSetTheorems

(* slices_th_res_ holds the future of every accepted connection, once, and *)
(* slices_th_num_ counts no more of them than there are.                   *)
VectorInv ==
  /\ \A i, j \in 1 .. Len(slices_th_res_) : slices_th_res_[i] = slices_th_res_[j] => i = j
  /\ \A i \in 1 .. Len(slices_th_res_) : pc[slices_th_res_[i]] \notin {"none", "backlog"}
  /\ slices_th_num_ <= Len(slices_th_res_)
  /\ mpc = "count" => slices_th_num_ < Len(slices_th_res_)

(* What the supervisor knows once its wait is over. *)
Collected == {"validate", "cleanup", "unmap", "threw", "ended"}
Waited    == {"collect"} \cup Collected

SupInv ==
  /\ some => slices_th_num_ >= 1
  /\ sup \in {"connect"} \cup Waited
       => slices_th_num_ >= 1 /\ (~torn => slices_th_num_ >= N + 1)
  /\ sup \in Waited
       => fn >= 1 /\ fn <= Len(slices_th_res_) /\ (~torn => fn >= N + 1)
  /\ sup \in Collected
       => \A i \in 1 .. fn : pc[slices_th_res_[i]] \in Returned
  /\ freed # {} => sup \in {"unmap", "ended"}
  /\ start_ = "unmapped" => sup = "ended"

(* Where the pointer that a slice is decompressed to comes from. *)
BufInv ==
  /\ start_ = "failed" => Faults
  /\ \A c \in Conn : /\ r[c].buf = "null" => early # {}
                     /\ r[c].buf = "mapped" => start_ # "null"
                     /\ r[c].buf = "failed" => Faults
                     /\ r[c].buf = "unmapped" => torn /\ sup = "ended"

(* The pool has Jobs + 1 threads. *)
BusyInv == Busy <= Jobs + 1

(* The header is the first in every queue. *)
FifoInv ==
  /\ \A c \in Slice : peer[c] # "none" => peer[Header] = "closed"
  /\ pc[Header] = "none" => peer[Header] = "none"
  /\ pc[Header] = "backlog" => backlog # <<>> /\ backlog[1] = Header
  /\ pc[Header] = "queued" => tasks_ # <<>> /\ tasks_[1] = Header
  /\ pc[Header] \in {"none", "backlog"} => tasks_ = <<>> /\ slices_th_res_ = <<>>
  /\ pc[Header] \notin {"none", "backlog"}
       => slices_th_res_ # <<>> /\ slices_th_res_[1] = Header

(* With one job and no faults, no slice is started before the header is    *)
(* dealt with, as long as the supervisor has not given up.                 *)
SingleInv ==
  /\ ~Faults => \A c \in Conn : peer[c] # "reset" /\ pc[c] # "gaveup"
  /\ Jobs = 1 /\ ~Faults /\ sup # "exited"
       => /\ sender = "up"
          /\ early = {}
          /\ \A c \in Conn : pc[c] # "failed"
          /\ \A c \in Slice : pc[c] \in Idle \ Returned \/ start_ # "null"
-----------------------------------------------------------------------------
(* There are N + 1 connections, the header's one of them. *)
LEMMA ConnFinite == IsFiniteSet(Conn) /\ Cardinality(Conn) = N + 1 /\ N \in Nat \ {0}
  <1>1. IsFiniteSet(Slice) /\ Header \notin Slice /\ Slice # {}
    BY ServerAssumption
  <1>2. IsFiniteSet(Conn) /\ Cardinality(Conn) = Cardinality(Slice) + 1
    BY <1>1, FS_AddElement DEF Conn
  <1>3. Cardinality(Slice) \in Nat /\ Cardinality(Slice) # 0
    BY <1>1, FS_CardinalityType, FS_EmptySet
  <1> QED
    BY <1>2, <1>3 DEF N

(* A vector of more than N different connections holds all of them. *)
LEMMA AllThere ==
  ASSUME NEW q \in Seq(Conn), NEW n \in 1 .. Len(q), n >= N + 1,
         \A i, j \in 1 .. Len(q) : q[i] = q[j] => i = j,
         NEW c \in Conn
  PROVE  \E i \in 1 .. n : q[i] = c
  <1> SUFFICES ASSUME \A i \in 1 .. n : q[i] # c
               PROVE  FALSE
    OBVIOUS
  <1> DEFINE f == [i \in 1 .. n |-> q[i]]
  <1>0. /\ Len(q) \in Nat /\ n \in Nat /\ n \in Int
        /\ \A i \in 1 .. n : i \in 1 .. Len(q) /\ q[i] \in Conn
    OBVIOUS
  <1>1. f \in [1 .. n -> Conn \ {c}]
    OBVIOUS
  <1>2. IsFiniteSet(Conn \ {c}) /\ Cardinality(Conn \ {c}) = N
    BY ConnFinite, FS_RemoveElement
  <1>3. IsFiniteSet(1 .. n) /\ Cardinality(1 .. n) = n
    BY FS_Interval
  <1>4. Cardinality(Conn \ {c}) < Cardinality(1 .. n)
    BY <1>2, <1>3, ConnFinite
  <1> HIDE DEF f
  <1>5. \E i, j \in 1 .. n : i # j /\ f[i] = f[j]
    <2> DEFINE S == 1 .. n
               T == Conn \ {c}
    <2>1. IsFiniteSet(S) /\ IsFiniteSet(T) /\ Cardinality(T) < Cardinality(S) /\ f \in [S -> T]
      BY <1>1, <1>2, <1>3, <1>4
    <2> HIDE DEF S, T
    <2>2. \E i, j \in S : i # j /\ f[i] = f[j]
      BY <2>1, FS_PigeonHole
    <2> QED
      BY <2>2 DEF S
  <1>6. PICK i \in 1 .. n, j \in 1 .. n : i # j /\ f[i] = f[j]
    BY <1>5
  <1>7. q[i] = q[j]
    BY <1>6 DEF f
  <1> QED
    BY <1>0, <1>6, <1>7

(* Once the supervisor has passed an untorn wait, all have been accepted.  *)
LEMMA AllAccepted ==
  ASSUME IInv, VectorInv, SupInv, ~torn,
         sup \in Waited, NEW c \in Conn
  PROVE  \E i \in 1 .. fn : slices_th_res_[i] = c
  <1>1. slices_th_res_ \in Seq(Conn) /\ fn \in 1 .. Len(slices_th_res_) /\ fn >= N + 1
    BY DEF IInv, TypeOK, MainTypes, SupTypes, SupInv
  <1> QED
    BY <1>1, AllThere DEF VectorInv

(* As long as a Recv is in progress the futures have not been collected,   *)
(* unless the wait was torn.                                               *)
LEMMA NotCollected ==
  ASSUME IInv, VectorInv, SupInv, NEW c \in Conn, pc[c] \notin Returned, sup \in Collected
  PROVE  torn
  <1> SUFFICES ASSUME ~torn
               PROVE  FALSE
    OBVIOUS
  <1>1. PICK i \in 1 .. fn : slices_th_res_[i] = c
    BY AllAccepted DEF Waited
  <1> QED
    BY <1>1 DEF SupInv

(* There are finitely many Recvs in progress. *)
LEMMA ActiveFinite ==
  /\ IsFiniteSet({c \in Conn : pc[c] \notin Idle})
  /\ Cardinality({c \in Conn : pc[c] \notin Idle}) \in Nat
  <1>1. {c \in Conn : pc[c] \notin Idle} \in SUBSET Conn
    OBVIOUS
  <1> QED
    BY <1>1, ConnFinite, FS_Subset, FS_CardinalityType

(* A step that starts no Recv does not make the pool busier. *)
LEMMA BusyShrinks ==
  ASSUME BusyInv, \A c \in Conn : pc[c] \in Idle => pc'[c] \in Idle,
         sup \in Gone => sup' \in Gone
  PROVE  BusyInv'
  <1> DEFINE A == {c \in Conn : pc[c] \notin Idle}
  <1>1. IsFiniteSet(A) /\ Cardinality(A) \in Nat
    BY ActiveFinite
  <1>2. A' \in SUBSET A
    OBVIOUS
  <1>3. Cardinality(A') <= Cardinality(A) /\ Cardinality(A') \in Nat
    BY <1>1, FS_Subset, FS_CardinalityType
  <1> HIDE DEF A
  <1>4. Busy = Cardinality(A) + (IF sup \in Gone THEN 0 ELSE 1)
    BY DEF Busy, A
  <1>5. Busy' = Cardinality(A') + (IF sup' \in Gone THEN 0 ELSE 1)
    BY DEF Busy, A
  <1> QED
    BY <1>1, <1>3, <1>4, <1>5, ServerAssumption DEF BusyInv

(* VectorInv is kept. *)
LEMMA NextVector == IInv /\ VectorInv /\ [Next]_vars => VectorInv'
  <1> SUFFICES ASSUME IInv, VectorInv, [Next]_vars
               PROVE  VectorInv'
    OBVIOUS
  <1>1. ASSUME NEW c \in Conn, Connect(c)
        PROVE  VectorInv'
    <2>1. /\ pc[c] = "none" /\ pc' = [pc EXCEPT ![c] = "backlog"]
          /\ UNCHANGED <<slices_th_res_, slices_th_num_, mpc>>
      BY <1>1 DEF Connect, IInv, QueueInv
    <2> QED
      BY <2>1 DEF VectorInv
  <1>2. CASE MainWait
    BY <1>2 DEF VectorInv, MainWait
  <1>3. CASE Accept
    <2>1. PICK c \in Conn : /\ c = Head(backlog) /\ pc[c] = "backlog"
                           /\ pc' = [pc EXCEPT ![c] = "queued"]
      BY <1>3, AcceptMoves
    <2>2. /\ slices_th_res_' = Append(slices_th_res_, c) /\ slices_th_num_' = slices_th_num_
          /\ slices_th_res_ \in Seq(Conn) /\ slices_th_num_ \in Nat
      BY <1>3, <2>1 DEF Accept, IInv, TypeOK, MainTypes
    <2>3. /\ Len(slices_th_res_) \in Nat /\ Len(slices_th_res_') = Len(slices_th_res_) + 1
          /\ slices_th_res_'[Len(slices_th_res_) + 1] = c
          /\ \A i \in 1 .. Len(slices_th_res_) : /\ slices_th_res_'[i] = slices_th_res_[i]
                                                /\ slices_th_res_[i] \in Conn
      BY <2>2
    <2>4. \A i \in 1 .. Len(slices_th_res_) : slices_th_res_[i] # c
      BY <2>1 DEF VectorInv
    <2>5. \A i, j \in 1 .. Len(slices_th_res_') :
            slices_th_res_'[i] = slices_th_res_'[j] => i = j
      BY <2>3, <2>4 DEF VectorInv
    <2>6. \A i \in 1 .. Len(slices_th_res_') : pc'[slices_th_res_'[i]] \notin {"none", "backlog"}
      BY <2>1, <2>3 DEF VectorInv, IInv, TypeOK, RecvTypes
    <2>7. slices_th_num_' < Len(slices_th_res_')
      BY <2>2 DEF VectorInv
    <2> QED
      BY <2>2, <2>3, <2>5, <2>6, <2>7 DEF VectorInv
  <1>4. CASE AcceptEnds
    BY <1>4 DEF VectorInv, AcceptEnds
  <1>5. CASE MainReturns
    BY <1>5 DEF VectorInv, MainReturns
  <1>6. CASE CountAndNotify
    BY <1>6 DEF VectorInv, CountAndNotify, IInv, TypeOK, MainTypes, MainAt
  <1>7. CASE Start
    <2>1. PICK c \in Conn : pc[c] = "queued" /\ pc' = [pc EXCEPT ![c] = "wait"]
      BY <1>7, StartMoves
    <2>2. UNCHANGED <<slices_th_res_, slices_th_num_, mpc>>
      BY <1>7 DEF Start
    <2> QED
      BY <2>1, <2>2 DEF VectorInv
  <1>8. ASSUME NEW c \in Conn, EpollFails(c)
        PROVE  VectorInv'
    BY <1>8 DEF VectorInv, EpollFails, mainVars
  <1>9. ASSUME NEW c \in Conn, FirstRound(c)
        PROVE  VectorInv'
    <2>1. /\ pc[c] = "wait" /\ \E l \in {"shrink", "alloc"} : pc' = [pc EXCEPT ![c] = l]
          /\ UNCHANGED <<slices_th_res_, slices_th_num_, mpc>>
      BY <1>9 DEF FirstRound, Wakes, At, mainVars
    <2> QED
      BY <2>1 DEF VectorInv
  <1>10. ASSUME NEW c \in Conn, Shrink(c)
        PROVE  VectorInv'
    BY <1>10 DEF VectorInv, Shrink, mainVars
  <1>11. ASSUME NEW c \in Conn, Alloc(c)
        PROVE  VectorInv'
    BY <1>11 DEF VectorInv, Alloc, mainVars
  <1>12. ASSUME NEW c \in Conn, Size(c)
        PROVE  VectorInv'
    BY <1>12 DEF VectorInv, Size, mainVars
  <1>13. ASSUME NEW c \in Conn, LaterRound(c)
        PROVE  VectorInv'
    BY <1>13 DEF VectorInv, LaterRound, mainVars
  <1>14. ASSUME NEW c \in Conn, ReadData(c)
        PROVE  VectorInv'
    BY <1>14 DEF VectorInv, ReadData, AfterRead, mainVars
  <1>15. ASSUME NEW c \in Conn, ReadNothing(c)
        PROVE  VectorInv'
    <2>1. /\ pc[c] = "read" /\ \E l \in {"parse", "account"} : pc' = [pc EXCEPT ![c] = l]
          /\ UNCHANGED <<slices_th_res_, slices_th_num_, mpc>>
      BY <1>15 DEF ReadNothing, At, AfterRead, mainVars
    <2> QED
      BY <2>1 DEF VectorInv
  <1>16. ASSUME NEW c \in Conn, ReadError(c)
        PROVE  VectorInv'
    <2>1. /\ pc[c] = "read" /\ \E l \in {"failed"} : pc' = [pc EXCEPT ![c] = l]
          /\ UNCHANGED <<slices_th_res_, slices_th_num_, mpc>>
      BY <1>16 DEF ReadError, At, mainVars
    <2> QED
      BY <2>1 DEF VectorInv
  <1>17. ASSUME NEW c \in Conn, ParseHeader(c)
        PROVE  VectorInv'
    BY <1>17 DEF VectorInv, ParseHeader, mainVars
  <1>18. ASSUME NEW c \in Conn, SetSlicesNum(c)
        PROVE  VectorInv'
    BY <1>18 DEF VectorInv, SetSlicesNum, mainVars
  <1>19. ASSUME NEW c \in Conn, SetSplitLen(c)
        PROVE  VectorInv'
    BY <1>19 DEF VectorInv, SetSplitLen, mainVars
  <1>20. ASSUME NEW c \in Conn, SetReadsMax(c)
        PROVE  VectorInv'
    BY <1>20 DEF VectorInv, SetReadsMax, mainVars
  <1>21. ASSUME NEW c \in Conn, MapFile(c)
        PROVE  VectorInv'
    BY <1>21 DEF VectorInv, MapFile, mainVars
  <1>22. ASSUME NEW c \in Conn, Unmarshal(c)
        PROVE  VectorInv'
    BY <1>22 DEF VectorInv, Unmarshal, mainVars
  <1>23. ASSUME NEW c \in Conn, Insert(c)
        PROVE  VectorInv'
    BY <1>23 DEF VectorInv, Insert, mainVars
  <1>24. ASSUME NEW c \in Conn, Account(c)
        PROVE  VectorInv'
    BY <1>24 DEF VectorInv, Account, AfterAccount, mainVars
  <1>25. ASSUME NEW c \in Conn, Send(c) \/ Close(c) \/ Reset(c) \/ MapRace(c) \/
        UseAfterFree(c)
        PROVE  UNCHANGED <<slices_th_res_, slices_th_num_, mpc, pc>>
    BY <1>25 DEF Send, Close, Reset, MapRace, UseAfterFree, mainVars
  <1>26. CASE SenderDies \/ VectorRace \/ Test \/ Test2 \/ Block \/ SpuriousWakeup \/
        ConnectToSender \/ Collect \/ Validate \/ SigPipe \/ FreeBuffers \/ UnmapFile \/
        UNCHANGED vars
    <2>1. UNCHANGED <<slices_th_res_, slices_th_num_, mpc, pc>>
      BY <1>26 DEF SenderDies, VectorRace, Test, Test2, Block, SpuriousWakeup, ConnectToSender,
            Collect, Validate, SigPipe, FreeBuffers, UnmapFile, vars, mainVars
    <2> QED
      BY <2>1 DEF VectorInv
  <1>27. ASSUME UNCHANGED <<slices_th_res_, slices_th_num_, mpc, pc>>
        PROVE  VectorInv'
    BY <1>27 DEF VectorInv
  <1> QED
    BY <1>1, <1>2, <1>3, <1>4, <1>5, <1>6, <1>7, <1>8, <1>9, <1>10, <1>11, <1>12, <1>13, <1>14,
          <1>15, <1>16, <1>17, <1>18, <1>19, <1>20, <1>21, <1>22, <1>23, <1>24, <1>25, <1>26,
          <1>27 DEF Next, Transmit, Recv, Run, Supervise, Disturb

(* SupInv is kept. *)
LEMMA NextSup == IInv /\ VectorInv /\ SupInv /\ [Next]_vars => SupInv'
  <1> SUFFICES ASSUME IInv, VectorInv, SupInv, [Next]_vars
               PROVE  SupInv'
    OBVIOUS
  <1>1. ASSUME NEW c \in Conn, Connect(c)
        PROVE  SupInv'
    <2>1. /\ pc[c] = "none" /\ pc' = [pc EXCEPT ![c] = "backlog"]
          /\ UNCHANGED <<slices_th_res_, slices_th_num_, sup, some, fn, freed, torn, start_>>
      BY <1>1 DEF Connect, IInv, QueueInv, supVars, fileVars
    <2> QED
      BY <2>1 DEF SupInv, Returned
  <1>2. CASE SenderDies
    BY <1>2 DEF SupInv, SenderDies, mainVars, fileVars, supVars
  <1>3. CASE Accept
    <2>1. PICK c \in Conn : /\ c = Head(backlog) /\ pc[c] = "backlog"
                           /\ pc' = [pc EXCEPT ![c] = "queued"]
      BY <1>3, AcceptMoves
    <2>2. /\ slices_th_res_' = Append(slices_th_res_, c) /\ slices_th_res_ \in Seq(Conn)
          /\ UNCHANGED <<slices_th_num_, sup, some, fn, freed, torn, start_>>
          /\ fn \in Nat
      BY <1>3, <2>1 DEF Accept, IInv, TypeOK, MainTypes, SupTypes, supVars, netVars, fileVars
    <2>3. /\ Len(slices_th_res_) \in Nat /\ Len(slices_th_res_') = Len(slices_th_res_) + 1
          /\ \A i \in 1 .. Len(slices_th_res_) : /\ slices_th_res_'[i] = slices_th_res_[i]
                                                /\ slices_th_res_[i] \in Conn
      BY <2>2
    <2>4. sup \in Waited
            => fn <= Len(slices_th_res_) /\ fn <= Len(slices_th_res_')
      BY <2>2, <2>3 DEF SupInv
    <2>5. sup \in Collected
            => \A i \in 1 .. fn : pc'[slices_th_res_'[i]] \in Returned
      <3> SUFFICES ASSUME sup \in Collected, NEW i \in 1 .. fn
                   PROVE  pc'[slices_th_res_'[i]] \in Returned
        OBVIOUS
      <3>1. i \in 1 .. Len(slices_th_res_) /\ pc[slices_th_res_[i]] \in Returned
        <4>1. sup \in Waited
          BY DEF Waited, Collected
        <4> QED
          BY <2>2, <2>3, <4>1 DEF SupInv
      <3> QED
        BY <2>1, <2>3, <3>1 DEF Returned
    <2> QED
      BY <2>2, <2>4, <2>5 DEF SupInv
  <1>4. CASE CountAndNotify
    BY <1>4, ConnFinite DEF SupInv, Waited, Collected, CountAndNotify, IInv, TypeOK,
          MainTypes, netVars, fileVars
  <1>5. CASE Start
    <2>1. PICK c \in Conn : pc[c] = "queued" /\ pc' = [pc EXCEPT ![c] = "wait"]
      BY <1>5, StartMoves
    <2>2. UNCHANGED <<slices_th_res_, slices_th_num_, sup, some, fn, freed, torn, start_>>
      BY <1>5 DEF Start, fileVars, supVars, netVars
    <2> QED
      BY <2>1, <2>2 DEF SupInv, Returned
  <1>6. ASSUME NEW c \in Conn, EpollFails(c)
        PROVE  SupInv'
    BY <1>6 DEF SupInv, EpollFails, Returned, mainVars, fileVars, supVars
  <1>7. ASSUME NEW c \in Conn, FirstRound(c)
        PROVE  SupInv'
    BY <1>7 DEF SupInv, FirstRound, Returned, Wakes, At, mainVars, fileVars, supVars
  <1>8. ASSUME NEW c \in Conn, Shrink(c)
        PROVE  SupInv'
    BY <1>8 DEF SupInv, Shrink, Returned, At, netVars, mainVars, supVars
  <1>9. ASSUME NEW c \in Conn, Alloc(c)
        PROVE  SupInv'
    BY <1>9 DEF SupInv, Alloc, Returned, At, netVars, mainVars, fileVars, supVars
  <1>10. ASSUME NEW c \in Conn, Size(c)
        PROVE  SupInv'
    BY <1>10 DEF SupInv, Size, Returned, At, netVars, mainVars, fileVars, supVars
  <1>11. ASSUME NEW c \in Conn, LaterRound(c)
        PROVE  SupInv'
    BY <1>11 DEF SupInv, LaterRound, Returned, Wakes, At, mainVars, fileVars, supVars
  <1>12. ASSUME NEW c \in Conn, ReadData(c)
        PROVE  SupInv'
    BY <1>12 DEF SupInv, ReadData, Returned, At, AfterRead, mainVars, fileVars, supVars
  <1>13. ASSUME NEW c \in Conn, ReadNothing(c)
        PROVE  SupInv'
    BY <1>13 DEF SupInv, ReadNothing, Returned, At, AfterRead, netVars, mainVars, fileVars,
          supVars
  <1>14. ASSUME NEW c \in Conn, ReadError(c)
        PROVE  SupInv'
    BY <1>14 DEF SupInv, ReadError, Returned, netVars, mainVars, fileVars, supVars
  <1>15. ASSUME NEW c \in Conn, ParseHeader(c)
        PROVE  SupInv'
    BY <1>15 DEF SupInv, ParseHeader, Returned, At, netVars, mainVars, fileVars, supVars
  <1>16. ASSUME NEW c \in Conn, SetSlicesNum(c)
        PROVE  SupInv'
    BY <1>16 DEF SupInv, SetSlicesNum, Returned, At, netVars, mainVars, supVars
  <1>17. ASSUME NEW c \in Conn, SetSplitLen(c)
        PROVE  SupInv'
    BY <1>17 DEF SupInv, SetSplitLen, Returned, At, netVars, mainVars, supVars
  <1>18. ASSUME NEW c \in Conn, SetReadsMax(c)
        PROVE  SupInv'
    BY <1>18 DEF SupInv, SetReadsMax, Returned, At, netVars, mainVars, supVars
  <1>19. ASSUME NEW c \in Conn, MapFile(c)
        PROVE  SupInv'
    BY <1>19 DEF SupInv, MapFile, Returned, mainVars, supVars
  <1>20. ASSUME NEW c \in Conn, Unmarshal(c)
        PROVE  SupInv'
    BY <1>20 DEF SupInv, Unmarshal, Returned, At, netVars, mainVars, fileVars, supVars
  <1>21. ASSUME NEW c \in Conn, Insert(c)
        PROVE  SupInv'
    BY <1>21 DEF SupInv, Insert, Returned, At, netVars, mainVars, supVars
  <1>22. ASSUME NEW c \in Conn, Account(c)
        PROVE  SupInv'
    BY <1>22 DEF SupInv, Account, Returned, At, mainVars, fileVars, supVars
  <1>23. CASE Test
    BY <1>23, ConnFinite DEF SupInv, Waited, Collected, Test, IInv, TypeOK, MainTypes,
          SupTypes, FileTypes, SupAt, mainVars, fileVars
  <1>24. CASE Test2
    BY <1>24 DEF SupInv, Waited, Collected, Test2, IInv, TypeOK, MainTypes, SupTypes, FileTypes,
          SupAt, mainVars, fileVars
  <1>25. CASE Block
    BY <1>25 DEF SupInv, Waited, Collected, Block, SupAt, mainVars, fileVars
  <1>26. CASE SpuriousWakeup
    BY <1>26 DEF SupInv, Waited, Collected, SpuriousWakeup, SupAt, mainVars, fileVars
  <1>27. CASE ConnectToSender
    BY <1>27, ConnFinite DEF SupInv, Waited, Collected, ConnectToSender, IInv, TypeOK,
          MainTypes, VectorInv, SupAt, netVars, mainVars, fileVars
  <1>28. CASE Collect
    BY <1>28 DEF SupInv, Waited, Collected, Collect, SupAt, mainVars, fileVars
  <1>29. CASE Validate
    BY <1>29 DEF SupInv, Waited, Collected, Validate, SupAt, mainVars, fileVars
  <1>30. CASE FreeBuffers \/ UnmapFile
    BY <1>30 DEF SupInv, Waited, Collected, FreeBuffers, UnmapFile, SupAt, mainVars, fileVars
  <1>31. ASSUME NEW c \in Conn, Send(c) \/ Close(c) \/ Reset(c) \/ MapRace(c) \/
        UseAfterFree(c)
        PROVE  UNCHANGED <<slices_th_res_, slices_th_num_, sup, some, fn, freed, torn, start_, pc>>
    BY <1>31 DEF Send, Close, Reset, MapRace, UseAfterFree, netVars, mainVars, fileVars, supVars
  <1>32. CASE MainWait \/ VectorRace \/ AcceptEnds \/ MainReturns \/ SigPipe \/ UNCHANGED
        vars
    <2>1. UNCHANGED <<slices_th_res_, slices_th_num_, sup, some, fn, freed, torn, start_, pc>>
      BY <1>32 DEF MainWait, VectorRace, AcceptEnds, MainReturns, SigPipe, vars, netVars,
            mainVars, fileVars, supVars
    <2> QED
      BY <2>1 DEF SupInv
  <1>33. ASSUME UNCHANGED <<slices_th_res_, slices_th_num_, sup, some, fn, freed, torn, start_,
                             pc>>
        PROVE  SupInv'
    BY <1>33 DEF SupInv
  <1> QED
    BY <1>1, <1>2, <1>3, <1>4, <1>5, <1>6, <1>7, <1>8, <1>9, <1>10, <1>11, <1>12, <1>13, <1>14,
          <1>15, <1>16, <1>17, <1>18, <1>19, <1>20, <1>21, <1>22, <1>23, <1>24, <1>25, <1>26,
          <1>27, <1>28, <1>29, <1>30, <1>31, <1>32, <1>33 DEF Next, Transmit, Recv, Run,
          Supervise, Disturb

(* BufInv is kept. *)
LEMMA NextBuf == IInv /\ VectorInv /\ SupInv /\ BufInv /\ [Next]_vars => BufInv'
  <1> SUFFICES ASSUME IInv, VectorInv, SupInv, BufInv, [Next]_vars
               PROVE  BufInv'
    OBVIOUS
  <1>1. CASE CountAndNotify
    BY <1>1 DEF BufInv, CountAndNotify, fileVars
  <1>2. ASSUME NEW c \in Conn, FirstRound(c)
        PROVE  BufInv'
    BY <1>2 DEF BufInv, FirstRound, fileVars, supVars
  <1>3. ASSUME NEW c \in Conn, Alloc(c)
        PROVE  BufInv'
    BY <1>3 DEF BufInv, Alloc, SupInv, At, fileVars, supVars
  <1>4. ASSUME NEW c \in Conn, Size(c)
        PROVE  BufInv'
    BY <1>4 DEF BufInv, Size, SupInv, At, fileVars, supVars
  <1>5. ASSUME NEW c \in Conn, LaterRound(c)
        PROVE  BufInv'
    BY <1>5 DEF BufInv, LaterRound, SupInv, Wakes, At, Missing, fileVars, supVars
  <1>6. ASSUME NEW c \in Conn, ReadData(c)
        PROVE  BufInv'
    BY <1>6 DEF BufInv, ReadData, fileVars, supVars
  <1>7. ASSUME NEW c \in Conn, MapFile(c)
        PROVE  BufInv'
    BY <1>7 DEF BufInv, MapFile, supVars
  <1>8. ASSUME NEW c \in Conn, Unmarshal(c)
        PROVE  BufInv'
    <2>1. /\ pc[c] = "parse" /\ ~HeaderUnknown /\ UNCHANGED <<start_, early, torn, sup>>
          /\ r'[c].buf = start_ /\ \A d \in Conn \ {c} : r'[d] = r[d]
      BY <1>8 DEF Unmarshal, At, IInv, TypeOK, RecvTypes, fileVars, supVars
    <2>2. start_ = "null" => early # {}
      <3>1. c # Header
        BY <2>1 DEF HeaderUnknown, IInv, HeaderInv
      <3> QED
        BY <2>1, <3>1, ConnFacts DEF IInv, EarlyInv
    <2>3. start_ = "unmapped" => torn /\ sup = "ended"
      BY <2>1, NotCollected DEF SupInv, Collected, Returned
    <2> QED
      BY <2>1, <2>2, <2>3 DEF BufInv
  <1>9. ASSUME NEW c \in Conn, Insert(c)
        PROVE  BufInv'
    BY <1>9 DEF BufInv, Insert, IInv, TypeOK, RecvTypes, SupInv, At, fileVars, supVars
  <1>10. ASSUME NEW c \in Conn, Account(c)
        PROVE  BufInv'
    <2>1. UNCHANGED <<start_, early, torn, sup>> /\ \A d \in Conn : r'[d].buf = r[d].buf
      BY <1>10 DEF Account, IInv, TypeOK, RecvTypes, fileVars, supVars
    <2> QED
      BY <2>1 DEF BufInv
  <1>11. CASE Test
    BY <1>11 DEF BufInv, Test, SupAt, fileVars
  <1>12. CASE Test2
    BY <1>12 DEF BufInv, Test2, SupAt, fileVars
  <1>13. CASE Block
    BY <1>13 DEF BufInv, Block, SupAt, fileVars
  <1>14. CASE SpuriousWakeup
    BY <1>14 DEF BufInv, SpuriousWakeup, SupAt, fileVars
  <1>15. CASE ConnectToSender
    BY <1>15 DEF BufInv, ConnectToSender, SupAt, fileVars
  <1>16. CASE Collect
    BY <1>16 DEF BufInv, Collect, SupAt, fileVars
  <1>17. CASE Validate
    BY <1>17 DEF BufInv, Validate, SupAt, fileVars
  <1>18. CASE FreeBuffers \/ UnmapFile
    BY <1>18 DEF BufInv, FreeBuffers, UnmapFile, SupAt, fileVars
  <1>19. ASSUME NEW c \in Conn, Connect(c) \/ Send(c) \/ Close(c) \/ Reset(c) \/
        EpollFails(c) \/ Shrink(c) \/ ReadNothing(c) \/ ReadError(c) \/ ParseHeader(c) \/
        SetSlicesNum(c) \/ SetSplitLen(c) \/ SetReadsMax(c) \/ MapRace(c) \/ UseAfterFree(c)
        PROVE  UNCHANGED <<start_, r, early, torn, sup>>
    BY <1>19 DEF Connect, Send, Close, Reset, EpollFails, Shrink, ReadNothing, ReadError,
          ParseHeader, SetSlicesNum, SetSplitLen, SetReadsMax, MapRace, UseAfterFree, fileVars,
          supVars
  <1>20. CASE SenderDies \/ MainWait \/ Accept \/ VectorRace \/ AcceptEnds \/ MainReturns \/
        Start \/ SigPipe \/ UNCHANGED vars
    <2>1. UNCHANGED <<start_, r, early, torn, sup>>
      BY <1>20 DEF SenderDies, MainWait, Accept, VectorRace, AcceptEnds, MainReturns, Start,
            SigPipe, vars, fileVars, supVars
    <2> QED
      BY <2>1 DEF BufInv
  <1>21. ASSUME UNCHANGED <<start_, r, early, torn, sup>>
        PROVE  BufInv'
    BY <1>21 DEF BufInv
  <1> QED
    BY <1>1, <1>2, <1>3, <1>4, <1>5, <1>6, <1>7, <1>8, <1>9, <1>10, <1>11, <1>12, <1>13, <1>14,
          <1>15, <1>16, <1>17, <1>18, <1>19, <1>20, <1>21 DEF Next, Transmit, Recv, Run,
          Supervise, Disturb

(* FifoInv is kept. *)
LEMMA NextFifo == IInv /\ FifoInv /\ [Next]_vars => FifoInv'
  <1> SUFFICES ASSUME IInv, FifoInv, [Next]_vars
               PROVE  FifoInv'
    OBVIOUS
  <1>1. ASSUME NEW c \in Conn, Connect(c)
        PROVE  FifoInv'
    <2>1. /\ pc[c] = "none" /\ peer[c] = "none"
          /\ c # Header => peer[Header] = "closed"
          /\ peer' = [peer EXCEPT ![c] = "open"] /\ pc' = [pc EXCEPT ![c] = "backlog"]
          /\ backlog' = Append(backlog, c) /\ UNCHANGED <<tasks_, slices_th_res_>>
          /\ backlog \in Seq(Conn)
      BY <1>1 DEF Connect, IInv, QueueInv, TypeOK, MainTypes
    <2>2. /\ Len(backlog) \in Nat /\ Len(backlog') = Len(backlog) + 1 /\ backlog' # <<>>
          /\ backlog'[Len(backlog) + 1] = c
          /\ \A i \in 1 .. Len(backlog) : backlog'[i] = backlog[i] /\ backlog[i] \in Conn
          /\ backlog = <<>> <=> Len(backlog) = 0
      BY <2>1
    <2>3. CASE c = Header
      <3>1. backlog = <<>>
        <4> SUFFICES ASSUME Len(backlog) # 0
                     PROVE  FALSE
          OBVIOUS
        <4>1. backlog[1] \in Conn /\ pc[backlog[1]] = "backlog"
          BY <2>2 DEF IInv, QueueInv
        <4>2. backlog[1] \in Slice /\ peer[backlog[1]] # "none"
          BY <2>1, <2>3, ConnFacts DEF IInv, QueueInv
        <4> QED
          BY <2>1, <2>3, <4>2 DEF FifoInv
      <3>2. backlog'[1] = Header
        BY <2>2, <2>3, <3>1
      <3>3. \A d \in Slice : peer'[d] = "none"
        BY <2>1, <2>3, ConnFacts DEF FifoInv
      <3>4. pc'[Header] = "backlog"
        BY <2>1, <2>3 DEF IInv, TypeOK, RecvTypes
      <3> QED
        BY <2>1, <2>2, <2>3, <3>2, <3>3, <3>4 DEF FifoInv
    <2>4. CASE c # Header
      <3>1. peer'[Header] = "closed" /\ pc'[Header] = pc[Header] /\ pc[Header] # "none"
        BY <2>1, <2>4 DEF FifoInv
      <3>2. backlog # <<>> => backlog'[1] = backlog[1]
        BY <2>2
      <3> QED
        BY <2>1, <2>2, <3>1, <3>2 DEF FifoInv
    <2> QED
      BY <2>3, <2>4
  <1>2. ASSUME NEW c \in Conn, Close(c)
        PROVE  FifoInv'
    BY <1>2 DEF FifoInv, Close, mainVars
  <1>3. CASE SenderDies
    BY <1>3, ConnFacts DEF FifoInv, SenderDies, mainVars
  <1>4. ASSUME NEW c \in Conn, Reset(c)
        PROVE  FifoInv'
    BY <1>4 DEF FifoInv, Reset, mainVars
  <1>5. CASE Accept
    <2>1. PICK c \in Conn : /\ c = backlog[1] /\ c = Head(backlog) /\ pc[c] = "backlog"
                           /\ pc' = [pc EXCEPT ![c] = "queued"]
      BY <1>5, AcceptMoves
    <2>2. /\ tasks_' = Append(tasks_, c) /\ slices_th_res_' = Append(slices_th_res_, c)
          /\ tasks_ \in Seq(Conn) /\ slices_th_res_ \in Seq(Conn) /\ UNCHANGED peer
      BY <1>5, <2>1 DEF Accept, netVars, IInv, TypeOK, MainTypes
    <2>3. /\ tasks_' # <<>> /\ tasks_'[1] = IF tasks_ = <<>> THEN c ELSE tasks_[1]
          /\ slices_th_res_' # <<>>
          /\ slices_th_res_'[1] = IF slices_th_res_ = <<>> THEN c ELSE slices_th_res_[1]
      BY <2>2
    <2>4. CASE c = Header
      <3>1. pc'[Header] = "queued"
        BY <2>1, <2>4 DEF IInv, TypeOK, RecvTypes
      <3> QED
        BY <2>1, <2>2, <2>3, <2>4, <3>1 DEF FifoInv
    <2>5. CASE c # Header
      <3>1. peer[c] # "none"
        BY <2>1 DEF IInv, QueueInv
      <3>2. pc'[Header] = pc[Header] /\ pc[Header] \notin {"none", "backlog"}
        BY <2>1, <2>5, <3>1, ConnFacts DEF FifoInv
      <3> QED
        BY <2>2, <2>3, <3>2 DEF FifoInv
    <2> QED
      BY <2>4, <2>5
  <1>6. CASE Start
    BY <1>6, ConnFacts DEF FifoInv, Start, IInv, TypeOK, RecvTypes, QueueInv, netVars, mainVars
  <1>7. ASSUME NEW c \in Conn, EpollFails(c)
        PROVE  FifoInv'
    BY <1>7 DEF FifoInv, EpollFails, At, netVars, mainVars
  <1>8. ASSUME NEW c \in Conn, FirstRound(c)
        PROVE  FifoInv'
    BY <1>8 DEF FifoInv, FirstRound, Wakes, At, mainVars
  <1>9. ASSUME NEW c \in Conn, Shrink(c)
        PROVE  FifoInv'
    BY <1>9 DEF FifoInv, Shrink, At, netVars, mainVars
  <1>10. ASSUME NEW c \in Conn, Alloc(c)
        PROVE  FifoInv'
    BY <1>10 DEF FifoInv, Alloc, At, netVars, mainVars
  <1>11. ASSUME NEW c \in Conn, Size(c)
        PROVE  FifoInv'
    BY <1>11 DEF FifoInv, Size, At, netVars, mainVars
  <1>12. ASSUME NEW c \in Conn, LaterRound(c)
        PROVE  FifoInv'
    BY <1>12 DEF FifoInv, LaterRound, Wakes, At, mainVars
  <1>13. ASSUME NEW c \in Conn, ReadData(c)
        PROVE  FifoInv'
    BY <1>13 DEF FifoInv, ReadData, At, AfterRead, mainVars
  <1>14. ASSUME NEW c \in Conn, ReadNothing(c)
        PROVE  FifoInv'
    BY <1>14 DEF FifoInv, ReadNothing, At, AfterRead, netVars, mainVars
  <1>15. ASSUME NEW c \in Conn, ReadError(c)
        PROVE  FifoInv'
    BY <1>15 DEF FifoInv, ReadError, At, netVars, mainVars
  <1>16. ASSUME NEW c \in Conn, ParseHeader(c)
        PROVE  FifoInv'
    BY <1>16 DEF FifoInv, ParseHeader, At, netVars, mainVars
  <1>17. ASSUME NEW c \in Conn, SetSlicesNum(c)
        PROVE  FifoInv'
    BY <1>17 DEF FifoInv, SetSlicesNum, At, netVars, mainVars
  <1>18. ASSUME NEW c \in Conn, SetSplitLen(c)
        PROVE  FifoInv'
    BY <1>18 DEF FifoInv, SetSplitLen, At, netVars, mainVars
  <1>19. ASSUME NEW c \in Conn, SetReadsMax(c)
        PROVE  FifoInv'
    BY <1>19 DEF FifoInv, SetReadsMax, At, netVars, mainVars
  <1>20. ASSUME NEW c \in Conn, MapFile(c)
        PROVE  FifoInv'
    BY <1>20 DEF FifoInv, MapFile, IInv, QueueInv, At, CloseSocket, mainVars
  <1>21. ASSUME NEW c \in Conn, Unmarshal(c)
        PROVE  FifoInv'
    BY <1>21 DEF FifoInv, Unmarshal, At, netVars, mainVars
  <1>22. ASSUME NEW c \in Conn, Insert(c)
        PROVE  FifoInv'
    BY <1>22 DEF FifoInv, Insert, At, netVars, mainVars
  <1>23. ASSUME NEW c \in Conn, Account(c)
        PROVE  FifoInv'
    <2>1. /\ pc[c] = "account" /\ UNCHANGED <<backlog, tasks_, slices_th_res_>>
          /\ \E l \in {"wait", "done", "failed"} : pc' = [pc EXCEPT ![c] = l]
          /\ UNCHANGED peer \/ peer' = [peer EXCEPT ![c] = "closed"]
      BY <1>23 DEF Account, At, AfterAccount, CloseSocket, mainVars
    <2>2. c # Header /\ peer[c] # "none"
      BY <2>1 DEF IInv, RoundInv, QueueInv
    <2>3. pc'[Header] = pc[Header] /\ peer'[Header] = peer[Header]
          /\ \A d \in Slice : peer'[d] # "none" => peer[d] # "none"
      BY <2>1, <2>2, ConnFacts DEF IInv, TypeOK, NetTypes
    <2> QED
      BY <2>1, <2>3 DEF FifoInv
  <1>24. ASSUME NEW c \in Conn, Send(c) \/ MapRace(c) \/ UseAfterFree(c)
        PROVE  UNCHANGED <<peer, pc, backlog, tasks_, slices_th_res_>>
    BY <1>24 DEF Send, MapRace, UseAfterFree, netVars, mainVars
  <1>25. CASE MainWait \/ VectorRace \/ AcceptEnds \/ MainReturns \/ CountAndNotify \/ Test
        \/ Test2 \/ Block \/ SpuriousWakeup \/ ConnectToSender \/ Collect \/ Validate \/
        SigPipe \/ FreeBuffers \/ UnmapFile \/ UNCHANGED vars
    <2>1. UNCHANGED <<peer, pc, backlog, tasks_, slices_th_res_>>
      BY <1>25 DEF MainWait, VectorRace, AcceptEnds, MainReturns, CountAndNotify, Test, Test2,
            Block, SpuriousWakeup, ConnectToSender, Collect, Validate, SigPipe,
            FreeBuffers, UnmapFile, vars, netVars, mainVars
    <2> QED
      BY <2>1 DEF FifoInv
  <1>26. ASSUME UNCHANGED <<peer, pc, backlog, tasks_, slices_th_res_>>
        PROVE  FifoInv'
    BY <1>26 DEF FifoInv
  <1> QED
    BY <1>1, <1>2, <1>3, <1>4, <1>5, <1>6, <1>7, <1>8, <1>9, <1>10, <1>11, <1>12, <1>13, <1>14,
          <1>15, <1>16, <1>17, <1>18, <1>19, <1>20, <1>21, <1>22, <1>23, <1>24, <1>25, <1>26 DEF
          Next, Transmit, Recv, Run, Supervise, Disturb

(* The pool never runs more than its Jobs + 1 threads. *)
LEMMA NextBusy == IInv /\ BusyInv /\ [Next]_vars => BusyInv'
  <1> SUFFICES ASSUME IInv, BusyInv, [Next]_vars
               PROVE  BusyInv'
    OBVIOUS
  <1>1. ASSUME NEW c \in Conn, Connect(c)
        PROVE  BusyInv'
    <2>1. \A d \in Conn : pc[d] \in Idle => pc'[d] \in Idle
      BY <1>1 DEF Connect, Idle
    <2>2. sup \in Gone => sup' \in Gone
      BY <1>1 DEF Connect, supVars
    <2> QED
      BY <2>1, <2>2, BusyShrinks
  <1>2. CASE Accept
    <2>1. \A d \in Conn : pc[d] \in Idle => pc'[d] \in Idle
      BY <1>2 DEF Accept, Idle
    <2>2. sup \in Gone => sup' \in Gone
      BY <1>2 DEF Accept, supVars
    <2> QED
      BY <2>1, <2>2, BusyShrinks
  <1>3. CASE CountAndNotify
    <2>1. \A d \in Conn : pc[d] \in Idle => pc'[d] \in Idle
      BY <1>3 DEF CountAndNotify
    <2>2. sup \in Gone => sup' \in Gone
      BY <1>3 DEF CountAndNotify, Gone
    <2> QED
      BY <2>1, <2>2, BusyShrinks
  <1>4. CASE Start
    <2> DEFINE A == {c \in Conn : pc[c] \notin Idle}
    <2>1. PICK c \in Conn : pc[c] = "queued" /\ pc' = [pc EXCEPT ![c] = "wait"]
      BY <1>4, StartMoves
    <2>2. A' = A \cup {c}
      BY <2>1 DEF Idle, Returned, IInv, TypeOK, RecvTypes
    <2>3. IsFiniteSet(A) /\ Cardinality(A) \in Nat
      BY ActiveFinite
    <2> HIDE DEF A
    <2>4. Cardinality(A') <= Cardinality(A) + 1 /\ Cardinality(A') \in Nat
      <3>1. Cardinality(A \cup {c}) = IF c \in A THEN Cardinality(A) ELSE Cardinality(A) + 1
        BY <2>3, FS_AddElement
      <3> QED
        BY <2>2, <2>3, <3>1
    <2>5. Busy < Jobs + 1 /\ sup' = sup
      BY <1>4 DEF Start, supVars
    <2>6. Busy = Cardinality(A) + (IF sup \in Gone THEN 0 ELSE 1)
      BY DEF Busy, A
    <2>7. Busy' = Cardinality(A') + (IF sup \in Gone THEN 0 ELSE 1)
      BY <2>5 DEF Busy, A
    <2> QED
      BY <2>3, <2>4, <2>5, <2>6, <2>7, ServerAssumption DEF BusyInv
  <1>5. ASSUME NEW c \in Conn, EpollFails(c)
        PROVE  BusyInv'
    <2>1. \A d \in Conn : pc[d] \in Idle => pc'[d] \in Idle
      BY <1>5 DEF EpollFails, Idle, Returned
    <2>2. sup \in Gone => sup' \in Gone
      BY <1>5 DEF EpollFails, supVars
    <2> QED
      BY <2>1, <2>2, BusyShrinks
  <1>6. ASSUME NEW c \in Conn, FirstRound(c)
        PROVE  BusyInv'
    <2>1. \A d \in Conn : pc[d] \in Idle => pc'[d] \in Idle
      BY <1>6 DEF FirstRound, Wakes, At, Idle, Returned
    <2>2. sup \in Gone => sup' \in Gone
      BY <1>6 DEF FirstRound, supVars
    <2> QED
      BY <2>1, <2>2, BusyShrinks
  <1>7. ASSUME NEW c \in Conn, Shrink(c)
        PROVE  BusyInv'
    <2>1. \A d \in Conn : pc[d] \in Idle => pc'[d] \in Idle
      BY <1>7 DEF Shrink, At, Idle, Returned
    <2>2. sup \in Gone => sup' \in Gone
      BY <1>7 DEF Shrink, supVars
    <2> QED
      BY <2>1, <2>2, BusyShrinks
  <1>8. ASSUME NEW c \in Conn, Alloc(c)
        PROVE  BusyInv'
    <2>1. \A d \in Conn : pc[d] \in Idle => pc'[d] \in Idle
      BY <1>8 DEF Alloc, At, Idle, Returned
    <2>2. sup \in Gone => sup' \in Gone
      BY <1>8 DEF Alloc, supVars
    <2> QED
      BY <2>1, <2>2, BusyShrinks
  <1>9. ASSUME NEW c \in Conn, Size(c)
        PROVE  BusyInv'
    <2>1. \A d \in Conn : pc[d] \in Idle => pc'[d] \in Idle
      BY <1>9 DEF Size, At, Idle, Returned
    <2>2. sup \in Gone => sup' \in Gone
      BY <1>9 DEF Size, supVars
    <2> QED
      BY <2>1, <2>2, BusyShrinks
  <1>10. ASSUME NEW c \in Conn, LaterRound(c)
        PROVE  BusyInv'
    <2>1. \A d \in Conn : pc[d] \in Idle => pc'[d] \in Idle
      BY <1>10 DEF LaterRound, Wakes, At, Idle, Returned
    <2>2. sup \in Gone => sup' \in Gone
      BY <1>10 DEF LaterRound, supVars
    <2> QED
      BY <2>1, <2>2, BusyShrinks
  <1>11. ASSUME NEW c \in Conn, ReadData(c)
        PROVE  BusyInv'
    <2>1. \A d \in Conn : pc[d] \in Idle => pc'[d] \in Idle
      BY <1>11 DEF ReadData, At, AfterRead, Idle, Returned
    <2>2. sup \in Gone => sup' \in Gone
      BY <1>11 DEF ReadData, supVars
    <2> QED
      BY <2>1, <2>2, BusyShrinks
  <1>12. ASSUME NEW c \in Conn, ReadNothing(c)
        PROVE  BusyInv'
    <2>1. \A d \in Conn : pc[d] \in Idle => pc'[d] \in Idle
      BY <1>12 DEF ReadNothing, At, AfterRead, Idle, Returned
    <2>2. sup \in Gone => sup' \in Gone
      BY <1>12 DEF ReadNothing, supVars
    <2> QED
      BY <2>1, <2>2, BusyShrinks
  <1>13. ASSUME NEW c \in Conn, ReadError(c)
        PROVE  BusyInv'
    <2>1. \A d \in Conn : pc[d] \in Idle => pc'[d] \in Idle
      BY <1>13 DEF ReadError, Idle, Returned
    <2>2. sup \in Gone => sup' \in Gone
      BY <1>13 DEF ReadError, supVars
    <2> QED
      BY <2>1, <2>2, BusyShrinks
  <1>14. ASSUME NEW c \in Conn, ParseHeader(c)
        PROVE  BusyInv'
    <2>1. \A d \in Conn : pc[d] \in Idle => pc'[d] \in Idle
      BY <1>14 DEF ParseHeader, At, Idle, Returned
    <2>2. sup \in Gone => sup' \in Gone
      BY <1>14 DEF ParseHeader, supVars
    <2> QED
      BY <2>1, <2>2, BusyShrinks
  <1>15. ASSUME NEW c \in Conn, SetSlicesNum(c)
        PROVE  BusyInv'
    <2>1. \A d \in Conn : pc[d] \in Idle => pc'[d] \in Idle
      BY <1>15 DEF SetSlicesNum, At, Idle, Returned
    <2>2. sup \in Gone => sup' \in Gone
      BY <1>15 DEF SetSlicesNum, supVars
    <2> QED
      BY <2>1, <2>2, BusyShrinks
  <1>16. ASSUME NEW c \in Conn, SetSplitLen(c)
        PROVE  BusyInv'
    <2>1. \A d \in Conn : pc[d] \in Idle => pc'[d] \in Idle
      BY <1>16 DEF SetSplitLen, At, Idle, Returned
    <2>2. sup \in Gone => sup' \in Gone
      BY <1>16 DEF SetSplitLen, supVars
    <2> QED
      BY <2>1, <2>2, BusyShrinks
  <1>17. ASSUME NEW c \in Conn, SetReadsMax(c)
        PROVE  BusyInv'
    <2>1. \A d \in Conn : pc[d] \in Idle => pc'[d] \in Idle
      BY <1>17 DEF SetReadsMax, At, Idle, Returned
    <2>2. sup \in Gone => sup' \in Gone
      BY <1>17 DEF SetReadsMax, supVars
    <2> QED
      BY <2>1, <2>2, BusyShrinks
  <1>18. ASSUME NEW c \in Conn, MapFile(c)
        PROVE  BusyInv'
    <2>1. \A d \in Conn : pc[d] \in Idle => pc'[d] \in Idle
      BY <1>18 DEF MapFile, Idle, Returned
    <2>2. sup \in Gone => sup' \in Gone
      BY <1>18 DEF MapFile, supVars
    <2> QED
      BY <2>1, <2>2, BusyShrinks
  <1>19. ASSUME NEW c \in Conn, Unmarshal(c)
        PROVE  BusyInv'
    <2>1. \A d \in Conn : pc[d] \in Idle => pc'[d] \in Idle
      BY <1>19 DEF Unmarshal, At, Idle, Returned
    <2>2. sup \in Gone => sup' \in Gone
      BY <1>19 DEF Unmarshal, supVars
    <2> QED
      BY <2>1, <2>2, BusyShrinks
  <1>20. ASSUME NEW c \in Conn, Insert(c)
        PROVE  BusyInv'
    <2>1. \A d \in Conn : pc[d] \in Idle => pc'[d] \in Idle
      BY <1>20 DEF Insert, At, Idle, Returned
    <2>2. sup \in Gone => sup' \in Gone
      BY <1>20 DEF Insert, supVars
    <2> QED
      BY <2>1, <2>2, BusyShrinks
  <1>21. ASSUME NEW c \in Conn, Account(c)
        PROVE  BusyInv'
    <2>1. \A d \in Conn : pc[d] \in Idle => pc'[d] \in Idle
      BY <1>21 DEF Account, At, Idle, Returned
    <2>2. sup \in Gone => sup' \in Gone
      BY <1>21 DEF Account, supVars
    <2> QED
      BY <2>1, <2>2, BusyShrinks
  <1>22. CASE Test
    <2>1. \A d \in Conn : pc[d] \in Idle => pc'[d] \in Idle
      BY <1>22 DEF Test
    <2>2. sup \in Gone => sup' \in Gone
      BY <1>22 DEF Test, SupAt, Gone
    <2> QED
      BY <2>1, <2>2, BusyShrinks
  <1>23. CASE Test2
    <2>1. \A d \in Conn : pc[d] \in Idle => pc'[d] \in Idle
      BY <1>23 DEF Test2
    <2>2. sup \in Gone => sup' \in Gone
      BY <1>23 DEF Test2, SupAt, Gone
    <2> QED
      BY <2>1, <2>2, BusyShrinks
  <1>24. CASE Block
    <2>1. \A d \in Conn : pc[d] \in Idle => pc'[d] \in Idle
      BY <1>24 DEF Block
    <2>2. sup \in Gone => sup' \in Gone
      BY <1>24 DEF Block, SupAt, Gone
    <2> QED
      BY <2>1, <2>2, BusyShrinks
  <1>25. CASE SpuriousWakeup
    <2>1. \A d \in Conn : pc[d] \in Idle => pc'[d] \in Idle
      BY <1>25 DEF SpuriousWakeup
    <2>2. sup \in Gone => sup' \in Gone
      BY <1>25 DEF SpuriousWakeup, SupAt, Gone
    <2> QED
      BY <2>1, <2>2, BusyShrinks
  <1>26. CASE ConnectToSender
    <2>1. \A d \in Conn : pc[d] \in Idle => pc'[d] \in Idle
      BY <1>26 DEF ConnectToSender
    <2>2. sup \in Gone => sup' \in Gone
      BY <1>26 DEF ConnectToSender, SupAt, Gone
    <2> QED
      BY <2>1, <2>2, BusyShrinks
  <1>27. CASE Collect
    <2>1. \A d \in Conn : pc[d] \in Idle => pc'[d] \in Idle
      BY <1>27 DEF Collect
    <2>2. sup \in Gone => sup' \in Gone
      BY <1>27 DEF Collect, SupAt, Gone
    <2> QED
      BY <2>1, <2>2, BusyShrinks
  <1>28. CASE Validate
    <2>1. \A d \in Conn : pc[d] \in Idle => pc'[d] \in Idle
      BY <1>28 DEF Validate
    <2>2. sup \in Gone => sup' \in Gone
      BY <1>28 DEF Validate, SupAt, Gone
    <2> QED
      BY <2>1, <2>2, BusyShrinks
  <1>29. CASE FreeBuffers \/ UnmapFile
    <2>1. \A d \in Conn : pc[d] \in Idle => pc'[d] \in Idle
      BY <1>29 DEF FreeBuffers, UnmapFile
    <2>2. sup \in Gone => sup' \in Gone
      BY <1>29 DEF FreeBuffers, UnmapFile, SupAt, Gone
    <2> QED
      BY <2>1, <2>2, BusyShrinks
  <1>30. ASSUME NEW c \in Conn, Send(c) \/ Close(c) \/ Reset(c) \/ MapRace(c) \/
        UseAfterFree(c)
        PROVE  UNCHANGED <<pc, sup>>
    BY <1>30 DEF Send, Close, Reset, MapRace, UseAfterFree, supVars
  <1>31. CASE SenderDies \/ MainWait \/ VectorRace \/ AcceptEnds \/ MainReturns \/ SigPipe
        \/ UNCHANGED vars
    <2>1. UNCHANGED <<pc, sup>>
      BY <1>31 DEF SenderDies, MainWait, VectorRace, AcceptEnds, MainReturns, SigPipe, vars,
            supVars
    <2> QED
      BY <2>1 DEF BusyInv, Busy
  <1>32. ASSUME UNCHANGED <<pc, sup>>
        PROVE  BusyInv'
    BY <1>32 DEF BusyInv, Busy
  <1> QED
    BY <1>1, <1>2, <1>3, <1>4, <1>5, <1>6, <1>7, <1>8, <1>9, <1>10, <1>11, <1>12, <1>13, <1>14,
          <1>15, <1>16, <1>17, <1>18, <1>19, <1>20, <1>21, <1>22, <1>23, <1>24, <1>25, <1>26,
          <1>27, <1>28, <1>29, <1>30, <1>31, <1>32 DEF Next, Transmit, Recv, Run, Supervise,
          Disturb

(* SingleInv is kept: a slice starts only after the header's Recv is over. *)
LEMMA NextSingle ==
  /\ IInv /\ ByteInv /\ LargeInv /\ WakeInv /\ SupInv /\ BusyInv /\ FifoInv /\ SingleInv
  /\ [Next]_vars
  => SingleInv'
  <1> SUFFICES ASSUME IInv, ByteInv, LargeInv, WakeInv, SupInv, BusyInv, FifoInv, SingleInv,
                        [Next]_vars
               PROVE  SingleInv'
    OBVIOUS
  <1>1. ASSUME NEW c \in Conn, Connect(c)
        PROVE  SingleInv'
    BY <1>1 DEF SingleInv, Connect, Idle, Returned, fileVars, supVars
  <1>2. ASSUME NEW c \in Conn, Close(c)
        PROVE  SingleInv'
    BY <1>2 DEF SingleInv, Close, fileVars, supVars
  <1>3. CASE SenderDies
    <2>1. Faults \/ \E c \in Conn : pc[c] = "failed"
      BY <1>3 DEF SenderDies
    <2>2. ~Faults => \A c \in Conn : peer'[c] # "reset" /\ pc'[c] # "gaveup"
      BY <1>3 DEF SenderDies, SingleInv
    <2>3. ~(Jobs = 1 /\ ~Faults /\ sup # "exited") /\ sup' = sup
      BY <1>3, <2>1 DEF SingleInv, SenderDies, supVars
    <2> QED
      BY <2>2, <2>3 DEF SingleInv
  <1>4. ASSUME NEW c \in Conn, Reset(c)
        PROVE  SingleInv'
    BY <1>4 DEF SingleInv, Reset, supVars
  <1>5. CASE Accept
    <2>1. PICK c \in Conn : pc[c] = "backlog" /\ pc' = [pc EXCEPT ![c] = "queued"]
      BY <1>5, AcceptMoves
    <2>2. UNCHANGED <<sender, peer, early, start_, sup>>
      BY <1>5 DEF Accept, netVars, fileVars, supVars
    <2> QED
      BY <2>1, <2>2 DEF SingleInv, Idle, Returned
  <1>6. CASE Start
    <2>1. PICK c \in Conn : /\ c = tasks_[1] /\ pc[c] = "queued"
                           /\ pc' = [pc EXCEPT ![c] = "wait"]
      BY <1>6, StartMoves
    <2>2. UNCHANGED <<sender, peer, early, start_, sup>> /\ tasks_ # <<>>
      BY <1>6 DEF Start, netVars, fileVars, supVars
    <2>3. ASSUME Jobs = 1, ~Faults, sup # "exited", c \in Slice
          PROVE  start_ # "null"
      <3>1. peer[c] # "none" /\ peer[Header] = "closed"
        BY <2>1, <2>3 DEF IInv, QueueInv, FifoInv
      <3>2. pc[Header] \notin {"none", "backlog", "queued"}
        BY <2>1, <2>2, <2>3, ConnFacts DEF FifoInv
      <3>3. pc[Header] \in Returned
        <4>1. CASE sup \in Gone
          <5>1. sup \in {"threw", "ended"}
            BY <2>3, <4>1 DEF Gone, SupInv, SingleInv
          <5>2. fn \in Nat /\ 1 \in 1 .. fn
            BY <5>1 DEF SupInv, Waited, Collected, IInv, TypeOK, SupTypes
          <5> QED
            BY <3>2, <5>1, <5>2 DEF SupInv, Collected, FifoInv
        <4>2. CASE sup \notin Gone
          <5> SUFFICES ASSUME pc[Header] \notin Returned
                       PROVE  FALSE
            OBVIOUS
          <5> DEFINE A == {d \in Conn : pc[d] \notin Idle}
          <5>1. Header \in A
            BY <3>2, ConnFacts DEF Idle
          <5>2. IsFiniteSet(A) /\ Cardinality(A) \in Nat
            BY ActiveFinite
          <5>3. Cardinality(A) + 1 < 2
            BY <1>6, <2>3, <4>2 DEF Start, Busy
          <5> HIDE DEF A
          <5>4. Cardinality(A) # 0
            BY <5>1, <5>2, FS_EmptySet
          <5> QED
            BY <5>2, <5>3, <5>4
        <4> QED
          BY <4>1, <4>2
      <3>4. pc[Header] = "done"
        BY <2>3, <3>3, ConnFacts DEF Returned, SingleInv
      <3> QED
        BY <3>4 DEF LargeInv
    <2> QED
      BY <2>1, <2>2, <2>3 DEF SingleInv
  <1>7. ASSUME NEW c \in Conn, EpollFails(c)
        PROVE  SingleInv'
    BY <1>7 DEF SingleInv, EpollFails, supVars
  <1>8. ASSUME NEW c \in Conn, FirstRound(c)
        PROVE  SingleInv'
    BY <1>8, ConnFacts DEF SingleInv, FirstRound, Idle, Wakes, At, fileVars, supVars
  <1>9. ASSUME NEW c \in Conn, Shrink(c)
        PROVE  SingleInv'
    BY <1>9 DEF SingleInv, Shrink, Idle, At, netVars, supVars
  <1>10. ASSUME NEW c \in Conn, Alloc(c)
        PROVE  SingleInv'
    BY <1>10 DEF SingleInv, Alloc, Idle, At, netVars, fileVars, supVars
  <1>11. ASSUME NEW c \in Conn, Size(c)
        PROVE  SingleInv'
    BY <1>11 DEF SingleInv, Size, Idle, At, netVars, fileVars, supVars
  <1>12. ASSUME NEW c \in Conn, LaterRound(c)
        PROVE  SingleInv'
    BY <1>12 DEF SingleInv, LaterRound, Idle, Wakes, At, fileVars, supVars
  <1>13. ASSUME NEW c \in Conn, ReadData(c)
        PROVE  SingleInv'
    BY <1>13 DEF SingleInv, ReadData, Idle, At, AfterRead, fileVars, supVars
  <1>14. ASSUME NEW c \in Conn, ReadNothing(c)
        PROVE  SingleInv'
    BY <1>14 DEF SingleInv, ReadNothing, Idle, At, AfterRead, netVars, fileVars, supVars
  <1>15. ASSUME NEW c \in Conn, ReadError(c)
        PROVE  SingleInv'
    BY <1>15 DEF SingleInv, ReadError, supVars
  <1>16. ASSUME NEW c \in Conn, ParseHeader(c)
        PROVE  SingleInv'
    <2>1. /\ pc[c] = "parse" /\ HeaderUnknown /\ UNCHANGED <<sender, peer, early, start_, sup>>
          /\ pc' = [pc EXCEPT ![c] = IF c = Header /\ r[c].got > 0 THEN "num" ELSE "failed"]
      BY <1>16 DEF ParseHeader, At, netVars, fileVars, supVars
    <2>2. ASSUME Jobs = 1, ~Faults, sup # "exited"
          PROVE  c = Header /\ r[c].got > 0
      <3>1. c = Header
        BY <2>1, <2>2, ConnFacts DEF SingleInv, HeaderUnknown, Idle
      <3>2. r[c].got # 0 /\ r[c].got \in Nat
        BY <2>1, <2>2 DEF WakeInv, SingleInv, IInv, TypeOK, RecvTypes, RecvLocals
      <3> QED
        BY <3>1, <3>2
    <2>3. ~Faults => \A d \in Conn : peer'[d] # "reset" /\ pc'[d] # "gaveup"
      BY <2>1 DEF SingleInv
    <2>4. ASSUME Jobs = 1, ~Faults, sup # "exited"
          PROVE  /\ \A d \in Conn : pc'[d] # "failed"
                 /\ \A d \in Slice : pc'[d] \in Idle \ Returned \/ start_' # "null"
      BY <2>1, <2>2, <2>4, ConnFacts DEF SingleInv
    <2> QED
      BY <2>1, <2>3, <2>4 DEF SingleInv
  <1>17. ASSUME NEW c \in Conn, SetSlicesNum(c)
        PROVE  SingleInv'
    BY <1>17 DEF SingleInv, SetSlicesNum, Idle, At, netVars, supVars
  <1>18. ASSUME NEW c \in Conn, SetSplitLen(c)
        PROVE  SingleInv'
    BY <1>18 DEF SingleInv, SetSplitLen, Idle, At, netVars, supVars
  <1>19. ASSUME NEW c \in Conn, SetReadsMax(c)
        PROVE  SingleInv'
    BY <1>19 DEF SingleInv, SetReadsMax, Idle, At, netVars, supVars
  <1>20. ASSUME NEW c \in Conn, MapFile(c)
        PROVE  SingleInv'
    BY <1>20 DEF SingleInv, MapFile, CloseSocket, supVars
  <1>21. ASSUME NEW c \in Conn, Unmarshal(c)
        PROVE  SingleInv'
    BY <1>21 DEF SingleInv, Unmarshal, Idle, At, netVars, fileVars, supVars
  <1>22. ASSUME NEW c \in Conn, Insert(c)
        PROVE  SingleInv'
    BY <1>22 DEF SingleInv, Insert, Idle, At, netVars, supVars
  <1>23. ASSUME NEW c \in Conn, Account(c)
        PROVE  SingleInv'
    BY <1>23 DEF SingleInv, Account, IInv, TypeOK, NetTypes, Idle, At, AfterAccount,
          CloseSocket, fileVars, supVars
  <1>24. CASE UnmapFile
    BY <1>24 DEF SingleInv, UnmapFile, SupAt, netVars
  <1>25. ASSUME NEW c \in Conn, Send(c) \/ MapRace(c) \/ UseAfterFree(c)
        PROVE  UNCHANGED <<peer, pc, sender, early, start_>> /\ sup' = sup
    BY <1>25 DEF Send, MapRace, UseAfterFree, netVars, fileVars, supVars
  <1>26. CASE MainWait \/ VectorRace \/ AcceptEnds \/ MainReturns \/ CountAndNotify \/ Test
        \/ Test2 \/ Block \/ SpuriousWakeup \/ ConnectToSender \/ Collect \/ Validate \/
        SigPipe \/ FreeBuffers \/ UNCHANGED vars
    <2>1. UNCHANGED <<peer, pc, sender, early, start_>> /\ (sup = "exited" => sup' = "exited")
      BY <1>26 DEF MainWait, VectorRace, AcceptEnds, MainReturns, CountAndNotify, Test, Test2,
            Block, SpuriousWakeup, ConnectToSender, Collect, Validate, SigPipe, FreeBuffers, SupAt,
            vars, netVars, fileVars, supVars
    <2> QED
      BY <2>1 DEF SingleInv
  <1>27. ASSUME UNCHANGED <<peer, pc, sender, early, start_>>, sup' = sup
        PROVE  SingleInv'
    BY <1>27 DEF SingleInv
  <1> QED
    BY <1>1, <1>2, <1>3, <1>4, <1>5, <1>6, <1>7, <1>8, <1>9, <1>10, <1>11, <1>12, <1>13, <1>14,
          <1>15, <1>16, <1>17, <1>18, <1>19, <1>20, <1>21, <1>22, <1>23, <1>24, <1>25, <1>26,
          <1>27 DEF Next, Transmit, Recv, Run, Supervise, Disturb

-----------------------------------------------------------------------------
(* All parts hold in the beginning. *)
LEMMA InitReport ==
  Init => VectorInv /\ SupInv /\ BufInv /\ BusyInv /\ FifoInv /\ SingleInv /\ UBExplained
  <1> SUFFICES ASSUME Init
               PROVE  VectorInv /\ SupInv /\ BufInv /\ BusyInv /\ FifoInv /\ SingleInv
                        /\ UBExplained
    OBVIOUS
  <1>1. /\ slices_th_res_ = <<>> /\ Len(<<>>) = 0 /\ slices_th_num_ = 0 /\ mpc = "epoll"
        /\ freed = {}
        /\ some = FALSE /\ sup = "test" /\ start_ = "null" /\ tasks_ = <<>>
        /\ sender = "up" /\ early = {} /\ ub = "none"
        /\ \A c \in Conn : pc[c] = "none" /\ peer[c] = "none" /\ r[c].buf = "none"
    BY DEF Init, NewRecv
  <1>2. VectorInv /\ SupInv
    BY <1>1 DEF VectorInv, SupInv, Waited, Collected
  <1>3. BufInv /\ FifoInv /\ UBExplained
    BY <1>1, ConnFacts DEF BufInv, FifoInv, UBExplained
  <1>4. SingleInv
    BY <1>1, ConnFacts DEF SingleInv, Idle, Returned
  <1>5. BusyInv
    <2>1. {c \in Conn : pc[c] \notin Idle} = {}
      BY <1>1 DEF Idle
    <2>2. Cardinality({c \in Conn : pc[c] \notin Idle}) = 0
      BY <2>1, FS_EmptySet
    <2> QED
      BY <2>2, ServerAssumption DEF BusyInv, Busy
  <1> QED
    BY <1>2, <1>3, <1>4, <1>5

(* Two Recvs at once need more than one job or the supervisor's thread. *)
LEMMA TwoRecvs ==
  ASSUME BusyInv, NEW c \in Conn, NEW d \in Conn, c # d, pc[c] \notin Idle, pc[d] \notin Idle
  PROVE  Jobs > 1 \/ sup \in Gone
  <1> SUFFICES ASSUME sup \notin Gone
               PROVE  Jobs > 1
    OBVIOUS
  <1> DEFINE A == {e \in Conn : pc[e] \notin Idle}
  <1>1. IsFiniteSet(A) /\ Cardinality(A) \in Nat
    BY ActiveFinite
  <1>2. {c, d} \in SUBSET A
    OBVIOUS
  <1>3. Cardinality(A) + 1 <= Jobs + 1
    BY DEF BusyInv, Busy
  <1> HIDE DEF A
  <1>4. IsFiniteSet({c}) /\ Cardinality({c}) = 1
    BY FS_Singleton
  <1>5. Cardinality({c} \cup {d}) = 2
    BY <1>4, FS_AddElement
  <1>6. {c} \cup {d} = {c, d}
    OBVIOUS
  <1>7. Cardinality({c, d}) <= Cardinality(A)
    BY <1>1, <1>2, FS_Subset
  <1>8. 2 <= Cardinality(A)
    BY <1>5, <1>6, <1>7
  <1> QED
    BY <1>1, <1>3, <1>8, ServerAssumption

(* The causes of undefined behaviour: each of the steps that set ub. *)
LEMMA NextUB ==
  IInv /\ ByteInv /\ SizeInv /\ LargeInv /\ WakeInv /\ VectorInv /\ SupInv /\ BufInv /\ BusyInv
    /\ UBExplained /\ [Next]_vars => UBExplained'
  <1> SUFFICES ASSUME IInv, ByteInv, SizeInv, LargeInv, WakeInv, VectorInv, SupInv, BufInv,
                      BusyInv, UBExplained, [Next]_vars
               PROVE  UBExplained'
    OBVIOUS
  <1>1. CASE VectorRace
    <2>1. backlog # <<>> /\ sup = "collect" /\ ub' = "vector" /\ torn' = torn
      BY <1>1 DEF VectorRace, supVars
    <2>2. torn
      <3> SUFFICES ASSUME ~torn
                   PROVE  FALSE
        OBVIOUS
      <3>1. backlog[1] \in Conn /\ pc[backlog[1]] = "backlog"
        BY <2>1 DEF IInv, QueueInv, TypeOK, MainTypes
      <3>2. PICK i \in 1 .. fn : slices_th_res_[i] = backlog[1]
        BY <2>1, <3>1, AllAccepted DEF Waited
      <3>3. i \in 1 .. Len(slices_th_res_)
        BY <2>1 DEF SupInv, Waited, IInv, TypeOK, SupTypes
      <3> QED
        BY <3>1, <3>2, <3>3 DEF VectorInv
    <2> QED
      BY <2>1, <2>2 DEF UBExplained
  <1>2. CASE MainReturns
    BY <1>2 DEF MainReturns, UBExplained
  <1>3. ASSUME NEW c \in Conn, ReadData(c)
        PROVE  UBExplained'
    <2>1. /\ early' = early /\ sup' = sup
          /\ ub' = "none" \/ (ub' = "heap" /\ r[c].first /\ r'[c].got > r[c].cap)
      <3> DEFINE room == r[c].left - r[c].got
                 k == IF Avail(c) < room THEN Avail(c) ELSE room
      <3>1. /\ r' = [r EXCEPT ![c].got = @ + k] /\ ub = "none"
            /\ ub' \in {ub} \cup (IF r[c].first /\ r[c].got + k > r[c].cap THEN {"heap"} ELSE {})
        BY <1>3 DEF ReadData, At, Alive
      <3>2. r'[c].got = r[c].got + k
        BY <3>1 DEF IInv, TypeOK, RecvTypes
      <3>3. early' = early /\ sup' = sup
        BY <1>3 DEF ReadData, supVars
      <3> HIDE DEF k, room
      <3> QED
        BY <3>1, <3>2, <3>3
    <2>2. CASE ub' = "heap"
      <3>1. pc[c] = "read" /\ r'[c].got <= r[c].left
        <4>1. PICK k \in Nat : /\ pc[c] = "read" /\ r[c].left - r[c].got \in Nat
                              /\ k <= r[c].left - r[c].got
                              /\ r'[c].got = r[c].got + k
          BY <1>3, ReadMoves
        <4> QED
          BY <4>1 DEF IInv, TypeOK, RecvTypes, RecvLocals
      <3>2. r[c].cap \in Nat /\ r[c].left \in Nat /\ r'[c].got \in Int
        BY <1>3 DEF IInv, TypeOK, RecvTypes, RecvLocals, ReadData, Avail, NetTypes
      <3>3. r[c].left # r[c].cap /\ r[c].first
        BY <2>1, <2>2, <3>1, <3>2
      <3>4. early # {}
        BY <3>1, <3>3, ConnFacts DEF LargeInv, SizeInv
      <3> QED
        BY <2>1, <2>2, <3>4 DEF UBExplained
    <2>3. CASE ub' = "none"
      BY <2>3 DEF UBExplained
    <2> QED
      BY <2>1, <2>2, <2>3
  <1>4. ASSUME NEW c \in Conn, ReadError(c)
        PROVE  UBExplained'
    BY <1>4 DEF ReadError, At, Alive, netVars, UBExplained
  <1>5. ASSUME NEW c \in Conn, Unmarshal(c)
        PROVE  UBExplained'
    BY <1>5 DEF Unmarshal, HeaderUnknown, At, Alive, netVars, UBExplained, WakeInv, IInv,
          HeaderInv
  <1>6. ASSUME NEW c \in Conn, Account(c)
        PROVE  UBExplained'
    <2>1. /\ ub' = "none" \/ (ub' = Dest(c) /\ Dest(c) # "mapped")
          /\ pc[c] = "account" /\ UNCHANGED <<early, torn, sup>>
      BY <1>6 DEF Account, At, Alive, supVars
    <2>2. /\ Dest(c) \in {"none", "null", "mapped", "failed", "unmapped"}
          /\ Dest(c) = "null" => early # {}
          /\ Dest(c) = "failed" => Faults
          /\ Dest(c) = "unmapped" => torn \/ sup = "ended"
      BY DEF Dest, IInv, TypeOK, FileTypes, RecvTypes, RecvLocals, BufInv, SupInv
    <2>3. Dest(c) = "unmapped" => torn
      BY <2>1, <2>2, NotCollected DEF Collected, Returned
    <2> QED
      BY <2>1, <2>2, <2>3 DEF UBExplained
  <1>7. ASSUME NEW c \in Conn, MapRace(c)
        PROVE  UBExplained'
    <2>1. /\ pc[c] = "insert" /\ ub' = "map" /\ UNCHANGED <<sup, torn>>
          /\ \/ \E d \in Conn \ {c} : UsesMap(d)
             \/ sup = "cleanup"
      BY <1>7 DEF MapRace, At, supVars
    <2>2. sup \in Collected => torn
      BY <2>1, NotCollected DEF Returned
    <2>3. Jobs > 1 \/ torn \/ sup = "exited"
      <3>1. CASE sup = "cleanup"
        BY <2>2, <3>1 DEF Collected
      <3>2. CASE sup # "cleanup"
        <4>1. PICK d \in Conn \ {c} : UsesMap(d)
          BY <2>1, <3>2
        <4>2. pc[c] \notin Idle /\ pc[d] \notin Idle
          BY <2>1, <4>1 DEF UsesMap, Wakes, At, Idle, Returned
        <4>3. Jobs > 1 \/ sup \in Gone
          BY <4>1, <4>2, TwoRecvs
        <4> QED
          BY <2>2, <4>3 DEF Gone, Collected
      <3> QED
        BY <3>1, <3>2
    <2> QED
      BY <2>1, <2>3 DEF UBExplained
  <1>8. ASSUME NEW c \in Conn, UseAfterFree(c)
        PROVE  UBExplained'
    <2>1. c \in freed /\ pc[c] \in {"read", "account"} /\ ub' = "freed" /\ torn' = torn
      BY <1>8 DEF UseAfterFree, supVars
    <2>2. torn
      BY <2>1, NotCollected DEF SupInv, Collected, Returned
    <2> QED
      BY <2>1, <2>2 DEF UBExplained
  <1>9. CASE SigPipe
    BY <1>9 DEF SigPipe, netVars, UBExplained
  <1>10. CASE FreeBuffers \/ UnmapFile
    <2>1. FreedTwice => \E c \in Conn : peer[c] = "reset"
      BY ConnFacts DEF FreedTwice, ByteInv, IInv, TypeOK, FileTypes
    <2> QED
      BY <1>10, <2>1 DEF FreeBuffers, UnmapFile, SupAt, Alive, netVars, UBExplained
  <1>11. ASSUME NEW c \in Conn,
                \/ Transmit(c) \/ Reset(c) \/ EpollFails(c) \/ FirstRound(c) \/ Shrink(c)
                \/ Alloc(c) \/ Size(c) \/ LaterRound(c) \/ ReadNothing(c) \/ ParseHeader(c)
                \/ SetSlicesNum(c) \/ SetSplitLen(c) \/ SetReadsMax(c) \/ MapFile(c)
                \/ Insert(c)
         PROVE  ub' = "none"
    BY <1>11 DEF Transmit, Connect, Send, Close, Reset, EpollFails, FirstRound, Shrink, Alloc,
          Size, LaterRound, ReadNothing, ParseHeader, SetSlicesNum, SetSplitLen, SetReadsMax,
          MapFile, Insert, Wakes, At, Alive
  <1>12. CASE \/ SenderDies \/ Run \/ Start \/ SpuriousWakeup \/ Test \/ Test2 \/ Block
              \/ ConnectToSender \/ Collect \/ Validate
    <2>1. ub' = "none"
      BY <1>12 DEF SenderDies, Run, MainWait, Accept, AcceptEnds, CountAndNotify, Start,
            SpuriousWakeup, Test, Test2, Block, ConnectToSender, Collect, Validate, MainAt,
            SupAt, Alive
    <2> QED
      BY <2>1 DEF UBExplained
  <1>13. CASE UNCHANGED vars
    BY <1>13 DEF UBExplained, vars, netVars, supVars
  <1>14. ASSUME ub' = "none"
         PROVE  UBExplained'
    BY <1>14 DEF UBExplained
  <1> QED
    BY <1>1, <1>2, <1>3, <1>4, <1>5, <1>6, <1>7, <1>8, <1>9, <1>10, <1>11, <1>12, <1>13, <1>14
          DEF Next, Recv, Supervise, Disturb
-----------------------------------------------------------------------------
(* Together with IInv and ReadInv these parts are inductive. *)
ReportInv == /\ VectorInv /\ SupInv /\ BufInv /\ BusyInv /\ FifoInv /\ SingleInv
             /\ UBExplained

(* Every step of the receiver and its environment keeps them. *)
LEMMA NextReportInv == IInv /\ ReadInv /\ ReportInv /\ [Next]_vars => ReportInv'
  BY NextVector, NextSup, NextBuf, NextBusy, NextFifo, NextSingle, NextUB DEF ReportInv, ReadInv

(* The three inductive invariants hold of every behaviour. *)
LEMMA AlwaysReportInv == Spec => [](IInv /\ ReadInv /\ ReportInv)
  <1>1. Init => ReadInv /\ ReportInv
    BY InitRead, InitReport DEF ReadInv, ReportInv
  <1> QED
    BY <1>1, InitIInv, NextIInv, NextReadInv, NextReportInv, PTL DEF Spec

(* Whatever ends the receiver by undefined behaviour or by a signal has    *)
(* one of the causes that UBExplained lists: there is no other way to it.  *)
THEOREM CausesKnown == Spec => []UBExplained
  <1>1. ReportInv => UBExplained
    BY DEF ReportInv
  <1> QED
    BY <1>1, AlwaysReportInv, PTL

(* Unless the supervisor's wait was torn, "E" and the result go to the     *)
(* sender only after every Recv has returned, those that are done having   *)
(* read everything that their connection carries.                          *)
THEOREM ReportsLast == Spec => []ReportComplete
  <1>1. IInv /\ ReadInv /\ ReportInv => ReportComplete
    <2> SUFFICES ASSUME IInv, ByteInv, VectorInv, SupInv, ~torn,
                        sup \in {"validate", "cleanup", "unmap", "ended"}, NEW c \in Conn
                 PROVE  pc[c] \in Returned /\ (pc[c] = "done" => taken[c] = Total(c))
      BY DEF ReadInv, ReportInv, ReportComplete
    <2>1. PICK i \in 1 .. fn : slices_th_res_[i] = c
      BY AllAccepted DEF Waited, Collected
    <2>2. pc[c] \in Returned
      BY <2>1 DEF SupInv, Collected
    <2> QED
      BY <2>2 DEF ByteInv
  <1> QED
    BY <1>1, AlwaysReportInv, PTL

(* With one job and no faults no slice looks for the header before the     *)
(* file is mapped, unless the sender has refused the supervisor: the       *)
(* pool's queue, and the thread that Supervise holds until the header's    *)
(* future is ready, keep them in order.                                    *)
THEOREM HeaderFirst == Spec => []SingleJobNeverEarly
  <1>1. ReportInv => SingleJobNeverEarly
    BY DEF ReportInv, SingleInv, SingleJobNeverEarly
  <1> QED
    BY <1>1, AlwaysReportInv, PTL
=============================================================================
