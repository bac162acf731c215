-------------------------- MODULE ServerReadProofs --------------------------
(***************************************************************************)
(* What a Recv reads, for any number of slices, jobs and buffer sizes: a   *)
(* Recv that goes back to epoll_wait() leaves no byte behind unnoticed,    *)
(* and it has counted every byte that it took from its socket.             *)
(***************************************************************************)
EXTENDS ServerProofs

(* The bytes of a connection: what a Recv has taken is what it accounts    *)
(* for, the unit of the slice's header apart.                              *)
ByteInv ==
  /\ \A c \in Conn :
       /\ r[c].first \/ pc[c] = "insert" => r[c].off = 0 /\ taken[c] = r[c].got
       /\ ~r[c].first /\ pc[c] # "insert" => taken[c] = r[c].off + r[c].got + 1
       /\ c \in mmap_ => ~r[c].first /\ pc[c] # "insert"
       /\ pc[c] = "done" => taken[c] = Total(c)
       /\ pc[c] = "failed" /\ ~r[c].first /\ r[c].off < CLen => peer[c] = "reset"
  /\ pc[Header] \in {"num", "split", "max", "map"} => taken[Header] = 1

(* Who may have changed reads_max_bytes_, and what a Recv has seen of it.  *)
SizeInv ==
  /\ reads_max_bytes_ = 0
       => \A c \in Conn : /\ r[c].first
                          /\ pc[c] \in {"none", "backlog", "queued", "wait", "shrink", "gaveup"}
  /\ reads_max_bytes_ = Big => pc[Header] \in {"map", "done"}
  /\ \A c \in Conn : /\ pc[c] = "read" => r[c].left > r[c].got
                     /\ pc[c] = "wait" => r[c].off < CLen
  /\ pc[Header] = "size" => r[Header].cap = Small
  /\ pc[Header] = "read" => r[Header].cap = Small /\ r[Header].left = Small

(* As long as no slice has overtaken the header, slices see the large size. *)
LargeInv ==
  /\ \A c \in Slice : pc[c] = "shrink" => c \in early
  /\ pc[Header] = "done" <=> start_ # "null"
  /\ early = {} /\ pc[Header] \in {"map", "done"} => reads_max_bytes_ = Big
  /\ early = {} => \A c \in Slice :
                     /\ pc[c] = "size" => r[c].cap = Big
                     /\ pc[c] = "read" /\ r[c].first => r[c].cap = Big /\ r[c].left = Big

(* Why a Recv that has been woken up finds something to read: all that     *)
(* SendFileSizeOnly may close without having written is the header's       *)
(* connection.                                                             *)
WakeInv ==
  \A c \in Conn : c # Header \/ ~Faults =>
    /\ sender = "up" /\ peer[c] = "closed" => sent[c] = Total(c)
    /\ pc[c] \in {"shrink", "alloc", "size", "read"} /\ r[c].first /\ r[c].got = 0
         => Avail(c) > 0 \/ sender = "dead" \/ peer[c] = "reset"
    /\ pc[c] = "parse" /\ r[c].got = 0 => sender = "dead"

(* What is left to read has an event, or is what the next read() takes. *)
EdgeInv ==
  /\ \A c \in Conn :
       /\ Avail(c) <= RcvBuf
       /\ pc[c] \in {"none", "backlog", "queued"} /\ Avail(c) > 0 => edge[c]
  /\ RcvBuf <= Big /\ early = {}
       => /\ \A c \in Conn : pc[c] = "wait" /\ Avail(c) > 0 => edge[c]
          /\ \A c \in Slice :
               /\ pc[c] \in {"parse", "insert", "account"} /\ Avail(c) > 0 => edge[c]
               /\ pc[c] = "read" /\ Avail(c) > r[c].left - r[c].got => edge[c]
-----------------------------------------------------------------------------
(* A connection is that of a slice or that of the header. *)
LEMMA ConnFacts == /\ Header \in Conn /\ Header \notin Slice /\ Slice \subseteq Conn
                   /\ \A c \in Conn : c \in Slice \/ c = Header
  BY ServerAssumption DEF Conn

(* accept() takes a connection from the backlog to the pool's queue, and a *)
(* thread takes it from there.                                             *)
LEMMA AcceptMoves ==
  ASSUME IInv, Accept
  PROVE  \E c \in Conn : c = backlog[1] /\ c = Head(backlog)
                         /\ pc[c] = "backlog" /\ pc' = [pc EXCEPT ![c] = "queued"]
  <1>1. backlog \in Seq(Conn) /\ backlog # <<>>
    BY DEF IInv, TypeOK, MainTypes, Accept
  <1>2. pc[backlog[1]] = "backlog"
    BY <1>1 DEF IInv, QueueInv
  <1> QED
    BY <1>1, <1>2, QueueFacts DEF Accept

(* A thread of the pool takes the connection that has been queued longest. *)
LEMMA StartMoves ==
  ASSUME IInv, Start
  PROVE  \E c \in Conn : c = tasks_[1] /\ c = Head(tasks_)
                         /\ pc[c] = "queued" /\ pc' = [pc EXCEPT ![c] = "wait"]
  <1>1. tasks_ \in Seq(Conn) /\ tasks_ # <<>>
    BY DEF IInv, TypeOK, MainTypes, Start
  <1>2. pc[tasks_[1]] = "queued"
    BY <1>1 DEF IInv, QueueInv
  <1> QED
    BY <1>1, <1>2, QueueFacts DEF Start

(* One read() that returns data takes k units from the socket: all there   *)
(* are, or as many as there is room for.                                   *)
LEMMA ReadMoves ==
  ASSUME IInv, NEW c \in Conn, ReadData(c)
  PROVE  \E k \in Nat :
           /\ pc[c] = "read" /\ Avail(c) > 0 /\ r[c].left - r[c].got \in Nat
           /\ \/ k = Avail(c) /\ k < r[c].left - r[c].got
              \/ k = r[c].left - r[c].got /\ k <= Avail(c)
           /\ taken'[c] = taken[c] + k /\ \A d \in Conn \ {c} : taken'[d] = taken[d]
           /\ r'[c].got = r[c].got + k /\ r'[c].off = r[c].off /\ r'[c].left = r[c].left
           /\ r'[c].first = r[c].first /\ r'[c].cap = r[c].cap
           /\ \A d \in Conn \ {c} : r'[d] = r[d]
           /\ pc'[c] = IF k < r[c].left - r[c].got THEN "read"
                       ELSE IF r[c].first THEN "parse" ELSE "account"
           /\ \A d \in Conn \ {c} : pc'[d] = pc[d]
  <1> DEFINE room == r[c].left - r[c].got
             k == IF Avail(c) < room THEN Avail(c) ELSE room
  <1>1. /\ pc[c] = "read" /\ Avail(c) > 0
        /\ taken' = [taken EXCEPT ![c] = @ + k]
        /\ r' = [r EXCEPT ![c].got = @ + k]
        /\ pc' = IF k = room THEN AfterRead(c) ELSE pc
    BY DEF ReadData, At
  <1>2. /\ r[c].left \in Nat /\ r[c].got \in Nat /\ taken[c] \in Nat /\ sent[c] \in Nat
        /\ taken[c] <= sent[c] /\ r[c].got <= r[c].left
    BY <1>1 DEF IInv, TypeOK, RecvTypes, RecvLocals, NetTypes, Counts, RoundInv
  <1>3. k \in Nat /\ room \in Nat /\ Avail(c) \in Nat
    BY <1>2 DEF Avail
  <1>4. (k = Avail(c) /\ k < room) \/ (k = room /\ k <= Avail(c))
    BY <1>3
  <1>5. /\ taken'[c] = taken[c] + k /\ \A d \in Conn \ {c} : taken'[d] = taken[d]
    BY <1>1 DEF IInv, TypeOK, NetTypes
  <1>7. /\ r'[c].got = r[c].got + k /\ r'[c].off = r[c].off /\ r'[c].left = r[c].left
        /\ r'[c].first = r[c].first /\ r'[c].cap = r[c].cap
        /\ \A d \in Conn \ {c} : r'[d] = r[d]
    BY <1>1 DEF IInv, TypeOK, RecvTypes
  <1>6. /\ pc'[c] = IF k < room THEN "read" ELSE IF r[c].first THEN "parse" ELSE "account"
        /\ \A d \in Conn \ {c} : pc'[d] = pc[d]
    BY <1>1, <1>3 DEF IInv, TypeOK, RecvTypes, AfterRead
  <1> HIDE DEF k, room
  <1> QED
    BY <1>1, <1>3, <1>4, <1>5, <1>6, <1>7 DEF room

(* A slice whose payload has all been counted has been sent. *)
LEMMA AllSent ==
  ASSUME IInv, ByteInv, NEW c \in Conn, Account(c), r[c].off + r[c].got = CLen
  PROVE  sent[c] = Total(c)
  <1>1. ~r[c].first /\ pc[c] = "account" /\ c # Header
    BY DEF IInv, RoundInv, Account, At
  <1>2. taken[c] = r[c].off + r[c].got + 1 /\ taken[c] <= sent[c] /\ sent[c] <= 1 + CLen
    BY <1>1 DEF ByteInv, IInv, TypeOK, Counts, WireInv, Total
  <1> QED
    BY <1>1, <1>2, ServerAssumption DEF IInv, TypeOK, NetTypes, Total

(* ByteInv is kept. *)
LEMMA NextByte == IInv /\ ByteInv /\ [Next]_vars => ByteInv'
  <1> SUFFICES ASSUME IInv, ByteInv, [Next]_vars
               PROVE  ByteInv'
    OBVIOUS
  <1>1. ASSUME NEW c \in Conn, Connect(c)
        PROVE  ByteInv'
    <2>1. /\ pc[c] = "none" /\ pc' = [pc EXCEPT ![c] = "backlog"]
          /\ peer' = [peer EXCEPT ![c] = "open"]
      BY <1>1 DEF Connect, IInv, QueueInv
    <2>2. UNCHANGED <<taken, r, mmap_>>
      BY <1>1 DEF Connect, fileVars
    <2> QED
      BY <2>1, <2>2 DEF ByteInv
  <1>2. ASSUME NEW c \in Conn, Close(c)
        PROVE  ByteInv'
    BY <1>2 DEF ByteInv, Close, fileVars
  <1>3. CASE SenderDies
    BY <1>3 DEF ByteInv, SenderDies, fileVars
  <1>4. ASSUME NEW c \in Conn, Reset(c)
        PROVE  ByteInv'
    BY <1>4 DEF ByteInv, Reset, fileVars
  <1>5. CASE Accept
    <2>1. PICK c \in Conn : pc[c] = "backlog" /\ pc' = [pc EXCEPT ![c] = "queued"]
      BY <1>5, AcceptMoves
    <2>2. UNCHANGED <<taken, r, mmap_, peer>>
      BY <1>5 DEF Accept, netVars, fileVars
    <2> QED
      BY <2>1, <2>2 DEF ByteInv
  <1>6. CASE Start
    <2>1. PICK c \in Conn : pc[c] = "queued" /\ pc' = [pc EXCEPT ![c] = "wait"]
      BY <1>6, StartMoves
    <2>2. UNCHANGED <<taken, r, mmap_, peer>>
      BY <1>6 DEF Start, netVars, fileVars
    <2> QED
      BY <2>1, <2>2 DEF ByteInv
  <1>7. ASSUME NEW c \in Conn, EpollFails(c)
        PROVE  ByteInv'
    BY <1>7 DEF ByteInv, EpollFails, At, netVars, fileVars
  <1>8. ASSUME NEW c \in Conn, FirstRound(c)
        PROVE  ByteInv'
    BY <1>8 DEF ByteInv, FirstRound, fileVars
  <1>9. ASSUME NEW c \in Conn, Shrink(c)
        PROVE  ByteInv'
    BY <1>9 DEF ByteInv, Shrink, At, netVars
  <1>10. ASSUME NEW c \in Conn, Alloc(c)
        PROVE  ByteInv'
    BY <1>10 DEF ByteInv, Alloc, At, netVars, fileVars
  <1>11. ASSUME NEW c \in Conn, Size(c)
        PROVE  ByteInv'
    BY <1>11 DEF ByteInv, Size, At, netVars, fileVars
  <1>12. ASSUME NEW c \in Conn, LaterRound(c)
        PROVE  ByteInv'
    BY <1>12 DEF ByteInv, LaterRound, Wakes, At, fileVars
  <1>13. ASSUME NEW c \in Conn, ReadData(c)
        PROVE  ByteInv'
    <2>1. PICK k \in Nat :
           /\ pc[c] = "read" /\ Avail(c) > 0 /\ r[c].left - r[c].got \in Nat
           /\ \/ k = Avail(c) /\ k < r[c].left - r[c].got
              \/ k = r[c].left - r[c].got /\ k <= Avail(c)
           /\ taken'[c] = taken[c] + k /\ \A d \in Conn \ {c} : taken'[d] = taken[d]
           /\ r'[c].got = r[c].got + k /\ r'[c].off = r[c].off /\ r'[c].left = r[c].left
           /\ r'[c].first = r[c].first /\ r'[c].cap = r[c].cap
           /\ \A d \in Conn \ {c} : r'[d] = r[d]
           /\ pc'[c] = IF k < r[c].left - r[c].got THEN "read"
                       ELSE IF r[c].first THEN "parse" ELSE "account"
           /\ \A d \in Conn \ {c} : pc'[d] = pc[d]
      BY <1>13, ReadMoves
    <2>2. /\ r[c].left \in Nat /\ r[c].got \in Nat /\ r[c].off \in Nat
          /\ taken[c] \in Nat /\ sent[c] \in Nat
      BY DEF IInv, TypeOK, RecvTypes, RecvLocals, NetTypes
    <2>4. UNCHANGED <<mmap_, peer>>
      BY <1>13 DEF ReadData, fileVars
    <2>5. ASSUME NEW d \in Conn
          PROVE  /\ r'[d].first \/ pc'[d] = "insert" => r'[d].off = 0 /\ taken'[d] = r'[d].got
                 /\ ~r'[d].first /\ pc'[d] # "insert" => taken'[d] = r'[d].off + r'[d].got + 1
      <3>1. CASE d = c
        BY <2>1, <2>2 DEF ByteInv
      <3>2. CASE d # c
        BY <2>1, <3>2 DEF ByteInv
      <3> QED
        BY <3>1, <3>2
    <2>6. ASSUME NEW d \in Conn
          PROVE  /\ d \in mmap_' => ~r'[d].first /\ pc'[d] # "insert"
                 /\ pc'[d] = "done" => taken'[d] = Total(d)
                 /\ pc'[d] = "failed" /\ ~r'[d].first /\ r'[d].off < CLen => peer'[d] = "reset"
      BY <2>1, <2>4 DEF ByteInv
    <2>7. pc'[Header] \in {"num", "split", "max", "map"} => taken'[Header] = 1
      BY <2>1, ConnFacts DEF ByteInv
    <2> QED
      BY <2>5, <2>6, <2>7 DEF ByteInv
  <1>14. ASSUME NEW c \in Conn, ReadNothing(c)
        PROVE  ByteInv'
    BY <1>14 DEF ByteInv, ReadNothing, At, AfterRead, netVars, fileVars
  <1>15. ASSUME NEW c \in Conn, ReadError(c)
        PROVE  ByteInv'
    BY <1>15 DEF ByteInv, ReadError, At, netVars, fileVars
  <1>16. ASSUME NEW c \in Conn, ParseHeader(c)
        PROVE  ByteInv'
    BY <1>16, ConnFacts DEF ByteInv, ParseHeader, IInv, TypeOK, NetTypes, RecvLocals, Counts,
          RoundInv, HeaderInv, WireInv, Total, At, HeaderUnknown, netVars, fileVars
  <1>17. ASSUME NEW c \in Conn, SetSlicesNum(c)
        PROVE  ByteInv'
    BY <1>17 DEF ByteInv, SetSlicesNum, At, netVars
  <1>18. ASSUME NEW c \in Conn, SetSplitLen(c)
        PROVE  ByteInv'
    BY <1>18 DEF ByteInv, SetSplitLen, At, netVars
  <1>19. ASSUME NEW c \in Conn, SetReadsMax(c)
        PROVE  ByteInv'
    BY <1>19 DEF ByteInv, SetReadsMax, At, netVars
  <1>20. ASSUME NEW c \in Conn, MapFile(c)
        PROVE  ByteInv'
    BY <1>20, ConnFacts DEF ByteInv, MapFile, IInv, HeaderInv, Total, At, CloseSocket
  <1>21. ASSUME NEW c \in Conn, Unmarshal(c)
        PROVE  ByteInv'
    BY <1>21 DEF ByteInv, Unmarshal, IInv, TypeOK, RecvTypes, RoundInv, At, netVars, fileVars
  <1>22. ASSUME NEW c \in Conn, Insert(c)
        PROVE  ByteInv'
    BY <1>22 DEF ByteInv, Insert, IInv, TypeOK, NetTypes, RecvTypes, RoundInv, At, netVars
  <1>23. ASSUME NEW c \in Conn, Account(c)
        PROVE  ByteInv'
    <2> DEFINE off == r[c].off + r[c].got
    <2>0. /\ r \in [Conn -> RecvLocals] /\ DOMAIN pc = Conn /\ DOMAIN peer = Conn
          /\ r[c] \in RecvLocals
      BY DEF IInv, TypeOK, NetTypes, RecvTypes
    <2>1. /\ pc[c] = "account"
          /\ r'[c].off = off /\ r'[c].got = 0 /\ r'[c].first = r[c].first
          /\ \A d \in Conn \ {c} : r'[d] = r[d] /\ pc'[d] = pc[d] /\ peer'[d] = peer[d]
          /\ taken' = taken /\ mmap_' = mmap_
          /\ IF off < CLen THEN pc'[c] = "wait" ELSE pc'[c] \in {"done", "failed"}
      <3>1. /\ pc[c] = "account"
            /\ r' = [r EXCEPT ![c].off = off, ![c].got = 0, ![c].left = 0]
            /\ taken' = taken /\ mmap_' = mmap_
        BY <1>23 DEF Account, At, fileVars
      <3>2. PICK result \in AfterAccount(off) : pc' = [pc EXCEPT ![c] = result]
        BY <1>23 DEF Account
      <3>3. \A d \in Conn \ {c} : peer'[d] = peer[d]
        BY <1>23, <2>0 DEF Account, CloseSocket
      <3>4. /\ r'[c].off = off /\ r'[c].got = 0 /\ r'[c].first = r[c].first
            /\ \A d \in Conn \ {c} : r'[d] = r[d]
        BY <2>0, <3>1 DEF RecvLocals
      <3>5. pc'[c] = result /\ \A d \in Conn \ {c} : pc'[d] = pc[d]
        BY <2>0, <3>2
      <3>6. IF off < CLen THEN result = "wait" ELSE result \in {"done", "failed"}
        BY <3>2 DEF AfterAccount
      <3> QED
        BY <3>1, <3>3, <3>4, <3>5, <3>6
    <2>2. off \in Nat /\ taken[c] \in Nat /\ sent[c] \in Nat /\ CLen \in Nat
      BY <2>0, ServerAssumption DEF IInv, TypeOK, NetTypes, RecvLocals
    <2>3. ~r[c].first /\ c # Header
      BY <2>1 DEF IInv, RoundInv
    <2>4. taken[c] = off + 1 /\ taken[c] <= sent[c] /\ sent[c] <= CLen + 1 /\ Total(c) = CLen + 1
      BY <2>1, <2>2, <2>3 DEF ByteInv, IInv, TypeOK, Counts, WireInv, Total
    <2>5. /\ taken'[c] = r'[c].off + r'[c].got + 1
          /\ pc'[c] = "done" => taken'[c] = Total(c)
          /\ pc'[c] = "failed" => ~(r'[c].off < CLen)
      BY <2>1, <2>2, <2>4
    <2>6. ASSUME NEW d \in Conn
          PROVE  /\ r'[d].first \/ pc'[d] = "insert" => r'[d].off = 0 /\ taken'[d] = r'[d].got
                 /\ ~r'[d].first /\ pc'[d] # "insert" => taken'[d] = r'[d].off + r'[d].got + 1
                 /\ d \in mmap_' => ~r'[d].first /\ pc'[d] # "insert"
                 /\ pc'[d] = "done" => taken'[d] = Total(d)
                 /\ pc'[d] = "failed" /\ ~r'[d].first /\ r'[d].off < CLen => peer'[d] = "reset"
      <3>1. CASE d = c
        BY <2>1, <2>3, <2>5, <3>1
      <3>2. CASE d # c
        BY <2>1, <3>2 DEF ByteInv
      <3> QED
        BY <3>1, <3>2
    <2>7. pc'[Header] \in {"num", "split", "max", "map"} => taken'[Header] = 1
      BY <2>1, <2>3, ConnFacts DEF ByteInv
    <2> QED
      BY <2>6, <2>7 DEF ByteInv
  <1>24. ASSUME NEW c \in Conn, Send(c) \/ MapRace(c) \/ UseAfterFree(c)
        PROVE  UNCHANGED <<taken, r, pc, mmap_, peer>>
    BY <1>24 DEF Send, MapRace, UseAfterFree, netVars, fileVars
  <1>25. CASE MainWait \/ VectorRace \/ AcceptEnds \/ MainReturns \/ CountAndNotify \/ Test
        \/ Test2 \/ Block \/ SpuriousWakeup \/ ConnectToSender \/ Collect \/ Validate \/
        SigPipe \/ FreeBuffers \/ UnmapFile \/ UNCHANGED vars
    <2>1. UNCHANGED <<taken, r, pc, mmap_, peer>>
      BY <1>25 DEF MainWait, VectorRace, AcceptEnds, MainReturns, CountAndNotify, Test, Test2,
            Block, SpuriousWakeup, ConnectToSender, Collect, Validate, SigPipe,
            FreeBuffers, UnmapFile, vars, netVars, fileVars
    <2> QED
      BY <2>1 DEF ByteInv
  <1>26. ASSUME UNCHANGED <<taken, r, pc, mmap_, peer>>
        PROVE  ByteInv'
    BY <1>26 DEF ByteInv
  <1> QED
    BY <1>1, <1>2, <1>3, <1>4, <1>5, <1>6, <1>7, <1>8, <1>9, <1>10, <1>11, <1>12, <1>13, <1>14,
          <1>15, <1>16, <1>17, <1>18, <1>19, <1>20, <1>21, <1>22, <1>23, <1>24, <1>25, <1>26 DEF
          Next, Transmit, Recv, Run, Supervise, Disturb

(* SizeInv is kept. *)
LEMMA NextSize == IInv /\ ByteInv /\ SizeInv /\ [Next]_vars => SizeInv'
  <1> SUFFICES ASSUME IInv, ByteInv, SizeInv, [Next]_vars
               PROVE  SizeInv'
    OBVIOUS
  <1>1. ASSUME NEW c \in Conn, Connect(c)
        PROVE  SizeInv'
    <2>1. pc[c] = "none" /\ pc' = [pc EXCEPT ![c] = "backlog"]
      BY <1>1 DEF Connect, IInv, QueueInv
    <2>2. UNCHANGED <<r, reads_max_bytes_>>
      BY <1>1 DEF Connect, fileVars
    <2> QED
      BY <2>1, <2>2 DEF SizeInv
  <1>2. CASE Accept
    <2>1. PICK c \in Conn : pc[c] = "backlog" /\ pc' = [pc EXCEPT ![c] = "queued"]
      BY <1>2, AcceptMoves
    <2>2. UNCHANGED <<r, reads_max_bytes_>>
      BY <1>2 DEF Accept, fileVars
    <2> QED
      BY <2>1, <2>2 DEF SizeInv
  <1>3. CASE Start
    <2>1. PICK c \in Conn : pc[c] = "queued" /\ pc' = [pc EXCEPT ![c] = "wait"]
      BY <1>3, StartMoves
    <2>2. UNCHANGED <<r, reads_max_bytes_>>
      BY <1>3 DEF Start, fileVars
    <2> QED
      BY <2>1, <2>2, ServerAssumption DEF SizeInv, IInv, ByteInv, RoundInv
  <1>4. ASSUME NEW c \in Conn, EpollFails(c)
        PROVE  SizeInv'
    BY <1>4 DEF SizeInv, EpollFails, At, fileVars
  <1>5. ASSUME NEW c \in Conn, FirstRound(c)
        PROVE  SizeInv'
    <2>1. /\ pc[c] = "wait" /\ UNCHANGED <<r, reads_max_bytes_>>
          /\ pc' = [pc EXCEPT ![c] = IF HeaderUnknown THEN "shrink" ELSE "alloc"]
      BY <1>5 DEF FirstRound, Wakes, At, fileVars
    <2>2. ~HeaderUnknown => pc[Header] \in {"max", "map", "done"} /\ reads_max_bytes_ # 0
      BY ConnFacts DEF HeaderUnknown, IInv, HeaderInv, SizeInv
    <2> QED
      BY <2>1, <2>2 DEF SizeInv
  <1>6. ASSUME NEW c \in Conn, Shrink(c)
        PROVE  SizeInv'
    BY <1>6, ServerAssumption DEF SizeInv, Shrink
  <1>7. ASSUME NEW c \in Conn, Alloc(c)
        PROVE  SizeInv'
    BY <1>7 DEF SizeInv, Alloc, IInv, TypeOK, RecvTypes, FileTypes, RoundInv, HeaderInv, At,
          fileVars
  <1>8. ASSUME NEW c \in Conn, Size(c)
        PROVE  SizeInv'
    BY <1>8, ServerAssumption DEF SizeInv, Size, IInv, TypeOK, RecvTypes, FileTypes, RoundInv,
          At, fileVars
  <1>9. ASSUME NEW c \in Conn, LaterRound(c)
        PROVE  SizeInv'
    BY <1>9, ServerAssumption DEF SizeInv, LaterRound, IInv, TypeOK, RecvTypes, RecvLocals,
          FileTypes, RoundInv, Wakes, At, Missing, fileVars
  <1>10. ASSUME NEW c \in Conn, ReadData(c)
        PROVE  SizeInv'
    <2>1. PICK k \in Nat :
           /\ pc[c] = "read" /\ Avail(c) > 0 /\ r[c].left - r[c].got \in Nat
           /\ \/ k = Avail(c) /\ k < r[c].left - r[c].got
              \/ k = r[c].left - r[c].got /\ k <= Avail(c)
           /\ taken'[c] = taken[c] + k /\ \A d \in Conn \ {c} : taken'[d] = taken[d]
           /\ r'[c].got = r[c].got + k /\ r'[c].off = r[c].off /\ r'[c].left = r[c].left
           /\ r'[c].first = r[c].first /\ r'[c].cap = r[c].cap
           /\ \A d \in Conn \ {c} : r'[d] = r[d]
           /\ pc'[c] = IF k < r[c].left - r[c].got THEN "read"
                       ELSE IF r[c].first THEN "parse" ELSE "account"
           /\ \A d \in Conn \ {c} : pc'[d] = pc[d]
      BY <1>10, ReadMoves
    <2>2. /\ r[c].left \in Nat /\ r[c].got \in Nat /\ r[c].off \in Nat
          /\ taken[c] \in Nat /\ sent[c] \in Nat
      BY DEF IInv, TypeOK, RecvTypes, RecvLocals, NetTypes
    <2>4. UNCHANGED reads_max_bytes_
      BY <1>10 DEF ReadData, fileVars
    <2>5. \A d \in Conn : pc'[d] = "read" => r'[d].left > r'[d].got
      <3>1. pc'[c] = "read" => r'[c].left > r'[c].got
        BY <2>1, <2>2
      <3>2. \A d \in Conn \ {c} : pc[d] = "read" => r[d].left > r[d].got
        BY DEF SizeInv
      <3> QED
        BY <2>1, <3>1, <3>2
    <2>6. reads_max_bytes_ # 0
      BY <2>1 DEF SizeInv
    <2> QED
      BY <2>1, <2>4, <2>5, <2>6, ConnFacts DEF SizeInv
  <1>11. ASSUME NEW c \in Conn, ReadNothing(c)
        PROVE  SizeInv'
    BY <1>11 DEF SizeInv, ReadNothing, At, AfterRead, fileVars
  <1>12. ASSUME NEW c \in Conn, ReadError(c)
        PROVE  SizeInv'
    BY <1>12 DEF SizeInv, ReadError, At, fileVars
  <1>13. ASSUME NEW c \in Conn, ParseHeader(c)
        PROVE  SizeInv'
    BY <1>13 DEF SizeInv, ParseHeader, At, fileVars
  <1>14. ASSUME NEW c \in Conn, SetSlicesNum(c)
        PROVE  SizeInv'
    BY <1>14 DEF SizeInv, SetSlicesNum, At
  <1>15. ASSUME NEW c \in Conn, SetSplitLen(c)
        PROVE  SizeInv'
    BY <1>15 DEF SizeInv, SetSplitLen, At
  <1>16. ASSUME NEW c \in Conn, SetReadsMax(c)
        PROVE  SizeInv'
    BY <1>16, ServerAssumption, ConnFacts DEF SizeInv, SetReadsMax, IInv, TypeOK, RecvTypes,
          HeaderInv, At
  <1>17. ASSUME NEW c \in Conn, MapFile(c)
        PROVE  SizeInv'
    BY <1>17 DEF SizeInv, MapFile, At
  <1>18. ASSUME NEW c \in Conn, Unmarshal(c)
        PROVE  SizeInv'
    BY <1>18, ConnFacts DEF SizeInv, Unmarshal, IInv, TypeOK, RecvTypes, At, fileVars
  <1>19. ASSUME NEW c \in Conn, Insert(c)
        PROVE  SizeInv'
    BY <1>19, ServerAssumption, ConnFacts DEF SizeInv, Insert, IInv, TypeOK, RecvTypes, ByteInv,
          At
  <1>20. ASSUME NEW c \in Conn, Account(c)
        PROVE  SizeInv'
    BY <1>20, ConnFacts DEF SizeInv, Account, IInv, TypeOK, RecvTypes, At, AfterAccount,
          fileVars
  <1>21. ASSUME NEW c \in Conn, Send(c) \/ Close(c) \/ Reset(c) \/ MapRace(c) \/
        UseAfterFree(c)
        PROVE  UNCHANGED <<reads_max_bytes_, r, pc>>
    BY <1>21 DEF Send, Close, Reset, MapRace, UseAfterFree, fileVars
  <1>22. CASE SenderDies \/ MainWait \/ VectorRace \/ AcceptEnds \/ MainReturns \/
        CountAndNotify \/ Test \/ Test2 \/ Block \/ SpuriousWakeup \/ ConnectToSender \/
        Collect \/ Validate \/ SigPipe \/ FreeBuffers \/ UnmapFile \/ UNCHANGED vars
    <2>1. UNCHANGED <<reads_max_bytes_, r, pc>>
      BY <1>22 DEF SenderDies, MainWait, VectorRace, AcceptEnds, MainReturns, CountAndNotify,
            Test, Test2, Block, SpuriousWakeup, ConnectToSender, Collect, Validate, SigPipe,
            FreeBuffers, UnmapFile, vars, fileVars
    <2> QED
      BY <2>1 DEF SizeInv
  <1>23. ASSUME UNCHANGED <<reads_max_bytes_, r, pc>>
        PROVE  SizeInv'
    BY <1>23 DEF SizeInv
  <1> QED
    BY <1>1, <1>2, <1>3, <1>4, <1>5, <1>6, <1>7, <1>8, <1>9, <1>10, <1>11, <1>12, <1>13, <1>14,
          <1>15, <1>16, <1>17, <1>18, <1>19, <1>20, <1>21, <1>22, <1>23 DEF Next, Transmit,
          Recv, Run, Supervise, Disturb

(* LargeInv is kept. *)
LEMMA NextLarge == IInv /\ SizeInv /\ LargeInv /\ [Next]_vars => LargeInv'
  <1> SUFFICES ASSUME IInv, SizeInv, LargeInv, [Next]_vars
               PROVE  LargeInv'
    OBVIOUS
  <1>1. ASSUME NEW c \in Conn, Connect(c)
        PROVE  LargeInv'
    <2>1. pc[c] = "none" /\ pc' = [pc EXCEPT ![c] = "backlog"]
      BY <1>1 DEF Connect, IInv, QueueInv
    <2>2. UNCHANGED <<r, reads_max_bytes_, early, start_>>
      BY <1>1 DEF Connect, fileVars
    <2> QED
      BY <2>1, <2>2 DEF LargeInv
  <1>2. CASE Accept
    <2>1. PICK c \in Conn : pc[c] = "backlog" /\ pc' = [pc EXCEPT ![c] = "queued"]
      BY <1>2, AcceptMoves
    <2>2. UNCHANGED <<r, reads_max_bytes_, early, start_>>
      BY <1>2 DEF Accept, fileVars
    <2> QED
      BY <2>1, <2>2 DEF LargeInv
  <1>3. CASE Start
    <2>1. PICK c \in Conn : pc[c] = "queued" /\ pc' = [pc EXCEPT ![c] = "wait"]
      BY <1>3, StartMoves
    <2>2. UNCHANGED <<r, reads_max_bytes_, early, start_>>
      BY <1>3 DEF Start, fileVars
    <2> QED
      BY <2>1, <2>2 DEF LargeInv
  <1>4. ASSUME NEW c \in Conn, EpollFails(c)
        PROVE  LargeInv'
    BY <1>4 DEF LargeInv, EpollFails, At, fileVars
  <1>5. ASSUME NEW c \in Conn, FirstRound(c)
        PROVE  LargeInv'
    <2>1. /\ pc[c] = "wait" /\ UNCHANGED <<r, reads_max_bytes_, start_>>
          /\ pc' = [pc EXCEPT ![c] = IF HeaderUnknown THEN "shrink" ELSE "alloc"]
          /\ early' = IF c # Header /\ start_ = "null" THEN early \cup {c} ELSE early
      BY <1>5 DEF FirstRound, Wakes, At, fileVars
    <2>2. \A d \in Slice : pc'[d] = "shrink" => d \in early'
      BY <2>1, ConnFacts DEF LargeInv, HeaderUnknown
    <2>3. early \subseteq early'
      BY <2>1
    <2> QED
      BY <2>1, <2>2, <2>3 DEF LargeInv
  <1>6. ASSUME NEW c \in Conn, Shrink(c)
        PROVE  LargeInv'
    BY <1>6, ConnFacts DEF LargeInv, Shrink, At
  <1>7. ASSUME NEW c \in Conn, Alloc(c)
        PROVE  LargeInv'
    BY <1>7 DEF LargeInv, Alloc, IInv, TypeOK, RecvTypes, EarlyInv, At, fileVars
  <1>8. ASSUME NEW c \in Conn, Size(c)
        PROVE  LargeInv'
    BY <1>8 DEF LargeInv, Size, IInv, TypeOK, RecvTypes, EarlyInv, At, fileVars
  <1>9. ASSUME NEW c \in Conn, LaterRound(c)
        PROVE  LargeInv'
    BY <1>9 DEF LargeInv, LaterRound, IInv, RoundInv, fileVars
  <1>10. ASSUME NEW c \in Conn, ReadData(c)
        PROVE  LargeInv'
    <2>1. PICK k \in Nat :
           /\ pc[c] = "read" /\ Avail(c) > 0 /\ r[c].left - r[c].got \in Nat
           /\ \/ k = Avail(c) /\ k < r[c].left - r[c].got
              \/ k = r[c].left - r[c].got /\ k <= Avail(c)
           /\ taken'[c] = taken[c] + k /\ \A d \in Conn \ {c} : taken'[d] = taken[d]
           /\ r'[c].got = r[c].got + k /\ r'[c].off = r[c].off /\ r'[c].left = r[c].left
           /\ r'[c].first = r[c].first /\ r'[c].cap = r[c].cap
           /\ \A d \in Conn \ {c} : r'[d] = r[d]
           /\ pc'[c] = IF k < r[c].left - r[c].got THEN "read"
                       ELSE IF r[c].first THEN "parse" ELSE "account"
           /\ \A d \in Conn \ {c} : pc'[d] = pc[d]
      BY <1>10, ReadMoves
    <2>2. /\ r[c].left \in Nat /\ r[c].got \in Nat /\ r[c].off \in Nat
          /\ taken[c] \in Nat /\ sent[c] \in Nat
      BY DEF IInv, TypeOK, RecvTypes, RecvLocals, NetTypes
    <2>4. UNCHANGED <<reads_max_bytes_, early, start_>>
      BY <1>10 DEF ReadData, fileVars
    <2> QED
      BY <2>1, <2>4, ConnFacts DEF LargeInv
  <1>11. ASSUME NEW c \in Conn, ReadNothing(c)
        PROVE  LargeInv'
    BY <1>11 DEF LargeInv, ReadNothing, At, AfterRead, fileVars
  <1>12. ASSUME NEW c \in Conn, ReadError(c)
        PROVE  LargeInv'
    BY <1>12 DEF LargeInv, ReadError, At, fileVars
  <1>13. ASSUME NEW c \in Conn, ParseHeader(c)
        PROVE  LargeInv'
    BY <1>13 DEF LargeInv, ParseHeader, At, fileVars
  <1>14. ASSUME NEW c \in Conn, SetSlicesNum(c)
        PROVE  LargeInv'
    BY <1>14 DEF LargeInv, SetSlicesNum, At
  <1>15. ASSUME NEW c \in Conn, SetSplitLen(c)
        PROVE  LargeInv'
    BY <1>15 DEF LargeInv, SetSplitLen, At
  <1>16. ASSUME NEW c \in Conn, SetReadsMax(c)
        PROVE  LargeInv'
    BY <1>16 DEF LargeInv, SetReadsMax, At
  <1>17. ASSUME NEW c \in Conn, MapFile(c)
        PROVE  LargeInv'
    BY <1>17, ConnFacts DEF LargeInv, MapFile, IInv, TypeOK, RecvTypes, HeaderInv, At
  <1>18. ASSUME NEW c \in Conn, Unmarshal(c)
        PROVE  LargeInv'
    BY <1>18, ConnFacts DEF LargeInv, Unmarshal, IInv, TypeOK, RecvTypes, At, fileVars
  <1>19. ASSUME NEW c \in Conn, Insert(c)
        PROVE  LargeInv'
    BY <1>19, ConnFacts DEF LargeInv, Insert, IInv, TypeOK, RecvTypes, At
  <1>20. ASSUME NEW c \in Conn, Account(c)
        PROVE  LargeInv'
    BY <1>20, ConnFacts DEF LargeInv, Account, IInv, TypeOK, RecvTypes, RoundInv, At,
          AfterAccount, fileVars
  <1>21. CASE UnmapFile
    BY <1>21 DEF LargeInv, UnmapFile
  <1>22. ASSUME NEW c \in Conn, Send(c) \/ Close(c) \/ Reset(c) \/ MapRace(c) \/
        UseAfterFree(c)
        PROVE  UNCHANGED <<reads_max_bytes_, r, pc, early, start_>>
    BY <1>22 DEF Send, Close, Reset, MapRace, UseAfterFree, fileVars
  <1>23. CASE SenderDies \/ MainWait \/ VectorRace \/ AcceptEnds \/ MainReturns \/
        CountAndNotify \/ Test \/ Test2 \/ Block \/ SpuriousWakeup \/ ConnectToSender \/
        Collect \/ Validate \/ SigPipe \/ FreeBuffers \/ UNCHANGED vars
    <2>1. UNCHANGED <<reads_max_bytes_, r, pc, early, start_>>
      BY <1>23 DEF SenderDies, MainWait, VectorRace, AcceptEnds, MainReturns, CountAndNotify,
            Test, Test2, Block, SpuriousWakeup, ConnectToSender, Collect, Validate, SigPipe,
            FreeBuffers, vars, fileVars
    <2> QED
      BY <2>1 DEF LargeInv
  <1>24. ASSUME UNCHANGED <<reads_max_bytes_, r, pc, early, start_>>
        PROVE  LargeInv'
    BY <1>24 DEF LargeInv
  <1> QED
    BY <1>1, <1>2, <1>3, <1>4, <1>5, <1>6, <1>7, <1>8, <1>9, <1>10, <1>11, <1>12, <1>13, <1>14,
          <1>15, <1>16, <1>17, <1>18, <1>19, <1>20, <1>21, <1>22, <1>23, <1>24 DEF Next,
          Transmit, Recv, Run, Supervise, Disturb

(* WakeInv is kept. *)
LEMMA NextWake == IInv /\ ByteInv /\ SizeInv /\ WakeInv /\ [Next]_vars => WakeInv'
  <1> SUFFICES ASSUME IInv, ByteInv, SizeInv, WakeInv, [Next]_vars
               PROVE  WakeInv'
    OBVIOUS
  <1>1. ASSUME NEW c \in Conn, Connect(c)
        PROVE  WakeInv'
    <2>1. /\ pc[c] = "none" /\ pc' = [pc EXCEPT ![c] = "backlog"]
          /\ peer' = [peer EXCEPT ![c] = "open"]
      BY <1>1 DEF Connect, IInv, QueueInv
    <2>2. UNCHANGED <<sender, sent, r, taken>>
      BY <1>1 DEF Connect
    <2> QED
      BY <2>1, <2>2 DEF WakeInv, Avail
  <1>2. ASSUME NEW c \in Conn, Send(c)
        PROVE  WakeInv'
    BY <1>2 DEF WakeInv, Send, IInv, TypeOK, NetTypes, Avail
  <1>3. ASSUME NEW c \in Conn, Close(c)
        PROVE  WakeInv'
    BY <1>3 DEF WakeInv, Close, Avail
  <1>4. CASE SenderDies
    BY <1>4 DEF WakeInv, SenderDies
  <1>5. ASSUME NEW c \in Conn, Reset(c)
        PROVE  WakeInv'
    BY <1>5 DEF WakeInv, Reset, Avail
  <1>6. CASE Accept
    <2>1. PICK c \in Conn : pc[c] = "backlog" /\ pc' = [pc EXCEPT ![c] = "queued"]
      BY <1>6, AcceptMoves
    <2>2. UNCHANGED <<sender, peer, sent, r, taken>>
      BY <1>6 DEF Accept, netVars
    <2> QED
      BY <2>1, <2>2 DEF WakeInv, Avail
  <1>7. CASE Start
    <2>1. PICK c \in Conn : pc[c] = "queued" /\ pc' = [pc EXCEPT ![c] = "wait"]
      BY <1>7, StartMoves
    <2>2. UNCHANGED <<sender, peer, sent, r, taken>>
      BY <1>7 DEF Start, netVars
    <2> QED
      BY <2>1, <2>2 DEF WakeInv, Avail
  <1>8. ASSUME NEW c \in Conn, EpollFails(c)
        PROVE  WakeInv'
    BY <1>8 DEF WakeInv, EpollFails, Avail, netVars
  <1>9. ASSUME NEW c \in Conn, FirstRound(c)
        PROVE  WakeInv'
    <2>1. /\ pc[c] = "wait" /\ UNCHANGED <<sender, peer, sent, r, taken>> /\ r[c].first
          /\ pc' = [pc EXCEPT ![c] = IF HeaderUnknown THEN "shrink" ELSE "alloc"]
          /\ Avail(c) > 0 \/ peer[c] \in {"closed", "reset"}
      BY <1>9 DEF FirstRound, Wakes, At
    <2>2. taken[c] = 0 /\ sent[c] \in Nat
      BY <2>1 DEF ByteInv, IInv, RoundInv, TypeOK, NetTypes
    <2>3. sender = "up" /\ peer[c] = "closed" /\ (c # Header \/ ~Faults) => Avail(c) > 0
      BY <2>2, ServerAssumption DEF WakeInv, Avail, Total
    <2>4. c # Header \/ ~Faults => Avail(c) > 0 \/ sender = "dead" \/ peer[c] = "reset"
      BY <2>1, <2>3 DEF IInv, TypeOK, NetTypes
    <2> QED
      BY <2>1, <2>4 DEF WakeInv, Avail
  <1>10. ASSUME NEW c \in Conn, Shrink(c)
        PROVE  WakeInv'
    BY <1>10 DEF WakeInv, Shrink, Avail, At, netVars
  <1>11. ASSUME NEW c \in Conn, Alloc(c)
        PROVE  WakeInv'
    BY <1>11 DEF WakeInv, Alloc, Avail, At, netVars
  <1>12. ASSUME NEW c \in Conn, Size(c)
        PROVE  WakeInv'
    BY <1>12 DEF WakeInv, Size, Avail, At, netVars
  <1>13. ASSUME NEW c \in Conn, LaterRound(c)
        PROVE  WakeInv'
    BY <1>13 DEF WakeInv, LaterRound, Avail
  <1>14. ASSUME NEW c \in Conn, ReadData(c)
        PROVE  WakeInv'
    <2>1. PICK k \in Nat :
           /\ pc[c] = "read" /\ Avail(c) > 0 /\ r[c].left - r[c].got \in Nat
           /\ \/ k = Avail(c) /\ k < r[c].left - r[c].got
              \/ k = r[c].left - r[c].got /\ k <= Avail(c)
           /\ taken'[c] = taken[c] + k /\ \A d \in Conn \ {c} : taken'[d] = taken[d]
           /\ r'[c].got = r[c].got + k /\ r'[c].off = r[c].off /\ r'[c].left = r[c].left
           /\ r'[c].first = r[c].first /\ r'[c].cap = r[c].cap
           /\ \A d \in Conn \ {c} : r'[d] = r[d]
           /\ pc'[c] = IF k < r[c].left - r[c].got THEN "read"
                       ELSE IF r[c].first THEN "parse" ELSE "account"
           /\ \A d \in Conn \ {c} : pc'[d] = pc[d]
      BY <1>14, ReadMoves
    <2>2. /\ r[c].left \in Nat /\ r[c].got \in Nat /\ r[c].off \in Nat
          /\ taken[c] \in Nat /\ sent[c] \in Nat
      BY DEF IInv, TypeOK, RecvTypes, RecvLocals, NetTypes
    <2>4. UNCHANGED <<sender, peer, sent>>
      BY <1>14 DEF ReadData
    <2>3. r[c].left > r[c].got
      BY <2>1 DEF SizeInv
    <2>5. k > 0
      BY <2>1, <2>2, <2>3
    <2> QED
      BY <2>1, <2>2, <2>4, <2>5 DEF WakeInv, Avail
  <1>15. ASSUME NEW c \in Conn, ReadNothing(c)
        PROVE  WakeInv'
    <2>1. /\ pc[c] = "read" /\ UNCHANGED <<sender, peer, sent, r, taken>>
          /\ peer[c] # "reset" /\ Avail(c) = 0
          /\ pc' = [pc EXCEPT ![c] = IF r[c].first THEN "parse" ELSE "account"]
      BY <1>15 DEF ReadNothing, At, AfterRead, netVars
    <2>2. (c # Header \/ ~Faults) /\ r[c].first /\ r[c].got = 0 => sender = "dead"
      BY <2>1 DEF WakeInv
    <2> QED
      BY <2>1, <2>2 DEF WakeInv, Avail
  <1>16. ASSUME NEW c \in Conn, ReadError(c)
        PROVE  WakeInv'
    BY <1>16 DEF WakeInv, ReadError, Avail, netVars
  <1>17. ASSUME NEW c \in Conn, ParseHeader(c)
        PROVE  WakeInv'
    BY <1>17 DEF WakeInv, ParseHeader, Avail, netVars
  <1>18. ASSUME NEW c \in Conn, SetSlicesNum(c)
        PROVE  WakeInv'
    BY <1>18 DEF WakeInv, SetSlicesNum, Avail, netVars
  <1>19. ASSUME NEW c \in Conn, SetSplitLen(c)
        PROVE  WakeInv'
    BY <1>19 DEF WakeInv, SetSplitLen, Avail, netVars
  <1>20. ASSUME NEW c \in Conn, SetReadsMax(c)
        PROVE  WakeInv'
    BY <1>20 DEF WakeInv, SetReadsMax, Avail, netVars
  <1>21. ASSUME NEW c \in Conn, MapFile(c)
        PROVE  WakeInv'
    BY <1>21, ConnFacts DEF WakeInv, MapFile, IInv, HeaderInv, WireInv, Total, Avail, At,
          CloseSocket
  <1>22. ASSUME NEW c \in Conn, Unmarshal(c)
        PROVE  WakeInv'
    BY <1>22 DEF WakeInv, Unmarshal, IInv, TypeOK, RecvTypes, Avail, netVars
  <1>23. ASSUME NEW c \in Conn, Insert(c)
        PROVE  WakeInv'
    BY <1>23 DEF WakeInv, Insert, IInv, TypeOK, RecvTypes, Avail, netVars
  <1>24. ASSUME NEW c \in Conn, Account(c)
        PROVE  WakeInv'
    <2> DEFINE off == r[c].off + r[c].got
    <2>1. /\ pc[c] = "account" /\ UNCHANGED <<sender, sent, taken>>
          /\ r' = [r EXCEPT ![c].off = off, ![c].got = 0, ![c].left = 0]
          /\ \E l \in {"wait", "done", "failed"} : pc' = [pc EXCEPT ![c] = l]
          /\ IF off = CLen THEN peer' = [peer EXCEPT ![c] = "closed"] ELSE UNCHANGED peer
      BY <1>24 DEF Account, At, AfterAccount, CloseSocket
    <2>2. peer'[c] = "closed" /\ peer[c] # "closed" => sent[c] = Total(c)
      BY <1>24, <2>1, AllSent
    <2>3. /\ \A d \in Conn \ {c} : peer'[d] = peer[d] /\ r'[d] = r[d] /\ pc'[d] = pc[d]
          /\ pc'[c] \in {"wait", "done", "failed"}
      BY <2>1 DEF IInv, TypeOK, NetTypes, RecvTypes
    <2> QED
      BY <2>1, <2>2, <2>3 DEF WakeInv, Avail
  <1>25. ASSUME NEW c \in Conn, MapRace(c) \/ UseAfterFree(c)
        PROVE  UNCHANGED <<sender, peer, sent, pc, r, taken>>
    BY <1>25 DEF MapRace, UseAfterFree, netVars
  <1>26. CASE MainWait \/ VectorRace \/ AcceptEnds \/ MainReturns \/ CountAndNotify \/ Test
        \/ Test2 \/ Block \/ SpuriousWakeup \/ ConnectToSender \/ Collect \/ Validate \/
        SigPipe \/ FreeBuffers \/ UnmapFile \/ UNCHANGED vars
    <2>1. UNCHANGED <<sender, peer, sent, pc, r, taken>>
      BY <1>26 DEF MainWait, VectorRace, AcceptEnds, MainReturns, CountAndNotify, Test, Test2,
            Block, SpuriousWakeup, ConnectToSender, Collect, Validate, SigPipe,
            FreeBuffers, UnmapFile, vars, netVars
    <2> QED
      BY <2>1 DEF WakeInv, Avail
  <1>27. ASSUME UNCHANGED <<sender, peer, sent, pc, r, taken>>
        PROVE  WakeInv'
    BY <1>27 DEF WakeInv, Avail
  <1> QED
    BY <1>1, <1>2, <1>3, <1>4, <1>5, <1>6, <1>7, <1>8, <1>9, <1>10, <1>11, <1>12, <1>13, <1>14,
          <1>15, <1>16, <1>17, <1>18, <1>19, <1>20, <1>21, <1>22, <1>23, <1>24, <1>25, <1>26,
          <1>27 DEF Next, Transmit, Recv, Run, Supervise, Disturb

(* EdgeInv is kept. *)
LEMMA NextEdge == IInv /\ ByteInv /\ SizeInv /\ LargeInv /\ EdgeInv /\ [Next]_vars => EdgeInv'
  <1> SUFFICES ASSUME IInv, ByteInv, SizeInv, LargeInv, EdgeInv, [Next]_vars
               PROVE  EdgeInv'
    OBVIOUS
  <1>1. ASSUME NEW c \in Conn, Connect(c)
        PROVE  EdgeInv'
    <2>1. pc[c] = "none" /\ pc' = [pc EXCEPT ![c] = "backlog"]
      BY <1>1 DEF Connect, IInv, QueueInv
    <2>2. UNCHANGED <<sent, taken, edge, early, r>>
      BY <1>1 DEF Connect
    <2> QED
      BY <2>1, <2>2 DEF EdgeInv, Avail
  <1>2. ASSUME NEW c \in Conn, Send(c)
        PROVE  EdgeInv'
    BY <1>2, ServerAssumption DEF EdgeInv, Send, IInv, TypeOK, NetTypes, LargeInv, Avail
  <1>3. ASSUME NEW c \in Conn, Close(c)
        PROVE  EdgeInv'
    BY <1>3 DEF EdgeInv, Close, Avail
  <1>4. CASE SenderDies
    BY <1>4, ConnFacts DEF EdgeInv, SenderDies, Avail
  <1>5. ASSUME NEW c \in Conn, Reset(c)
        PROVE  EdgeInv'
    BY <1>5 DEF EdgeInv, Reset, Avail
  <1>6. CASE Accept
    <2>1. PICK c \in Conn : pc[c] = "backlog" /\ pc' = [pc EXCEPT ![c] = "queued"]
      BY <1>6, AcceptMoves
    <2>2. UNCHANGED <<sent, taken, edge, early, r>>
      BY <1>6 DEF Accept, netVars
    <2> QED
      BY <2>1, <2>2 DEF EdgeInv, Avail
  <1>7. CASE Start
    <2>1. PICK c \in Conn : pc[c] = "queued" /\ pc' = [pc EXCEPT ![c] = "wait"]
      BY <1>7, StartMoves
    <2>2. UNCHANGED <<sent, taken, edge, early, r>>
      BY <1>7 DEF Start, netVars
    <2> QED
      BY <2>1, <2>2 DEF EdgeInv, Avail
  <1>8. ASSUME NEW c \in Conn, EpollFails(c)
        PROVE  EdgeInv'
    BY <1>8 DEF EdgeInv, EpollFails, Avail, netVars
  <1>9. ASSUME NEW c \in Conn, FirstRound(c)
        PROVE  EdgeInv'
    BY <1>9 DEF EdgeInv, FirstRound, IInv, TypeOK, RecvTypes, Avail
  <1>10. ASSUME NEW c \in Conn, Shrink(c)
        PROVE  EdgeInv'
    BY <1>10 DEF EdgeInv, Shrink, Avail, netVars
  <1>11. ASSUME NEW c \in Conn, Alloc(c)
        PROVE  EdgeInv'
    BY <1>11 DEF EdgeInv, Alloc, Avail, netVars
  <1>12. ASSUME NEW c \in Conn, Size(c)
        PROVE  EdgeInv'
    <2>1. /\ pc[c] = "size" /\ UNCHANGED <<sent, taken, edge, early>>
          /\ r' = [r EXCEPT ![c].left = reads_max_bytes_]
          /\ pc' = [pc EXCEPT ![c] = "read"]
      BY <1>12 DEF Size, At, netVars
    <2>2. r'[c].left = reads_max_bytes_ /\ r'[c].got = 0
      BY <2>1 DEF IInv, TypeOK, RecvTypes, RoundInv
    <2>3. c \in Slice /\ early = {} => reads_max_bytes_ = Big
      BY <2>1 DEF IInv, EarlyInv, LargeInv
    <2>4. Avail(c) <= RcvBuf /\ Avail(c) \in Int
      BY DEF EdgeInv, Avail, IInv, TypeOK, NetTypes
    <2>5. RcvBuf <= Big /\ early = {} /\ c \in Slice => ~(Avail(c) > r'[c].left - r'[c].got)
      BY <2>2, <2>3, <2>4, ServerAssumption
    <2>6. \A d \in Conn \ {c} : r'[d] = r[d] /\ pc'[d] = pc[d]
      BY <2>1
    <2>7. pc'[c] = "read" /\ \A d \in Conn : Avail(d)' = Avail(d)
      BY <2>1 DEF IInv, TypeOK, RecvTypes, Avail
    <2> QED
      BY <2>1, <2>5, <2>6, <2>7, ConnFacts DEF EdgeInv
  <1>13. ASSUME NEW c \in Conn, LaterRound(c)
        PROVE  EdgeInv'
    BY <1>13, ServerAssumption DEF EdgeInv, LaterRound, IInv, TypeOK, NetTypes, RecvTypes,
          RecvLocals, Counts, RoundInv, WireInv, EarlyInv, LargeInv, Total, Avail, Wakes, At,
          Missing
  <1>14. ASSUME NEW c \in Conn, ReadData(c)
        PROVE  EdgeInv'
    <2>1. PICK k \in Nat :
           /\ pc[c] = "read" /\ Avail(c) > 0 /\ r[c].left - r[c].got \in Nat
           /\ \/ k = Avail(c) /\ k < r[c].left - r[c].got
              \/ k = r[c].left - r[c].got /\ k <= Avail(c)
           /\ taken'[c] = taken[c] + k /\ \A d \in Conn \ {c} : taken'[d] = taken[d]
           /\ r'[c].got = r[c].got + k /\ r'[c].off = r[c].off /\ r'[c].left = r[c].left
           /\ r'[c].first = r[c].first /\ r'[c].cap = r[c].cap
           /\ \A d \in Conn \ {c} : r'[d] = r[d]
           /\ pc'[c] = IF k < r[c].left - r[c].got THEN "read"
                       ELSE IF r[c].first THEN "parse" ELSE "account"
           /\ \A d \in Conn \ {c} : pc'[d] = pc[d]
      BY <1>14, ReadMoves
    <2>2. /\ r[c].left \in Nat /\ r[c].got \in Nat /\ r[c].off \in Nat
          /\ taken[c] \in Nat /\ sent[c] \in Nat
      BY DEF IInv, TypeOK, RecvTypes, RecvLocals, NetTypes
    <2>4. UNCHANGED <<sent, edge, early>>
      BY <1>14 DEF ReadData
    <2>5. Avail(c)' = Avail(c) - k /\ Avail(c) \in Int /\ \A d \in Conn \ {c} : Avail(d)' = Avail(d)
      BY <2>1, <2>2, <2>4 DEF Avail
    <2>6. ASSUME NEW d \in Conn
          PROVE  /\ Avail(d)' <= RcvBuf
                 /\ pc'[d] \in {"none", "backlog", "queued"} /\ Avail(d)' > 0 => edge'[d]
      BY <2>1, <2>4, <2>5, ServerAssumption DEF EdgeInv
    <2>7. ASSUME RcvBuf <= Big, early' = {}, NEW d \in Conn
          PROVE  /\ pc'[d] = "wait" /\ Avail(d)' > 0 => edge'[d]
                 /\ d \in Slice /\ pc'[d] \in {"parse", "insert", "account"} /\ Avail(d)' > 0
                      => edge'[d]
                 /\ d \in Slice /\ pc'[d] = "read" /\ Avail(d)' > r'[d].left - r'[d].got
                      => edge'[d]
      <3>1. CASE d = c
        BY <2>1, <2>2, <2>4, <2>5, <2>7 DEF EdgeInv
      <3>2. CASE d # c
        BY <2>1, <2>4, <2>5, <2>7, <3>2 DEF EdgeInv
      <3> QED
        BY <3>1, <3>2
    <2> QED
      BY <2>6, <2>7, ConnFacts DEF EdgeInv
  <1>15. ASSUME NEW c \in Conn, ReadNothing(c)
        PROVE  EdgeInv'
    <2>1. /\ pc[c] = "read" /\ UNCHANGED <<sent, taken, edge, early, r>> /\ Avail(c) = 0
          /\ pc' = [pc EXCEPT ![c] = IF r[c].first THEN "parse" ELSE "account"]
      BY <1>15 DEF ReadNothing, At, AfterRead, netVars
    <2>2. \A d \in Conn : Avail(d)' = Avail(d)
      BY <2>1 DEF Avail
    <2>3. pc'[c] \in {"parse", "account"} /\ \A d \in Conn \ {c} : pc'[d] = pc[d]
      BY <2>1 DEF IInv, TypeOK, RecvTypes
    <2>4. \A d \in Conn :
            /\ Avail(d)' <= RcvBuf
            /\ pc'[d] \in {"none", "backlog", "queued"} /\ Avail(d)' > 0 => edge'[d]
      BY <2>1, <2>2 DEF EdgeInv
    <2>5. ASSUME RcvBuf <= Big, early' = {}, NEW d \in Conn
          PROVE  /\ pc'[d] = "wait" /\ Avail(d)' > 0 => edge'[d]
                 /\ d \in Slice /\ pc'[d] \in {"parse", "insert", "account"} /\ Avail(d)' > 0
                      => edge'[d]
                 /\ d \in Slice /\ pc'[d] = "read" /\ Avail(d)' > r'[d].left - r'[d].got
                      => edge'[d]
      BY <2>1, <2>2, <2>5 DEF EdgeInv
    <2> QED
      BY <2>4, <2>5, ConnFacts DEF EdgeInv
  <1>16. ASSUME NEW c \in Conn, ReadError(c)
        PROVE  EdgeInv'
    BY <1>16 DEF EdgeInv, ReadError, Avail, netVars
  <1>17. ASSUME NEW c \in Conn, ParseHeader(c)
        PROVE  EdgeInv'
    BY <1>17 DEF EdgeInv, ParseHeader, Avail, netVars
  <1>18. ASSUME NEW c \in Conn, SetSlicesNum(c)
        PROVE  EdgeInv'
    BY <1>18 DEF EdgeInv, SetSlicesNum, Avail, netVars
  <1>19. ASSUME NEW c \in Conn, SetSplitLen(c)
        PROVE  EdgeInv'
    BY <1>19 DEF EdgeInv, SetSplitLen, Avail, netVars
  <1>20. ASSUME NEW c \in Conn, SetReadsMax(c)
        PROVE  EdgeInv'
    BY <1>20 DEF EdgeInv, SetReadsMax, Avail, netVars
  <1>21. ASSUME NEW c \in Conn, MapFile(c)
        PROVE  EdgeInv'
    BY <1>21 DEF EdgeInv, MapFile, IInv, TypeOK, RecvTypes, Avail, CloseSocket
  <1>22. ASSUME NEW c \in Conn, Unmarshal(c)
        PROVE  EdgeInv'
    BY <1>22, ConnFacts DEF EdgeInv, Unmarshal, IInv, TypeOK, RecvTypes, Avail, At, netVars
  <1>23. ASSUME NEW c \in Conn, Insert(c)
        PROVE  EdgeInv'
    BY <1>23, ConnFacts DEF EdgeInv, Insert, IInv, TypeOK, RecvTypes, RoundInv, Total, Avail,
          At, netVars
  <1>24. ASSUME NEW c \in Conn, Account(c)
        PROVE  EdgeInv'
    BY <1>24, ServerAssumption, ConnFacts DEF EdgeInv, Account, IInv, TypeOK, NetTypes,
          RecvTypes, RoundInv, LargeInv, Avail, At, AfterAccount, CloseSocket
  <1>25. ASSUME NEW c \in Conn, MapRace(c) \/ UseAfterFree(c)
        PROVE  UNCHANGED <<sent, taken, pc, edge, early, r>>
    BY <1>25 DEF MapRace, UseAfterFree, netVars
  <1>26. CASE MainWait \/ VectorRace \/ AcceptEnds \/ MainReturns \/ CountAndNotify \/ Test
        \/ Test2 \/ Block \/ SpuriousWakeup \/ ConnectToSender \/ Collect \/ Validate \/
        SigPipe \/ FreeBuffers \/ UnmapFile \/ UNCHANGED vars
    <2>1. UNCHANGED <<sent, taken, pc, edge, early, r>>
      BY <1>26 DEF MainWait, VectorRace, AcceptEnds, MainReturns, CountAndNotify, Test, Test2,
            Block, SpuriousWakeup, ConnectToSender, Collect, Validate, SigPipe,
            FreeBuffers, UnmapFile, vars, netVars
    <2> QED
      BY <2>1 DEF EdgeInv, Avail
  <1>27. ASSUME UNCHANGED <<sent, taken, pc, edge, early, r>>
        PROVE  EdgeInv'
    BY <1>27 DEF EdgeInv, Avail
  <1> QED
    BY <1>1, <1>2, <1>3, <1>4, <1>5, <1>6, <1>7, <1>8, <1>9, <1>10, <1>11, <1>12, <1>13, <1>14,
          <1>15, <1>16, <1>17, <1>18, <1>19, <1>20, <1>21, <1>22, <1>23, <1>24, <1>25, <1>26,
          <1>27 DEF Next, Transmit, Recv, Run, Supervise, Disturb

(* These parts hold in the beginning. *)
LEMMA InitRead == Init => ByteInv /\ SizeInv /\ LargeInv /\ WakeInv /\ EdgeInv
  <1> SUFFICES ASSUME Init
               PROVE  ByteInv /\ SizeInv /\ LargeInv /\ WakeInv /\ EdgeInv
    OBVIOUS
  <1>1. /\ \A c \in Conn : /\ r[c].first /\ r[c].off = 0 /\ r[c].got = 0 /\ pc[c] = "none"
                           /\ sent[c] = 0 /\ taken[c] = 0 /\ peer[c] = "none"
        /\ reads_max_bytes_ = 0 /\ mmap_ = {} /\ start_ = "null"
    BY DEF Init, NewRecv
  <1>2. ByteInv
    BY <1>1, ConnFacts DEF ByteInv
  <1>3. SizeInv /\ LargeInv
    BY <1>1, ConnFacts, ServerAssumption DEF SizeInv, LargeInv
  <1>4. WakeInv /\ EdgeInv
    BY <1>1, ConnFacts, ServerAssumption DEF WakeInv, EdgeInv, Avail
  <1> QED
    BY <1>2, <1>3, <1>4

(* Together with IInv these parts are inductive. *)
ReadInv == ByteInv /\ SizeInv /\ LargeInv /\ WakeInv /\ EdgeInv

(* Every step of the receiver and its environment keeps them. *)
LEMMA NextReadInv == IInv /\ ReadInv /\ [Next]_vars => ReadInv'
  BY NextByte, NextSize, NextLarge, NextWake, NextEdge DEF ReadInv

(* Edge triggered epoll: while no slice has overtaken the header and one   *)
(* round of reads can empty the receive buffer, a Recv in epoll_wait() has *)
(* read all there is, or will be woken for the rest.                       *)
THEOREM BytesServed == Spec => []NoStrandedBytes
  <1>1. ReadInv => NoStrandedBytes
    BY DEF ReadInv, EdgeInv, NoStrandedBytes
  <1>2. Init => ReadInv
    BY InitRead DEF ReadInv
  <1> QED
    BY <1>1, <1>2, InitIInv, NextIInv, NextReadInv, PTL DEF Spec
=============================================================================
