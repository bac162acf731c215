---------------------------- MODULE SenderProofs ----------------------------
(***************************************************************************)
(* For any number of slices and jobs and any length of a slice, with and   *)
(* without faults: the sender's state is well-typed, Supervise understands *)
(* the report unless it is cut in one of two places, and what the sender   *)
(* does on its connections is what Wire promises to the receiver.          *)
(***************************************************************************)
EXTENDS Sender, SequenceTheorems, TLAPS

(* The queue holds a task once, Supervise until it is started, and the     *)
(* slices are enqueued in the order of their numbers.                      *)
QueueInv ==
  /\ \A i, j \in 1 .. Len(tasks_) : tasks_[i] = tasks_[j] => i = j
  /\ \A i \in 1 .. Len(tasks_) : tasks_[i] = 0 => spc = "queued"
  /\ mpc = "begin" => tasks_ = <<>> /\ spc = "none"
  /\ mpc \in {"begin", "connect", "header", "close"} => next = 0
  /\ mpc = "enqueue" => next < N
  /\ \A s \in Slice : wpc[s] = "none" <=> s > next

(* How far the connection of the header is. *)
HeaderInv ==
  /\ mpc \in {"begin", "connect"} => peer[Header] = "none"
  /\ mpc = "header" => peer[Header] \in {"open", "broken"}
  /\ mpc \in {"begin", "connect", "header"} => sent[Header] = 0
  /\ mpc = "close" => peer[Header] = "open" /\ sent[Header] = 1
  /\ mpc = "enqueue" \/ next > 0 => peer[Header] = "closed"

(* How far the connections of the slices are. *)
SliceInv ==
  \A s \in Slice :
    /\ wpc[s] \in {"none", "queued", "context", "compress", "connect"} => peer[s] = "none"
    /\ wpc[s] = "write" /\ Up => peer[s] \in {"open", "broken"}

(* What Supervise has read ends at one of the cuts. *)
ReportInv ==
  /\ spc \in {"none", "queued", "bind"} => got = 0
  /\ got \in cuts \cup {0}
  /\ ReportUnderstood

IInv == /\ TypeOK
        /\ QueueInv
        /\ HeaderInv
        /\ SliceInv
        /\ ReportInv
-----------------------------------------------------------------------------
(* The numbers of the connections. *)
LEMMA ConnFacts == /\ Header \in Conn /\ Header \notin Slice /\ Slice \subseteq Conn /\ 0 \in Conn
                   /\ \A s \in Slice : s \in Nat /\ s > 0 /\ s <= N
                   /\ \A n \in 0 .. N : n < N => n + 1 \in Slice
  BY SenderAssumption DEF Conn, Header, Slice

(* What Append, Head and Tail do to the pool's queue. *)
LEMMA AppendFacts ==
  ASSUME NEW q \in Seq(Conn), NEW c \in Conn
  PROVE  /\ Append(q, c) \in Seq(Conn)
         /\ Len(q) \in Nat
         /\ Len(Append(q, c)) = Len(q) + 1
         /\ Append(q, c)[Len(q) + 1] = c
         /\ \A i \in 1 .. Len(q) : Append(q, c)[i] = q[i]
  OBVIOUS

(* What the pool takes from the front of its queue, and what stays. *)
LEMMA QueueFacts ==
  ASSUME NEW q \in Seq(Conn), q # <<>>
  PROVE  /\ Head(q) \in Conn
         /\ Tail(q) \in Seq(Conn)
         /\ Len(q) \in Nat \ {0}
         /\ Head(q) = q[1]
         /\ Len(Tail(q)) = Len(q) - 1
         /\ \A i \in 1 .. Len(Tail(q)) : Tail(q)[i] = q[i + 1]
  OBVIOUS

(* The pieces that Report is read in. *)
LEMMA ReportFacts ==
  /\ Len(Report) = 5
  /\ \A i \in 1 .. 5 : Report[i] = "E" <=> i = 1
  /\ \A i \in 1 .. 5 : Report[i] = "strin" <=> i = 4
  BY DEF Report

(* What Supervise finds in what one read of it returns. *)
LEMMA ChunkFacts ==
  ASSUME SupTypes
  PROVE  /\ Len(Chunk) = arrived - got
         /\ Chunk = <<>> <=> got = arrived
         /\ HasEnd(Chunk) <=> got = 0 /\ arrived > 0
         /\ HasResult(Chunk) <=> arrived = 5 /\ got <= 3
  <1>1. /\ got \in Nat /\ arrived \in Nat /\ got <= arrived /\ arrived <= 5
        /\ Report \in Seq({"E", "nul", "text", "strin", "gs2"})
    BY DEF SupTypes, Report
  <1>2. /\ Len(Chunk) = arrived - got
        /\ \A i \in 1 .. arrived - got : Chunk[i] = Report[got + i]
        /\ Chunk \in Seq({"E", "nul", "text", "strin", "gs2"})
    <2> DEFINE S == {"E", "nul", "text", "strin", "gs2"}
    <2>1. \A i \in got + 1 .. arrived : Report[i] \in S
      <3>1. \A i \in got + 1 .. arrived : i \in 1 .. 5
        BY <1>1
      <3>2. \A i \in 1 .. 5 : Report[i] \in S
        BY DEF Report
      <3> QED
        BY <3>1, <3>2
    <2>2. got + 1 \in Int /\ arrived \in Int
      BY <1>1
    <2>3. /\ Chunk \in Seq(S)
          /\ Len(Chunk) = IF got + 1 <= arrived THEN arrived - (got + 1) + 1 ELSE 0
          /\ \A i \in 1 .. arrived - (got + 1) + 1 : Chunk[i] = Report[(got + 1) + i - 1]
      BY <2>1, <2>2 DEF Chunk
    <2> QED
      BY <1>1, <2>3
  <1>3. Chunk = <<>> <=> got = arrived
    BY <1>1, <1>2
  <1>4. HasEnd(Chunk) <=> got = 0 /\ arrived > 0
    BY <1>1, <1>2, ReportFacts DEF HasEnd
  <1>5. HasResult(Chunk) <=> arrived = 5 /\ got <= 3
    BY <1>1, <1>2, ReportFacts DEF HasResult
  <1> QED
    BY <1>2, <1>3, <1>4, <1>5

(* IInv holds in the beginning. *)
LEMMA InitIInv == Init => IInv
  <1> SUFFICES ASSUME Init
               PROVE  IInv
    OBVIOUS
  <1>1. <<>> \in Seq(Conn) /\ Len(<<>>) = 0
    OBVIOUS
  <1>2. MainTypes /\ RunTypes /\ NetTypes
    BY SenderAssumption DEF Init, MainTypes, RunTypes, NetTypes
  <1>3. SupTypes
    <2>1. /\ got \in 0 .. arrived /\ arrived \in 0 .. Len(Report)
          /\ cuts \in SUBSET (0 .. Len(Report))
      BY DEF Init
    <2> QED
      BY <2>1 DEF Init, SupTypes
  <1>4. QueuedExactly /\ OverWithConnection /\ QueueInv
    BY DEF Init, QueuedExactly, OverWithConnection, QueueInv, Slice, Returned
  <1>5. HeaderInv /\ SliceInv
    BY DEF Init, HeaderInv, SliceInv, Conn
  <1>6. ReportInv
    BY DEF Init, ReportInv, ReportUnderstood, Report
  <1> QED
    BY <1>2, <1>3, <1>4, <1>5, <1>6 DEF IInv, TypeOK

(* A part of the invariant holds on as long as its variables do not change. *)
LEMMA Frame ==
  /\ MainTypes /\ UNCHANGED <<mpc, next, tasks_, args_>> => MainTypes'
  /\ RunTypes /\ UNCHANGED <<wpc, level>> => RunTypes'
  /\ NetTypes /\ UNCHANGED <<peer, sent>> => NetTypes'
  /\ SupTypes /\ UNCHANGED <<spc, rcv, eof, edge, got, arrived, cuts>> => SupTypes'
  /\ QueuedExactly /\ UNCHANGED <<wpc, tasks_>> => QueuedExactly'
  /\ OverWithConnection /\ UNCHANGED <<wpc, peer>> => OverWithConnection'
  /\ QueueInv /\ UNCHANGED <<tasks_, spc, mpc, next, wpc>> => QueueInv'
  /\ HeaderInv /\ UNCHANGED <<mpc, peer, sent, next>> => HeaderInv'
  /\ SliceInv /\ UNCHANGED <<wpc, mpc, peer>> => SliceInv'
  /\ ReportInv /\ UNCHANGED <<spc, got, cuts>> => ReportInv'
  BY DEF MainTypes, RunTypes, NetTypes, SupTypes, QueuedExactly, OverWithConnection, QueueInv,
        HeaderInv, SliceInv, ReportInv, Up, ReportUnderstood

(* Nor does a Run that goes on, having left the queue, disturb the queue. *)
LEMMA QueueFrame ==
  ASSUME QueueInv, UNCHANGED <<tasks_, spc, mpc, next>>,
         \A s \in Slice : wpc'[s] = "none" <=> wpc[s] = "none"
  PROVE  QueueInv'
  BY DEF QueueInv

(* Every step of the sender and of its environment keeps IInv. *)
LEMMA NextIInv == IInv /\ [Next]_vars => IInv'
  <1> SUFFICES ASSUME IInv, [Next]_vars
               PROVE  IInv'
    OBVIOUS
  <1> USE DEF IInv, TypeOK
  <1>1. CASE Begin
    <2>1. MainTypes'
      BY <1>1, ConnFacts DEF Begin, MainTypes
    <2>2. SupTypes'
      BY <1>1 DEF SupTypes, Begin, rcvVars
    <2>3. QueuedExactly'
      BY <1>1, ConnFacts DEF Begin, QueuedExactly
    <2>4. QueueInv'
      BY <1>1 DEF Begin, QueueInv
    <2>5. HeaderInv'
      BY <1>1 DEF HeaderInv, Begin, netVars
    <2>6. SliceInv'
      BY <1>1 DEF SliceInv, Begin, Up, netVars
    <2>7. ReportInv'
      BY <1>1 DEF Begin, QueueInv, ReportInv, ReportUnderstood, SupReturned
    <2> QED
      BY <1>1, <2>1, <2>2, <2>3, <2>4, <2>5, <2>6, <2>7, Frame DEF Begin, netVars
  <1>2. CASE HeaderConnect
    <2>1. MainTypes'
      BY <1>2 DEF MainTypes, HeaderConnect
    <2>2. NetTypes'
      BY <1>2 DEF NetTypes, HeaderConnect
    <2>3. OverWithConnection'
      BY <1>2, ConnFacts DEF OverWithConnection, HeaderConnect, NetTypes
    <2>4. QueueInv'
      BY <1>2 DEF QueueInv, HeaderConnect, supVars
    <2>5. HeaderInv'
      BY <1>2, ConnFacts DEF HeaderInv, HeaderConnect, NetTypes
    <2>6. SliceInv'
      BY <1>2, ConnFacts DEF SliceInv, HeaderConnect, Up, NetTypes
    <2> QED
      BY <1>2, <2>1, <2>2, <2>3, <2>4, <2>5, <2>6, Frame DEF HeaderConnect, supVars, rcvVars
  <1>3. CASE HeaderWrite
    <2>1. MainTypes'
      BY <1>3 DEF MainTypes, HeaderWrite
    <2>2. NetTypes'
      BY <1>3 DEF NetTypes, HeaderWrite
    <2>3. QueueInv'
      BY <1>3 DEF QueueInv, HeaderWrite, supVars
    <2>4. HeaderInv'
      BY <1>3, ConnFacts DEF HeaderInv, HeaderWrite, NetTypes
    <2>5. SliceInv'
      BY <1>3 DEF SliceInv, HeaderWrite, Up
    <2> QED
      BY <1>3, <2>1, <2>2, <2>3, <2>4, <2>5, Frame DEF HeaderWrite, supVars, rcvVars
  <1>3a. CASE HeaderUnsent
    <2>1. MainTypes'
      BY <1>3a DEF MainTypes, HeaderUnsent
    <2>2. NetTypes'
      BY <1>3a DEF NetTypes, HeaderUnsent
    <2>3. OverWithConnection'
      BY <1>3a DEF OverWithConnection, HeaderUnsent
    <2>4. QueueInv'
      BY SenderAssumption, <1>3a DEF QueueInv, HeaderUnsent, supVars
    <2>5. HeaderInv'
      BY <1>3a, ConnFacts DEF HeaderInv, HeaderUnsent, NetTypes
    <2>6. SliceInv'
      BY <1>3a, ConnFacts DEF SliceInv, HeaderUnsent, Up
    <2> QED
      BY <1>3a, <2>1, <2>2, <2>3, <2>4, <2>5, <2>6, Frame DEF HeaderUnsent, supVars, rcvVars
  <1>4. CASE HeaderClose
    <2>1. MainTypes'
      BY <1>4 DEF MainTypes, HeaderClose
    <2>2. NetTypes'
      BY <1>4 DEF NetTypes, HeaderClose
    <2>3. OverWithConnection'
      BY <1>4 DEF OverWithConnection, HeaderClose
    <2>4. QueueInv'
      BY SenderAssumption, <1>4 DEF QueueInv, HeaderClose, supVars
    <2>5. HeaderInv'
      BY <1>4, ConnFacts DEF HeaderInv, HeaderClose, NetTypes
    <2>6. SliceInv'
      BY <1>4, ConnFacts DEF SliceInv, HeaderClose, Up
    <2> QED
      BY <1>4, <2>1, <2>2, <2>3, <2>4, <2>5, <2>6, Frame DEF HeaderClose, supVars, rcvVars
  <1>5. CASE EnqueueSlice
    <2>1. MainTypes'
      <3>1. next + 1 \in Slice /\ next + 1 \in 0 .. N
        BY <1>5, ConnFacts DEF EnqueueSlice, QueueInv, MainTypes
      <3> QED
        BY <1>5, <3>1, ConnFacts DEF EnqueueSlice, MainTypes
    <2>2. RunTypes'
      BY <1>5 DEF RunTypes, EnqueueSlice
    <2>3. QueuedExactly'
      <3>1. next + 1 \in Slice /\ next + 1 \in Conn
        BY <1>5, ConnFacts DEF EnqueueSlice, QueueInv, MainTypes
      <3> QED
        BY <1>5, <3>1 DEF EnqueueSlice, RunTypes, QueuedExactly
    <2>4. OverWithConnection'
      BY <1>5 DEF OverWithConnection, EnqueueSlice, Returned, netVars
    <2>5. QueueInv'
      <3>1. next + 1 \in Slice /\ next + 1 \in Conn /\ next + 1 # 0
        BY <1>5, ConnFacts DEF EnqueueSlice, QueueInv, MainTypes
      <3>2. wpc[next + 1] # "queued"
        BY <3>1 DEF QueueInv, MainTypes
      <3>3. \A i \in 1 .. Len(tasks_) : tasks_[i] # next + 1
        BY <3>1, <3>2 DEF QueuedExactly
      <3>4. /\ \A i, j \in 1 .. Len(tasks_') : tasks_'[i] = tasks_'[j] => i = j
            /\ \A i \in 1 .. Len(tasks_') : tasks_'[i] = 0 => spc = "queued"
        BY <1>5, <3>1, <3>3 DEF EnqueueSlice, QueueInv
      <3>5. \A s \in Slice : wpc'[s] = "none" <=> s > next'
        BY <1>5, ConnFacts DEF EnqueueSlice, MainTypes, QueueInv, RunTypes
      <3>6. mpc' = "enqueue" => next' < N
        BY SenderAssumption, <1>5 DEF EnqueueSlice, MainTypes, QueueInv
      <3>7. mpc' \in {"enqueue", "destory"} /\ spc' = spc
        BY <1>5 DEF EnqueueSlice, supVars
      <3> QED
        BY <3>4, <3>5, <3>6, <3>7 DEF QueueInv
    <2>6. HeaderInv'
      BY <1>5 DEF HeaderInv, EnqueueSlice, netVars
    <2>7. SliceInv'
      <3>1. next + 1 \in Slice /\ wpc[next + 1] = "none"
        BY <1>5, ConnFacts DEF EnqueueSlice, QueueInv, MainTypes
      <3> QED
        BY <1>5, <3>1 DEF EnqueueSlice, SliceInv, Up, netVars
    <2> QED
      BY <1>5, <2>1, <2>2, <2>3, <2>4, <2>5, <2>6, <2>7, Frame DEF EnqueueSlice, netVars,
            supVars, rcvVars
  <1>6. CASE Destory
    <2>1. MainTypes'
      BY <1>6 DEF MainTypes, Destory
    <2>2. QueueInv'
      BY <1>6 DEF QueueInv, Destory, supVars
    <2>3. HeaderInv'
      BY <1>6 DEF HeaderInv, Destory, netVars
    <2>4. SliceInv'
      BY <1>6 DEF SliceInv, Destory, Up, netVars
    <2> QED
      BY <1>6, <2>1, <2>2, <2>3, <2>4, Frame DEF Destory, netVars, supVars, rcvVars
  <1>7. CASE GetSlices
    <2>1. MainTypes'
      BY <1>7 DEF MainTypes, GetSlices
    <2>2. QueueInv'
      BY <1>7 DEF QueueInv, GetSlices, supVars
    <2>3. HeaderInv'
      BY <1>7 DEF HeaderInv, GetSlices, netVars
    <2>4. SliceInv'
      BY <1>7 DEF SliceInv, GetSlices, Returned
    <2> QED
      BY <1>7, <2>1, <2>2, <2>3, <2>4, Frame DEF GetSlices, netVars, supVars, rcvVars
  <1>8. CASE GetSupervisor
    <2>1. MainTypes'
      BY <1>8 DEF MainTypes, GetSupervisor
    <2>2. QueueInv'
      BY <1>8 DEF QueueInv, GetSupervisor, supVars
    <2>3. HeaderInv'
      BY <1>8 DEF HeaderInv, GetSupervisor, netVars
    <2>4. SliceInv'
      BY <1>8 DEF SliceInv, GetSupervisor, Up, netVars
    <2> QED
      BY <1>8, <2>1, <2>2, <2>3, <2>4, Frame DEF GetSupervisor, netVars, supVars, rcvVars
  <1>9. CASE JoinSupervisor
    <2>1. MainTypes'
      BY <1>9 DEF MainTypes, JoinSupervisor
    <2>2. QueueInv'
      BY <1>9 DEF QueueInv, JoinSupervisor, supVars
    <2>3. HeaderInv'
      BY <1>9 DEF HeaderInv, JoinSupervisor, netVars
    <2>4. SliceInv'
      BY <1>9 DEF SliceInv, JoinSupervisor, Up, netVars
    <2> QED
      BY <1>9, <2>1, <2>2, <2>3, <2>4, Frame DEF JoinSupervisor, netVars, supVars, rcvVars
  <1>10. CASE Start
    <2>1. MainTypes'
      BY <1>10 DEF MainTypes, Start
    <2>2. RunTypes'
      BY <1>10 DEF RunTypes, Start
    <2>3. SupTypes'
      BY <1>10 DEF SupTypes, Start, rcvVars
    <2>4. QueuedExactly'
      <3>1. PICK t \in Conn : /\ t = tasks_[1] /\ t = Head(tasks_)
                              /\ tasks_' = Tail(tasks_) /\ Len(tasks_') = Len(tasks_) - 1
                              /\ \A i \in 1 .. Len(tasks_') : tasks_'[i] = tasks_[i + 1]
                              /\ Len(tasks_) \in Nat \ {0}
        BY <1>10 DEF Start, MainTypes
      <3>2. \A s \in Slice : (\E i \in 1 .. Len(tasks_') : tasks_'[i] = s)
                               <=> s # t /\ \E i \in 1 .. Len(tasks_) : tasks_[i] = s
        <4> SUFFICES ASSUME NEW s \in Slice
                     PROVE  (\E i \in 1 .. Len(tasks_') : tasks_'[i] = s)
                               <=> s # t /\ \E i \in 1 .. Len(tasks_) : tasks_[i] = s
          OBVIOUS
        <4>1. ASSUME NEW i \in 1 .. Len(tasks_'), tasks_'[i] = s
              PROVE  s # t /\ \E j \in 1 .. Len(tasks_) : tasks_[j] = s
          <5>1. i + 1 \in 1 .. Len(tasks_) /\ 1 \in 1 .. Len(tasks_) /\ i + 1 # 1
            BY <3>1
          <5> QED
            BY <3>1, <4>1, <5>1 DEF QueueInv
        <4>2. ASSUME s # t, NEW j \in 1 .. Len(tasks_), tasks_[j] = s
              PROVE  \E i \in 1 .. Len(tasks_') : tasks_'[i] = s
          <5>1. j # 1 /\ j - 1 \in 1 .. Len(tasks_') /\ (j - 1) + 1 = j
            BY <3>1, <4>2
          <5>2. tasks_'[j - 1] = tasks_[(j - 1) + 1]
            BY <3>1, <5>1
          <5> QED
            BY <4>2, <5>1, <5>2
        <4> QED
          BY <4>1, <4>2
      <3>3. \A s \in Slice : wpc'[s] = IF s = t THEN "context" ELSE wpc[s]
        <4>1. wpc' = IF t = 0 THEN wpc ELSE [wpc EXCEPT ![t] = "context"]
          BY <1>10, <3>1 DEF Start
        <4>2. \A s \in Slice : s # 0
          BY DEF Slice
        <4> QED
          BY <4>1, <4>2 DEF RunTypes
      <3>4. t \in Slice => wpc[t] = "queued"
        BY <3>1 DEF QueuedExactly
      <3> QED
        BY <3>2, <3>3, <3>4 DEF QueuedExactly
    <2>5. OverWithConnection'
      BY <1>10 DEF OverWithConnection, Start, Returned, netVars, RunTypes
    <2>6. QueueInv'
      <3>1. PICK t \in Conn : /\ t = tasks_[1] /\ t = Head(tasks_)
                              /\ tasks_' = Tail(tasks_) /\ Len(tasks_') = Len(tasks_) - 1
                              /\ \A i \in 1 .. Len(tasks_') : tasks_'[i] = tasks_[i + 1]
                              /\ Len(tasks_) \in Nat \ {0}
        BY <1>10 DEF Start, MainTypes
      <3>2. \A i, j \in 1 .. Len(tasks_') : tasks_'[i] = tasks_'[j] => i = j
        <4> SUFFICES ASSUME NEW i \in 1 .. Len(tasks_'), NEW j \in 1 .. Len(tasks_'),
                            tasks_'[i] = tasks_'[j]
                     PROVE  i = j
          OBVIOUS
        <4>1. i + 1 \in 1 .. Len(tasks_) /\ j + 1 \in 1 .. Len(tasks_)
          BY <3>1
        <4>2. i + 1 = j + 1
          BY <3>1, <4>1 DEF QueueInv
        <4> QED
          BY <4>2
      <3>3. ASSUME NEW i \in 1 .. Len(tasks_'), tasks_'[i] = 0
            PROVE  spc' = "queued"
        <4>1. i + 1 \in 1 .. Len(tasks_) /\ 1 \in 1 .. Len(tasks_) /\ i + 1 # 1
          BY <3>1
        <4>2. t # 0 /\ spc = "queued"
          BY <3>1, <3>3, <4>1 DEF QueueInv
        <4> QED
          BY <1>10, <3>1, <4>2 DEF Start, RunTypes
      <3>4. mpc' # "begin" /\ mpc' = mpc /\ next' = next
        BY <1>10 DEF Start, QueueInv
      <3>5. t \in Slice => wpc[t] = "queued"
        BY <3>1 DEF QueuedExactly
      <3>6. \A s \in Slice : wpc'[s] = IF s = t THEN "context" ELSE wpc[s]
        <4>1. wpc' = IF t = 0 THEN wpc ELSE [wpc EXCEPT ![t] = "context"]
          BY <1>10, <3>1 DEF Start
        <4>2. \A s \in Slice : s # 0
          BY DEF Slice
        <4> QED
          BY <4>1, <4>2 DEF RunTypes
      <3> QED
        BY <3>2, <3>3, <3>4, <3>5, <3>6 DEF QueueInv
    <2>7. SliceInv'
      <3>1. Head(tasks_) \in Slice => wpc[Head(tasks_)] = "queued"
        BY <1>10 DEF Start, QueuedExactly
      <3> QED
        BY <1>10, <3>1 DEF Start, SliceInv, RunTypes, netVars
    <2>8. ReportInv'
      <3>1. Head(tasks_) = 0 => spc = "queued"
        BY <1>10 DEF Start, QueueInv
      <3> QED
        BY <1>10, <3>1, ReportFacts DEF Start, ReportInv, ReportUnderstood
    <2> QED
      BY <1>10, <2>1, <2>2, <2>3, <2>4, <2>5, <2>6, <2>7, <2>8, Frame DEF Start, netVars
  <1>11. ASSUME NEW s \in Slice, ReadLevel(s)
        PROVE  IInv'
    <2>1. RunTypes'
      BY <1>11 DEF RunTypes, ReadLevel, Goto
    <2>2. QueuedExactly'
      BY <1>11 DEF QueuedExactly, ReadLevel, At, Goto, mainVars
    <2>3. OverWithConnection'
      BY <1>11 DEF OverWithConnection, ReadLevel, Returned, Goto, netVars
    <2>4. QueueInv'
      <3>1. \A t \in Slice : wpc'[t] = "none" <=> wpc[t] = "none"
        BY <1>11 DEF ReadLevel, At, Goto
      <3> QED
        BY <1>11, <3>1, QueueFrame DEF ReadLevel, mainVars, supVars
    <2>5. SliceInv'
      BY <1>11 DEF SliceInv, ReadLevel, At, Goto, netVars
    <2> QED
      BY <1>11, <2>1, <2>2, <2>3, <2>4, <2>5, Frame DEF ReadLevel, mainVars, netVars, supVars,
            rcvVars
  <1>12. ASSUME NEW s \in Slice, Compress(s)
        PROVE  IInv'
    <2>1. RunTypes'
      BY <1>12 DEF RunTypes, Compress, Goto
    <2>2. QueuedExactly'
      BY <1>12 DEF QueuedExactly, Compress, At, Goto, mainVars
    <2>3. OverWithConnection'
      BY <1>12 DEF OverWithConnection, Compress, Returned, Goto, netVars
    <2>4. QueueInv'
      <3>1. \A t \in Slice : wpc'[t] = "none" <=> wpc[t] = "none"
        BY <1>12 DEF Compress, At, Goto
      <3> QED
        BY <1>12, <3>1, QueueFrame DEF Compress, mainVars, supVars
    <2>5. SliceInv'
      BY <1>12 DEF SliceInv, Compress, At, Goto, netVars
    <2> QED
      BY <1>12, <2>1, <2>2, <2>3, <2>4, <2>5, Frame DEF Compress, mainVars, netVars, supVars,
            rcvVars
  <1>13. ASSUME NEW s \in Slice, ConnectSlice(s)
        PROVE  IInv'
    <2>1. RunTypes'
      BY <1>13 DEF RunTypes, ConnectSlice, Goto
    <2>2. NetTypes'
      BY <1>13 DEF NetTypes, ConnectSlice
    <2>3. QueuedExactly'
      BY <1>13 DEF QueuedExactly, ConnectSlice, At, Goto, mainVars
    <2>4. OverWithConnection'
      BY <1>13 DEF OverWithConnection, ConnectSlice, Returned, At, Goto
    <2>5. QueueInv'
      <3>1. \A t \in Slice : wpc'[t] = "none" <=> wpc[t] = "none"
        BY <1>13 DEF ConnectSlice, At, Goto
      <3> QED
        BY <1>13, <3>1, QueueFrame DEF ConnectSlice, mainVars, supVars
    <2>6. HeaderInv'
      BY <1>13, ConnFacts DEF HeaderInv, ConnectSlice, mainVars
    <2>7. SliceInv'
      BY <1>13, ConnFacts DEF SliceInv, ConnectSlice, At, Goto, RunTypes, NetTypes
    <2> QED
      BY <1>13, <2>1, <2>2, <2>3, <2>4, <2>5, <2>6, <2>7, Frame DEF ConnectSlice, mainVars,
            supVars, rcvVars
  <1>14. ASSUME NEW s \in Slice, WriteChunk(s)
        PROVE  IInv'
    <2>1. NetTypes'
      BY <1>14, ConnFacts DEF NetTypes, WriteChunk
    <2>2. HeaderInv'
      BY <1>14, ConnFacts DEF HeaderInv, WriteChunk, mainVars
    <2> QED
      BY <1>14, <2>1, <2>2, Frame DEF WriteChunk, mainVars, supVars, rcvVars
  <1>15. ASSUME NEW s \in Slice, CloseSlice(s)
        PROVE  IInv'
    <2>1. RunTypes'
      BY <1>15 DEF RunTypes, CloseSlice, Returned, Goto
    <2>2. NetTypes'
      BY <1>15 DEF NetTypes, CloseSlice
    <2>3. QueuedExactly'
      BY <1>15 DEF QueuedExactly, CloseSlice, At, Goto, mainVars
    <2>4. OverWithConnection'
      BY <1>15, ConnFacts DEF OverWithConnection, CloseSlice, Goto, NetTypes
    <2>5. QueueInv'
      <3>1. \A t \in Slice : wpc'[t] = "none" <=> wpc[t] = "none"
        BY <1>15 DEF CloseSlice, At, Goto
      <3> QED
        BY <1>15, <3>1, QueueFrame DEF CloseSlice, mainVars, supVars
    <2>6. HeaderInv'
      BY <1>15, ConnFacts DEF HeaderInv, CloseSlice, mainVars
    <2>7. SliceInv'
      BY <1>15 DEF SliceInv, CloseSlice, At, Goto, RunTypes
    <2> QED
      BY <1>15, <2>1, <2>2, <2>3, <2>4, <2>5, <2>6, <2>7, Frame DEF CloseSlice, mainVars,
            supVars, rcvVars
  <1>16. ASSUME NEW s \in Slice, RunFails(s)
        PROVE  IInv'
    <2>1. RunTypes'
      BY <1>16 DEF RunTypes, RunFails, Returned, Goto
    <2>2. QueuedExactly'
      BY <1>16 DEF QueuedExactly, RunFails, mainVars, Goto
    <2>3. OverWithConnection'
      BY <1>16 DEF OverWithConnection, RunFails, netVars, Goto, SliceInv
    <2>4. QueueInv'
      <3>1. \A t \in Slice : wpc'[t] = "none" <=> wpc[t] = "none"
        BY <1>16 DEF RunFails, Goto
      <3> QED
        BY <1>16, <3>1, QueueFrame DEF RunFails, mainVars, supVars
    <2>5. SliceInv'
      BY <1>16 DEF SliceInv, RunFails, netVars, Goto
    <2> QED
      BY <1>16, <2>1, <2>2, <2>3, <2>4, <2>5, Frame DEF RunFails, mainVars, netVars, supVars,
            rcvVars
  <1>17. ASSUME NEW s \in Slice, WriteFails(s)
        PROVE  IInv'
    <2>1. RunTypes'
      BY <1>17 DEF RunTypes, WriteFails, Returned, Goto
    <2>2. QueuedExactly'
      BY <1>17 DEF QueuedExactly, WriteFails, At, Goto, mainVars
    <2>3. OverWithConnection'
      BY <1>17 DEF OverWithConnection, WriteFails, Goto, netVars
    <2>4. QueueInv'
      <3>1. \A t \in Slice : wpc'[t] = "none" <=> wpc[t] = "none"
        BY <1>17 DEF WriteFails, At, Goto
      <3> QED
        BY <1>17, <3>1, QueueFrame DEF WriteFails, mainVars, supVars
    <2>5. SliceInv'
      BY <1>17 DEF SliceInv, WriteFails, At, Goto, netVars
    <2> QED
      BY <1>17, <2>1, <2>2, <2>3, <2>4, <2>5, Frame DEF WriteFails, mainVars, netVars, supVars,
            rcvVars
  <1>18. CASE SigPipe
    <2>1. MainTypes'
      BY <1>18 DEF MainTypes, SigPipe
    <2>2. NetTypes'
      BY <1>18 DEF NetTypes, SigPipe
    <2>3. OverWithConnection'
      BY <1>18, ConnFacts DEF OverWithConnection, SigPipe
    <2>4. QueueInv'
      BY <1>18 DEF QueueInv, SigPipe, supVars
    <2>5. HeaderInv'
      BY <1>18, ConnFacts DEF HeaderInv, SigPipe
    <2>6. SliceInv'
      BY <1>18, ConnFacts DEF SliceInv, SigPipe, Up
    <2> QED
      BY <1>18, <2>1, <2>2, <2>3, <2>4, <2>5, <2>6, Frame DEF SigPipe, supVars, rcvVars
  <1>19. CASE BindSocket
    <2>1. SupTypes'
      BY <1>19 DEF SupTypes, BindSocket, SupReturned, rcvVars
    <2>2. QueueInv'
      BY <1>19 DEF QueueInv, BindSocket, mainVars
    <2>3. ReportInv'
      BY <1>19 DEF ReportInv, BindSocket, ReportUnderstood, SupReturned
    <2> QED
      BY <1>19, <2>1, <2>2, <2>3, Frame DEF BindSocket, mainVars, netVars
  <1>20. CASE EpollFails
    <2>1. SupTypes'
      BY <1>20 DEF SupTypes, EpollFails, SupReturned, rcvVars
    <2>2. QueueInv'
      BY <1>20 DEF QueueInv, EpollFails, mainVars
    <2>3. ReportInv'
      BY <1>20 DEF ReportInv, EpollFails, ReportUnderstood, SupReturned
    <2> QED
      BY <1>20, <2>1, <2>2, <2>3, Frame DEF EpollFails, mainVars, netVars
  <1>21. CASE Accept
    <2>1. SupTypes'
      BY <1>21 DEF SupTypes, Accept, supVars
    <2> QED
      BY <1>21, <2>1, Frame DEF Accept, mainVars, netVars, supVars
  <1>22. CASE ReadReport
    <2>1. SupTypes'
      <3>1. spc' \in {"none", "queued", "bind", "poll"} \cup SupReturned
        BY <1>22 DEF ReadReport, SupReturned
      <3>2. /\ got' \in 0 .. arrived' /\ arrived' \in 0 .. Len(Report)
            /\ cuts' \in SUBSET (0 .. Len(Report))
        BY <1>22 DEF ReadReport, SupTypes
      <3> QED
        BY <1>22, <3>1, <3>2 DEF ReadReport, SupTypes
    <2>2. QueueInv'
      BY <1>22 DEF QueueInv, ReadReport, mainVars
    <2>3. ReportInv'
      <3>1. /\ got' = arrived /\ cuts' = cuts \cup {arrived}
            /\ got \in Nat /\ arrived \in Nat /\ got <= arrived
            /\ spc' = IF got = arrived THEN "err"
                      ELSE IF got = 0 /\ arrived < 2 THEN "threw"
                      ELSE IF arrived = 5 /\ got <= 3 THEN "ok" ELSE "poll"
        BY <1>22, ChunkFacts DEF ReadReport, SupTypes
      <3>2. spc' = "threw" => 1 \in cuts'
        BY <3>1
      <3>3. got' = 5 => spc' \in SupReturned \/ 4 \in cuts'
        BY <3>1 DEF ReportInv, SupReturned
      <3> QED
        BY <3>1, <3>2, <3>3, ReportFacts DEF ReportInv, ReportUnderstood
    <2> QED
      BY <1>22, <2>1, <2>2, <2>3, Frame DEF ReadReport, mainVars, netVars
  <1>23. CASE ReceiverConnects
    <2>1. SupTypes'
      BY <1>23 DEF SupTypes, ReceiverConnects, supVars
    <2> QED
      BY <1>23, <2>1, Frame DEF ReceiverConnects, mainVars, netVars, supVars
  <1>24. CASE ReportArrives
    <2>1. SupTypes'
      BY <1>24 DEF SupTypes, ReportArrives, supVars
    <2> QED
      BY <1>24, <2>1, Frame DEF ReportArrives, mainVars, netVars, supVars
  <1>25. CASE ReceiverDies
    <2>1. SupTypes'
      BY <1>25 DEF SupTypes, ReceiverDies, supVars
    <2> QED
      BY <1>25, <2>1, Frame DEF ReceiverDies, mainVars, netVars, supVars
  <1>26. ASSUME NEW c \in Conn, ConnectionBreaks(c)
        PROVE  IInv'
    <2>1. NetTypes'
      BY <1>26 DEF NetTypes, ConnectionBreaks
    <2>2. OverWithConnection'
      BY <1>26 DEF OverWithConnection, ConnectionBreaks
    <2>3. HeaderInv'
      BY <1>26 DEF HeaderInv, ConnectionBreaks, Total, mainVars
    <2>4. SliceInv'
      BY <1>26 DEF SliceInv, ConnectionBreaks
    <2> QED
      BY <1>26, <2>1, <2>2, <2>3, <2>4, Frame DEF ConnectionBreaks, mainVars, supVars, rcvVars
  <1>27. CASE UNCHANGED vars
    BY <1>27, Frame DEF vars, mainVars, netVars, supVars, rcvVars
  <1> QED
    BY <1>1, <1>2, <1>3, <1>4, <1>5, <1>6, <1>7, <1>8, <1>9, <1>10, <1>11, <1>12, <1>13, <1>14,
          <1>15, <1>16, <1>17, <1>18, <1>19, <1>20, <1>21, <1>22, <1>23, <1>24, <1>25, <1>26,
          <1>27, <1>3a DEF Next, Main, Run, Proceed, Supervise, Receiver, Disturb

(* The sender's state is well-typed; the pool's queue holds exactly the    *)
(* slices that main() has enqueued and no thread has started, and a Run    *)
(* that is over has left no connection open.                               *)
THEOREM TypeCorrect == Spec => []TypeOK
  <1>1. IInv => TypeOK
    BY DEF IInv
  <1> QED
    BY <1>1, InitIInv, NextIInv, PTL DEF Spec

(* Supervise returns once it has read the whole report, and throws never,  *)
(* unless a read() has ended between "E" and its NUL or inside "strings2:".*)
THEOREM ReportRead == Spec => []ReportUnderstood
  <1>1. IInv => ReportUnderstood
    BY DEF IInv, ReportInv
  <1> QED
    BY <1>1, InitIInv, NextIInv, PTL DEF Spec
-----------------------------------------------------------------------------
(* Every step of the sender is a step of Wire or leaves the connections as *)
(* they are.                                                               *)
LEMMA NextIsWire == IInv /\ [Next]_vars => [W!Next]_W!vars
  <1> SUFFICES ASSUME IInv, [Next]_vars
               PROVE  [W!Next]_W!vars
    OBVIOUS
  <1> USE DEF IInv, TypeOK
  <1>1. CASE HeaderConnect
    <2>1. CASE peer' = [peer EXCEPT ![Header] = "open"]
      <3>1. W!Connect(Header)
        BY <1>1, <2>1 DEF W!Connect, HeaderConnect, HeaderInv
      <3> QED
        BY <3>1, ConnFacts DEF W!Next
    <2>2. CASE UNCHANGED peer
      BY <1>1, <2>2 DEF HeaderConnect, W!vars
    <2> QED
      BY <1>1, <2>1, <2>2 DEF HeaderConnect
  <1>2. CASE HeaderWrite
    <2>1. CASE peer[Header] = "open"
      <3>1. sent' = [sent EXCEPT ![Header] = 1] /\ UNCHANGED peer /\ sent[Header] = 0
        BY <1>2, <2>1 DEF HeaderWrite, HeaderInv
      <3>2. W!Send(Header)
        BY <2>1, <3>1, ConnFacts DEF W!Send, Total
      <3> QED
        BY <3>2, ConnFacts DEF W!Next
    <2>2. CASE peer[Header] # "open"
      BY <1>2, <2>2 DEF HeaderWrite, W!vars
    <2> QED
      BY <2>1, <2>2
  <1>3. CASE HeaderClose
    <2>1. W!Close(Header)
      BY <1>3, ConnFacts DEF W!Close, HeaderClose, HeaderInv, Total
    <2> QED
      BY <2>1, ConnFacts DEF W!Next
  <1>3a. CASE HeaderUnsent
    <2>1. W!Close(Header)
      BY <1>3a, ConnFacts DEF W!Close, HeaderUnsent
    <2> QED
      BY <2>1, ConnFacts DEF W!Next
  <1>4. ASSUME NEW s \in Slice, ConnectSlice(s)
        PROVE  [W!Next]_W!vars
    <2>1. next > 0
      BY <1>4, ConnFacts DEF ConnectSlice, At, QueueInv, MainTypes
    <2>2. peer[Header] = "closed"
      BY <2>1 DEF HeaderInv
    <2>3. W!Connect(s)
      BY <1>4, <2>2, ConnFacts DEF W!Connect, ConnectSlice, At, SliceInv
    <2> QED
      BY <2>3, ConnFacts DEF W!Next
  <1>5. ASSUME NEW s \in Slice, WriteChunk(s)
        PROVE  [W!Next]_W!vars
    <2>1. W!Send(s)
      BY <1>5, ConnFacts DEF W!Send, WriteChunk
    <2> QED
      BY <2>1, ConnFacts DEF W!Next
  <1>6. ASSUME NEW s \in Slice, CloseSlice(s)
        PROVE  [W!Next]_W!vars
    <2>1. W!Close(s)
      BY <1>6, ConnFacts DEF W!Close, CloseSlice
    <2> QED
      BY <2>1, ConnFacts DEF W!Next
  <1>7. CASE SigPipe
    <2> DEFINE ended == {c \in Conn : peer[c] = "open"}
    <2>1. W!Break(ended)
      BY <1>7 DEF W!Break, SigPipe
    <2> QED
      BY <2>1 DEF W!Next
  <1>8. ASSUME NEW c \in Conn, ConnectionBreaks(c)
        PROVE  [W!Next]_W!vars
    <2>1. sent[c] # Total(c)
      BY <1>8 DEF ConnectionBreaks, NetTypes
    <2>2. peer' = [d \in Conn |-> IF d \notin {c} THEN peer[d] ELSE "broken"]
      BY <1>8 DEF ConnectionBreaks, NetTypes
    <2>3. W!Break({c})
      BY <1>8, <2>1, <2>2 DEF W!Break, ConnectionBreaks
    <2> QED
      BY <2>3 DEF W!Next
  <1>9. CASE \/ Begin \/ EnqueueSlice \/ Destory \/ GetSlices \/ GetSupervisor
             \/ JoinSupervisor \/ Start \/ Supervise \/ Receiver \/ EpollFails \/ ReceiverDies
             \/ UNCHANGED vars
    BY <1>9 DEF Begin, EnqueueSlice, Destory, GetSlices, GetSupervisor, JoinSupervisor, Start,
          Supervise, BindSocket, Accept, ReadReport, Receiver, ReceiverConnects, ReportArrives,
          EpollFails, ReceiverDies, vars, netVars, W!vars
  <1>10. ASSUME NEW s \in Slice, ReadLevel(s) \/ Compress(s) \/ WriteFails(s) \/ RunFails(s)
         PROVE  UNCHANGED W!vars
    BY <1>10 DEF ReadLevel, Compress, WriteFails, RunFails, netVars, W!vars
  <1> QED
    BY <1>1, <1>2, <1>3, <1>4, <1>5, <1>6, <1>7, <1>8, <1>9, <1>10, <1>3a
      DEF Next, Main, Run, Proceed, Disturb

(* What the receiver can rely on: no slice is connected before the         *)
(* connection of the header is closed, and a connection is closed only     *)
(* after all that it has to carry, the header included unless its write()  *)
(* has had nothing to give.                                                *)
THEOREM WireRefinement == Spec => ImplementsWire
  <1>1. Init => W!Init
    BY DEF Init, W!Init
  <1> QED
    BY <1>1, InitIInv, NextIInv, NextIsWire, PTL DEF Spec, ImplementsWire, W!Spec
=============================================================================
