---------------------------- MODULE ServerProofs ----------------------------
(***************************************************************************)
(* For any number of slices, jobs and buffer sizes, with and without       *)
(* faults: the receiver's state is well-typed, its main thread leaves no   *)
(* connection in the backlog, and a slice is lost only for the reasons     *)
(* that LossOnlyIfEarly lists.                                             *)
(***************************************************************************)
EXTENDS Server, SequenceTheorems, TLAPS

(* Where a Recv is in its round, and what its locals hold there. *)
RoundInv ==
  \A c \in Conn :
    /\ pc[c] \in {"none", "backlog", "queued", "wait", "shrink", "alloc", "size"} => r[c].got = 0
    /\ pc[c] \in {"none", "backlog", "queued", "shrink", "alloc", "size", "parse"} => r[c].first
    /\ pc[c] = "read" => r[c].got <= r[c].left
    /\ pc[c] = "insert" => ~r[c].first /\ (Alive => r[c].got > 0)
    /\ pc[c] = "account" => ~r[c].first
    /\ ~r[c].first => c # Header /\ (c \in mmap_ \/ pc[c] = "insert")

(* Only the Recv of the header sets split_len_ and start_, once. *)
HeaderInv ==
  /\ split_len_ # 0 \/ start_ # "null" => pc[Header] \in {"max", "map", "done"}
  /\ \A c \in Slice : pc[c] \notin {"num", "split", "max", "map"}

(* What a slice has found out about the header when it goes on. *)
EarlyInv ==
  \A c \in Slice :
    pc[c] \in {"shrink", "alloc", "size", "read", "parse"} \/ ~r[c].first
      => c \in early \/ start_ # "null"

(* How far the sender is. *)
WireInv ==
  /\ \A c \in Conn : sent[c] <= Total(c)
  /\ pc[Header] \in {"num", "split", "max", "map"} => sent[Header] = 1

(* The two queues hold the connections that wait in them, once each. *)
QueueInv ==
  /\ \A c \in Conn : peer[c] = "none" => pc[c] = "none"
  /\ \A i \in 1 .. Len(backlog) : pc[backlog[i]] = "backlog"
  /\ \A i, j \in 1 .. Len(backlog) : backlog[i] = backlog[j] => i = j
  /\ \A i \in 1 .. Len(tasks_) : pc[tasks_[i]] = "queued"
  /\ \A i, j \in 1 .. Len(tasks_) : tasks_[i] = tasks_[j] => i = j

IInv == /\ TypeOK
        /\ RoundInv
        /\ HeaderInv
        /\ EarlyInv
        /\ WireInv
        /\ QueueInv
        /\ NoStrandedConnection
        /\ LossOnlyIfEarly
-----------------------------------------------------------------------------
(* What Head, Tail and Append do to a queue of connections. *)
LEMMA QueueFacts ==
  ASSUME NEW q \in Seq(Conn), q # <<>>
  PROVE  /\ Head(q) \in Conn
         /\ Tail(q) \in Seq(Conn)
         /\ Len(q) \in Nat \ {0}
         /\ Head(q) = q[1]
         /\ Len(Tail(q)) = Len(q) - 1
         /\ \A i \in 1 .. Len(Tail(q)) : Tail(q)[i] = q[i + 1]
  OBVIOUS

(* A part of the invariant holds on as long as its variables do not change. *)
LEMMA Frame ==
  /\ NetTypes /\ UNCHANGED netVars => NetTypes'
  /\ MainTypes /\ UNCHANGED mainVars => MainTypes'
  /\ FileTypes /\ UNCHANGED fileVars => FileTypes'
  /\ RecvTypes /\ UNCHANGED <<pc, r>> => RecvTypes'
  /\ SupTypes /\ UNCHANGED <<supVars, ub, early>> => SupTypes'
  /\ Counts /\ UNCHANGED <<sent, taken, r, mmap_>> => Counts'
  /\ RoundInv /\ UNCHANGED <<pc, r, mmap_, ub>> => RoundInv'
  /\ HeaderInv /\ UNCHANGED <<pc, split_len_, start_>> => HeaderInv'
  /\ EarlyInv /\ UNCHANGED <<pc, r, early, start_>> => EarlyInv'
  /\ WireInv /\ UNCHANGED <<pc, sent, sender, peer>> => WireInv'
  /\ QueueInv /\ UNCHANGED <<peer, pc, backlog, tasks_>> => QueueInv'
  /\ NoStrandedConnection /\ UNCHANGED <<mpc, backlog, listenEdge>> => NoStrandedConnection'
  /\ LossOnlyIfEarly /\ UNCHANGED <<pc, r, peer, early>> => LossOnlyIfEarly'
  <1>1. NetTypes /\ UNCHANGED netVars => NetTypes'
    BY DEF NetTypes, netVars
  <1>2. MainTypes /\ UNCHANGED mainVars => MainTypes'
    BY DEF MainTypes, mainVars
  <1>3. FileTypes /\ UNCHANGED fileVars => FileTypes'
    BY DEF FileTypes, fileVars
  <1>4. RecvTypes /\ UNCHANGED <<pc, r>> => RecvTypes'
    BY DEF RecvTypes
  <1>5. SupTypes /\ UNCHANGED <<supVars, ub, early>> => SupTypes'
    BY DEF SupTypes, supVars
  <1>6. Counts /\ UNCHANGED <<sent, taken, r, mmap_>> => Counts'
    BY DEF Counts
  <1>7. RoundInv /\ UNCHANGED <<pc, r, mmap_, ub>> => RoundInv'
    BY DEF RoundInv, Alive
  <1>8. HeaderInv /\ UNCHANGED <<pc, split_len_, start_>> => HeaderInv'
    BY DEF HeaderInv
  <1>9. EarlyInv /\ UNCHANGED <<pc, r, early, start_>> => EarlyInv'
    BY DEF EarlyInv
  <1>10. WireInv /\ UNCHANGED <<pc, sent, sender, peer>> => WireInv'
    BY DEF WireInv
  <1>11. QueueInv /\ UNCHANGED <<peer, pc, backlog, tasks_>> => QueueInv'
    BY DEF QueueInv
  <1>12. NoStrandedConnection /\ UNCHANGED <<mpc, backlog, listenEdge>> => NoStrandedConnection'
    BY DEF NoStrandedConnection
  <1>13. LossOnlyIfEarly /\ UNCHANGED <<pc, r, peer, early>> => LossOnlyIfEarly'
    BY DEF LossOnlyIfEarly
  <1> QED
    BY <1>1, <1>2, <1>3, <1>4, <1>5, <1>6, <1>7, <1>8, <1>9, <1>10, <1>11, <1>12, <1>13

(* IInv holds in the beginning. *)
LEMMA InitIInv == Init => IInv
  <1> SUFFICES ASSUME Init
               PROVE  IInv
    OBVIOUS
  <1>1. <<>> \in Seq(Conn)
    OBVIOUS
  <1>2. NetTypes /\ MainTypes /\ FileTypes /\ SupTypes
    BY <1>1 DEF Init, NetTypes, MainTypes, FileTypes, SupTypes, Waiting
  <1>3. RecvTypes /\ Counts
    BY DEF Init, RecvTypes, Counts, NewRecv, Label, RecvLocals, Idle
  <1>4. RoundInv /\ HeaderInv /\ EarlyInv /\ WireInv
    BY ServerAssumption DEF Init, RoundInv, HeaderInv, EarlyInv, WireInv, NewRecv, Total, Conn
  <1>5. QueueInv /\ NoStrandedConnection /\ LossOnlyIfEarly
    BY DEF Init, QueueInv, NoStrandedConnection, LossOnlyIfEarly, Conn
  <1> QED
    BY <1>2, <1>3, <1>4, <1>5 DEF IInv, TypeOK

(* Every step of the receiver and of its environment keeps IInv. *)
LEMMA NextIInv == IInv /\ [Next]_vars => IInv'
  <1> SUFFICES ASSUME IInv, [Next]_vars
               PROVE  IInv'
    OBVIOUS
  <1>1. ASSUME NEW c \in Conn, Connect(c)
        PROVE  IInv'
    <2>h. pc[c] = "none"
      BY <1>1 DEF IInv, QueueInv, Connect
    <2>1. NetTypes'
      BY <1>1 DEF IInv, TypeOK, NetTypes, Connect
    <2>2. MainTypes'
      BY <1>1 DEF IInv, TypeOK, MainTypes, Connect
    <2>3. RecvTypes'
      BY <1>1 DEF IInv, TypeOK, RecvTypes, Label, Idle, Connect
    <2>4. RoundInv'
      BY <2>h, <1>1 DEF IInv, RoundInv, Connect, fileVars
    <2>5. HeaderInv'
      BY <2>h, <1>1 DEF IInv, HeaderInv, Connect, fileVars
    <2>6. EarlyInv'
      BY <1>1 DEF IInv, EarlyInv, Connect, fileVars
    <2>7. WireInv'
      BY <1>1 DEF IInv, WireInv, Connect
    <2>8. QueueInv'
      BY <1>1 DEF IInv, TypeOK, QueueInv, NetTypes, RecvTypes, Connect, Conn
    <2>9. NoStrandedConnection'
      BY <1>1 DEF NoStrandedConnection, Connect
    <2>10. LossOnlyIfEarly'
      BY <1>1 DEF IInv, LossOnlyIfEarly, Connect
    <2> QED
      BY <1>1, <2>1, <2>2, <2>3, <2>4, <2>5, <2>6, <2>7, <2>8, <2>9, <2>10, Frame DEF IInv,
            TypeOK, Connect, fileVars
  <1>2. ASSUME NEW c \in Conn, Send(c)
        PROVE  IInv'
    <2>1. NetTypes'
      BY <1>2 DEF IInv, TypeOK, NetTypes, Send
    <2>2. Counts'
      BY <1>2 DEF IInv, TypeOK, Counts, NetTypes, Send, fileVars
    <2>3. WireInv'
      BY <1>2, ServerAssumption DEF IInv, TypeOK, WireInv, NetTypes, Send, Total
    <2> QED
      BY <1>2, <2>1, <2>2, <2>3, Frame DEF IInv, TypeOK, Send, mainVars, fileVars
  <1>3. ASSUME NEW c \in Conn, Close(c)
        PROVE  IInv'
    <2>1. NetTypes'
      BY <1>3 DEF IInv, TypeOK, NetTypes, Close
    <2>2. WireInv'
      BY <1>3 DEF IInv, WireInv, Close, Total
    <2>3. QueueInv'
      BY <1>3 DEF IInv, QueueInv, Close, mainVars
    <2>4. LossOnlyIfEarly'
      BY <1>3 DEF IInv, LossOnlyIfEarly, Close
    <2> QED
      BY <1>3, <2>1, <2>2, <2>3, <2>4, Frame DEF IInv, TypeOK, Close, mainVars, fileVars
  <1>4. ASSUME NEW c \in Conn, Reset(c)
        PROVE  IInv'
    <2>1. NetTypes'
      BY <1>4 DEF IInv, TypeOK, NetTypes, Reset
    <2>2. WireInv'
      BY <1>4 DEF IInv, WireInv, Reset
    <2>3. QueueInv'
      BY <1>4 DEF IInv, QueueInv, Reset, mainVars
    <2>4. LossOnlyIfEarly'
      BY <1>4 DEF IInv, LossOnlyIfEarly, Reset
    <2> QED
      BY <1>4, <2>1, <2>2, <2>3, <2>4, Frame DEF IInv, TypeOK, Reset, mainVars, fileVars
  <1>5. ASSUME NEW c \in Conn, EpollFails(c)
        PROVE  IInv'
    <2>1. RecvTypes'
      BY <1>5 DEF IInv, TypeOK, RecvTypes, Label, Idle, Returned, EpollFails
    <2>2. RoundInv'
      BY <1>5 DEF IInv, RoundInv, EpollFails, At, fileVars
    <2>3. HeaderInv'
      BY <1>5 DEF IInv, HeaderInv, EpollFails, At, fileVars
    <2>4. EarlyInv'
      BY <1>5 DEF IInv, EarlyInv, EpollFails, fileVars
    <2>5. WireInv'
      BY <1>5 DEF IInv, WireInv, EpollFails, netVars
    <2>6. QueueInv'
      BY <1>5 DEF IInv, QueueInv, RecvTypes, EpollFails, At, netVars, mainVars, supVars
    <2>7. LossOnlyIfEarly'
      BY <1>5 DEF IInv, LossOnlyIfEarly, EpollFails, netVars
    <2> QED
      BY <1>5, <2>1, <2>2, <2>3, <2>4, <2>5, <2>6, <2>7, Frame DEF IInv, TypeOK, EpollFails,
            netVars, mainVars, fileVars
  <1>6. ASSUME NEW c \in Conn, FirstRound(c)
        PROVE  IInv'
    <2>1. NetTypes'
      BY <1>6 DEF IInv, TypeOK, NetTypes, FirstRound
    <2>2. RecvTypes'
      BY <1>6 DEF IInv, TypeOK, RecvTypes, Label, FirstRound
    <2>3. SupTypes'
      BY <1>6 DEF IInv, TypeOK, SupTypes, FirstRound, supVars, Conn
    <2>4. RoundInv'
      BY <1>6 DEF IInv, RoundInv, FirstRound, Wakes, At, fileVars
    <2>5. HeaderInv'
      BY <1>6 DEF IInv, HeaderInv, FirstRound, Wakes, At, fileVars
    <2>6. EarlyInv'
      BY <1>6, ServerAssumption DEF IInv, EarlyInv, FirstRound, fileVars
    <2>7. WireInv'
      BY <1>6 DEF IInv, WireInv, FirstRound
    <2>8. QueueInv'
      BY <1>6 DEF IInv, QueueInv, RecvTypes, FirstRound, Wakes, At, mainVars, supVars
    <2>9. LossOnlyIfEarly'
      BY <1>6 DEF IInv, LossOnlyIfEarly, FirstRound
    <2> QED
      BY <1>6, <2>1, <2>2, <2>3, <2>4, <2>5, <2>6, <2>7, <2>8, <2>9, Frame DEF IInv, TypeOK,
            FirstRound, mainVars, fileVars
  <1>7. ASSUME NEW c \in Conn, Shrink(c)
        PROVE  IInv'
    <2>1. FileTypes'
      BY <1>7 DEF IInv, TypeOK, FileTypes, Shrink
    <2>2. RecvTypes'
      BY <1>7 DEF IInv, TypeOK, RecvTypes, Label, Shrink
    <2>3. RoundInv'
      BY <1>7 DEF IInv, RoundInv, Shrink, At
    <2>4. HeaderInv'
      BY <1>7 DEF IInv, HeaderInv, Shrink, At
    <2>5. EarlyInv'
      BY <1>7 DEF IInv, EarlyInv, Shrink, At
    <2>6. WireInv'
      BY <1>7 DEF IInv, WireInv, Shrink, netVars
    <2>7. QueueInv'
      BY <1>7 DEF IInv, QueueInv, Shrink, At, netVars, mainVars, supVars
    <2>8. LossOnlyIfEarly'
      BY <1>7 DEF IInv, LossOnlyIfEarly, Shrink, netVars
    <2> QED
      BY <1>7, <2>1, <2>2, <2>3, <2>4, <2>5, <2>6, <2>7, <2>8, Frame DEF IInv, TypeOK, Shrink,
            netVars, mainVars
  <1>8. ASSUME NEW c \in Conn, Alloc(c)
        PROVE  IInv'
    <2>1. RecvTypes'
      BY <1>8, ServerAssumption DEF IInv, TypeOK, RecvTypes, FileTypes, Label, RecvLocals, Alloc
    <2>2. Counts'
      BY <1>8 DEF IInv, TypeOK, Counts, Alloc, netVars, fileVars
    <2>3. RoundInv'
      BY <1>8 DEF IInv, RoundInv, Alloc, At, fileVars
    <2>4. HeaderInv'
      BY <1>8 DEF IInv, HeaderInv, Alloc, At, fileVars
    <2>5. EarlyInv'
      BY <1>8 DEF IInv, EarlyInv, Alloc, At, fileVars
    <2>6. WireInv'
      BY <1>8 DEF IInv, WireInv, Alloc, netVars
    <2>7. QueueInv'
      BY <1>8 DEF IInv, QueueInv, Alloc, At, netVars, mainVars, Conn
    <2>8. LossOnlyIfEarly'
      BY <1>8 DEF IInv, LossOnlyIfEarly, Alloc, netVars
    <2> QED
      BY <1>8, <2>1, <2>2, <2>3, <2>4, <2>5, <2>6, <2>7, <2>8, Frame DEF IInv, TypeOK, Alloc,
            mainVars
  <1>9. ASSUME NEW c \in Conn, Size(c)
        PROVE  IInv'
    <2>1. RecvTypes'
      BY <1>9, ServerAssumption DEF IInv, TypeOK, RecvTypes, FileTypes, Label, RecvLocals,
            Returned, Size
    <2>2. Counts'
      BY <1>9 DEF IInv, TypeOK, Counts, Size, netVars, fileVars
    <2>3. RoundInv'
      BY <1>9, ServerAssumption DEF IInv, TypeOK, RecvTypes, RoundInv, FileTypes, Size, At,
            fileVars
    <2>4. HeaderInv'
      BY <1>9 DEF IInv, HeaderInv, Size, At, fileVars
    <2>5. EarlyInv'
      BY <1>9 DEF IInv, EarlyInv, Size, At, fileVars
    <2>6. WireInv'
      BY <1>9 DEF IInv, WireInv, Size, netVars
    <2>7. QueueInv'
      BY <1>9 DEF IInv, QueueInv, Size, At, netVars, mainVars, Conn
    <2>8. LossOnlyIfEarly'
      BY <1>9 DEF IInv, LossOnlyIfEarly, Size, netVars
    <2> QED
      BY <1>9, <2>1, <2>2, <2>3, <2>4, <2>5, <2>6, <2>7, <2>8, Frame DEF IInv, TypeOK, Size,
            mainVars
  <1>10. ASSUME NEW c \in Conn, LaterRound(c)
        PROVE  IInv'
    <2>1. NetTypes'
      BY <1>10 DEF IInv, TypeOK, NetTypes, LaterRound
    <2>2. RecvTypes'
      BY <1>10, ServerAssumption DEF IInv, TypeOK, RecvTypes, FileTypes, NetTypes, Label,
            RecvLocals, RoundInv, Counts, WireInv, LaterRound, Wakes, At, Missing, Conn, Total
    <2>3. Counts'
      BY <1>10 DEF IInv, TypeOK, Counts, LaterRound, fileVars
    <2>4. RoundInv'
      BY <1>10, ServerAssumption DEF IInv, TypeOK, NetTypes, RecvTypes, RecvLocals, RoundInv,
            FileTypes, Counts, WireInv, LaterRound, Wakes, At, Missing, fileVars, Total
    <2>5. HeaderInv'
      BY <1>10 DEF IInv, HeaderInv, LaterRound, Wakes, At, fileVars
    <2>6. EarlyInv'
      BY <1>10 DEF IInv, EarlyInv, LaterRound, fileVars
    <2>7. WireInv'
      BY <1>10 DEF IInv, WireInv, LaterRound
    <2>8. QueueInv'
      BY <1>10 DEF IInv, QueueInv, LaterRound, Wakes, At, mainVars, Conn
    <2>9. LossOnlyIfEarly'
      BY <1>10 DEF IInv, LossOnlyIfEarly, LaterRound
    <2> QED
      BY <1>10, <2>1, <2>2, <2>3, <2>4, <2>5, <2>6, <2>7, <2>8, <2>9, Frame DEF IInv, TypeOK,
            LaterRound, mainVars
  <1>11. ASSUME NEW c \in Conn, ReadData(c)
        PROVE  IInv'
    <2>1. NetTypes'
      BY <1>11 DEF IInv, TypeOK, NetTypes, Counts, RecvTypes, RecvLocals, ReadData, Avail
    <2>2. RecvTypes'
      BY <1>11 DEF IInv, TypeOK, RecvTypes, NetTypes, Label, RecvLocals, ReadData, AfterRead,
            Avail, Conn
    <2>3. SupTypes'
      BY <1>11 DEF IInv, TypeOK, SupTypes, ReadData, supVars
    <2>4. Counts'
      BY <1>11 DEF IInv, TypeOK, Counts, NetTypes, RecvTypes, RecvLocals, ReadData, Avail,
            fileVars
    <2>5. RoundInv'
      BY <1>11 DEF IInv, TypeOK, NetTypes, RecvTypes, RecvLocals, RoundInv, ReadData, At,
            AfterRead, Avail, fileVars
    <2>6. HeaderInv'
      BY <1>11 DEF IInv, HeaderInv, ReadData, At, AfterRead, fileVars
    <2>7. EarlyInv'
      BY <1>11 DEF IInv, EarlyInv, ReadData, At, AfterRead, fileVars
    <2>8. WireInv'
      BY <1>11 DEF IInv, WireInv, ReadData, AfterRead
    <2>9. QueueInv'
      BY <1>11 DEF IInv, QueueInv, ReadData, At, AfterRead, mainVars, Conn
    <2>10. LossOnlyIfEarly'
      BY <1>11 DEF IInv, LossOnlyIfEarly, ReadData, AfterRead
    <2> QED
      BY <1>11, <2>1, <2>2, <2>3, <2>4, <2>5, <2>6, <2>7, <2>8, <2>9, <2>10, Frame DEF IInv,
            TypeOK, ReadData, mainVars
  <1>12. ASSUME NEW c \in Conn, ReadNothing(c)
        PROVE  IInv'
    <2>1. RecvTypes'
      BY <1>12 DEF IInv, TypeOK, RecvTypes, Label, ReadNothing, AfterRead
    <2>2. RoundInv'
      BY <1>12 DEF IInv, RoundInv, ReadNothing, At, AfterRead, fileVars
    <2>3. HeaderInv'
      BY <1>12 DEF IInv, HeaderInv, ReadNothing, At, AfterRead, fileVars
    <2>4. EarlyInv'
      BY <1>12 DEF IInv, EarlyInv, ReadNothing, At, AfterRead, fileVars
    <2>5. WireInv'
      BY <1>12 DEF IInv, WireInv, ReadNothing, AfterRead, netVars
    <2>6. QueueInv'
      BY <1>12 DEF IInv, QueueInv, NetTypes, MainTypes, ReadNothing, At, AfterRead, netVars,
            mainVars, Conn
    <2>7. LossOnlyIfEarly'
      BY <1>12 DEF IInv, LossOnlyIfEarly, ReadNothing, AfterRead, netVars
    <2> QED
      BY <1>12, <2>1, <2>2, <2>3, <2>4, <2>5, <2>6, <2>7, Frame DEF IInv, TypeOK, ReadNothing,
            netVars, mainVars, fileVars
  <1>13. ASSUME NEW c \in Conn, ReadError(c)
        PROVE  IInv'
    <2>1. RecvTypes'
      BY <1>13 DEF IInv, TypeOK, RecvTypes, Label, Idle, Returned, ReadError
    <2>2. SupTypes'
      BY <1>13 DEF IInv, TypeOK, SupTypes, ReadError, supVars
    <2>3. RoundInv'
      BY <1>13 DEF IInv, RoundInv, ReadError, At, fileVars
    <2>4. HeaderInv'
      BY <1>13 DEF IInv, HeaderInv, ReadError, At, fileVars
    <2>5. EarlyInv'
      BY <1>13 DEF IInv, EarlyInv, ReadError, fileVars
    <2>6. WireInv'
      BY <1>13 DEF IInv, WireInv, ReadError, netVars
    <2>7. QueueInv'
      BY <1>13 DEF IInv, QueueInv, RecvTypes, ReadError, At, netVars, mainVars, supVars
    <2>8. LossOnlyIfEarly'
      BY <1>13 DEF IInv, LossOnlyIfEarly, ReadError, netVars
    <2> QED
      BY <1>13, <2>1, <2>2, <2>3, <2>4, <2>5, <2>6, <2>7, <2>8, Frame DEF IInv, TypeOK,
            ReadError, netVars, mainVars, fileVars
  <1>14. ASSUME NEW c \in Conn, ParseHeader(c)
        PROVE  IInv'
    <2>1. RecvTypes'
      BY <1>14 DEF IInv, TypeOK, RecvTypes, Label, Idle, Returned, ParseHeader
    <2>2. RoundInv'
      BY <1>14 DEF IInv, RoundInv, ParseHeader, At, fileVars
    <2>3. HeaderInv'
      BY <1>14, ServerAssumption DEF IInv, HeaderInv, ParseHeader, At, fileVars
    <2>4. EarlyInv'
      BY <1>14 DEF IInv, EarlyInv, ParseHeader, HeaderUnknown
    <2>5. WireInv'
      <3>1. UNCHANGED <<sender, peer, sent>>
        BY <1>14 DEF ParseHeader, netVars
      <3>2. ASSUME pc'[Header] \in {"num", "split", "max", "map"}
            PROVE  sent[Header] = 1
        <4>1. Header \in Conn
          BY DEF Conn
        <4>2. pc[Header] \in {"num", "split", "max", "map"} \/ (c = Header /\ r[Header].got > 0)
          BY <1>14, <3>2, <4>1 DEF ParseHeader, IInv, TypeOK, RecvTypes
        <4>3. /\ sent[Header] \in Nat /\ taken[Header] \in Nat
              /\ r[Header].off \in Nat /\ r[Header].got \in Nat
          BY <4>1 DEF IInv, TypeOK, NetTypes, RecvTypes, RecvLocals
        <4>4. taken[Header] <= sent[Header] /\ r[Header].off + r[Header].got <= taken[Header]
          BY <4>1 DEF IInv, TypeOK, Counts
        <4>5. sent[Header] <= 1
          BY <4>1 DEF IInv, WireInv, Total
        <4>6. pc[Header] \in {"num", "split", "max", "map"} => sent[Header] = 1
          BY DEF IInv, WireInv
        <4> QED
          BY <4>2, <4>3, <4>4, <4>5, <4>6
      <3> QED
        BY <3>1, <3>2 DEF IInv, WireInv
    <2>6. QueueInv'
      BY <1>14 DEF IInv, QueueInv, NetTypes, MainTypes, ParseHeader, At, netVars, mainVars
    <2>7. LossOnlyIfEarly'
      BY <1>14 DEF IInv, LossOnlyIfEarly, EarlyInv, ParseHeader, At, HeaderUnknown, netVars
    <2> QED
      BY <1>14, <2>1, <2>2, <2>3, <2>4, <2>5, <2>6, <2>7, Frame DEF IInv, TypeOK, ParseHeader,
            netVars, mainVars, fileVars
  <1>15. ASSUME NEW c \in Conn, SetSlicesNum(c)
        PROVE  IInv'
    <2>1. FileTypes'
      BY <1>15 DEF IInv, TypeOK, FileTypes, SetSlicesNum
    <2>2. RecvTypes'
      BY <1>15 DEF IInv, TypeOK, RecvTypes, Label, SetSlicesNum
    <2>3. RoundInv'
      BY <1>15 DEF IInv, RoundInv, SetSlicesNum, At
    <2>4. HeaderInv'
      BY <1>15 DEF IInv, HeaderInv, SetSlicesNum, At
    <2>5. EarlyInv'
      BY <1>15 DEF IInv, EarlyInv, SetSlicesNum
    <2>6. WireInv'
      BY <1>15 DEF IInv, WireInv, SetSlicesNum, At, netVars
    <2>7. QueueInv'
      BY <1>15 DEF IInv, QueueInv, MainTypes, SetSlicesNum, At, netVars, mainVars, supVars
    <2>8. LossOnlyIfEarly'
      BY <1>15 DEF IInv, LossOnlyIfEarly, SetSlicesNum, netVars
    <2> QED
      BY <1>15, <2>1, <2>2, <2>3, <2>4, <2>5, <2>6, <2>7, <2>8, Frame DEF IInv, TypeOK,
            SetSlicesNum, netVars, mainVars
  <1>16. ASSUME NEW c \in Conn, SetSplitLen(c)
        PROVE  IInv'
    <2>1. FileTypes'
      BY <1>16 DEF IInv, TypeOK, FileTypes, SetSplitLen
    <2>2. RecvTypes'
      BY <1>16 DEF IInv, TypeOK, RecvTypes, Label, SetSplitLen
    <2>3. RoundInv'
      BY <1>16 DEF IInv, RoundInv, SetSplitLen, At
    <2>4. HeaderInv'
      BY <1>16 DEF IInv, TypeOK, HeaderInv, RecvTypes, SetSplitLen, At, Conn
    <2>5. EarlyInv'
      BY <1>16 DEF IInv, EarlyInv, SetSplitLen
    <2>6. WireInv'
      BY <1>16 DEF IInv, WireInv, SetSplitLen, At, netVars
    <2>7. QueueInv'
      BY <1>16 DEF IInv, QueueInv, NetTypes, MainTypes, SetSplitLen, At, netVars, mainVars,
            supVars
    <2>8. LossOnlyIfEarly'
      BY <1>16 DEF IInv, LossOnlyIfEarly, SetSplitLen, netVars
    <2> QED
      BY <1>16, <2>1, <2>2, <2>3, <2>4, <2>5, <2>6, <2>7, <2>8, Frame DEF IInv, TypeOK,
            SetSplitLen, netVars, mainVars
  <1>17. ASSUME NEW c \in Conn, SetReadsMax(c)
        PROVE  IInv'
    <2>1. FileTypes'
      BY <1>17 DEF IInv, TypeOK, FileTypes, SetReadsMax
    <2>2. RecvTypes'
      BY <1>17 DEF IInv, TypeOK, RecvTypes, Label, SetReadsMax
    <2>3. RoundInv'
      BY <1>17 DEF IInv, RoundInv, SetReadsMax, At
    <2>4. HeaderInv'
      BY <1>17 DEF IInv, HeaderInv, SetReadsMax, At
    <2>5. EarlyInv'
      BY <1>17 DEF IInv, EarlyInv, SetReadsMax
    <2>6. WireInv'
      BY <1>17 DEF IInv, WireInv, SetReadsMax, At, netVars
    <2>7. QueueInv'
      BY <1>17 DEF IInv, QueueInv, MainTypes, SetReadsMax, At, Alive, netVars, mainVars, supVars
    <2>8. LossOnlyIfEarly'
      BY <1>17 DEF IInv, LossOnlyIfEarly, SetReadsMax, netVars
    <2> QED
      BY <1>17, <2>1, <2>2, <2>3, <2>4, <2>5, <2>6, <2>7, <2>8, Frame DEF IInv, TypeOK,
            SetReadsMax, netVars, mainVars
  <1>18. ASSUME NEW c \in Conn, MapFile(c)
        PROVE  IInv'
    <2>1. NetTypes'
      BY <1>18 DEF IInv, TypeOK, NetTypes, MapFile, CloseSocket
    <2>2. FileTypes'
      BY <1>18 DEF IInv, TypeOK, FileTypes, MapFile
    <2>3. RecvTypes'
      BY <1>18 DEF IInv, TypeOK, RecvTypes, Label, Idle, Returned, MapFile
    <2>4. RoundInv'
      BY <1>18 DEF IInv, RoundInv, MapFile, At
    <2>5. HeaderInv'
      BY <1>18 DEF IInv, HeaderInv, MapFile, At, Conn
    <2>6. EarlyInv'
      BY <1>18 DEF EarlyInv, MapFile
    <2>7. WireInv'
      BY <1>18 DEF IInv, WireInv, MapFile, At, CloseSocket
    <2>8. QueueInv'
      BY <1>18 DEF IInv, TypeOK, QueueInv, MapFile, At, CloseSocket, mainVars, supVars
    <2>9. LossOnlyIfEarly'
      BY <1>18 DEF IInv, TypeOK, LossOnlyIfEarly, RecvTypes, MapFile, CloseSocket
    <2> QED
      BY <1>18, <2>1, <2>2, <2>3, <2>4, <2>5, <2>6, <2>7, <2>8, <2>9, Frame DEF IInv, TypeOK,
            MapFile, mainVars
  <1>19. ASSUME NEW c \in Conn, Unmarshal(c)
        PROVE  IInv'
    <2>1. RecvTypes'
      <3> DEFINE locals == [r[c] EXCEPT !.first = FALSE, !.cap = 0, !.buf = start_]
      <3>1. r[c] \in RecvLocals /\ start_ \in {"null", "mapped", "failed", "unmapped"}
        BY DEF IInv, TypeOK, RecvTypes, FileTypes
      <3>2. locals \in RecvLocals
        BY <3>1 DEF RecvLocals
      <3>3. r' = [r EXCEPT ![c] = locals] /\ pc' = [pc EXCEPT ![c] = "insert"]
        BY <1>19 DEF Unmarshal
      <3> QED
        BY <3>2, <3>3 DEF IInv, TypeOK, RecvTypes, Label
    <2>2. SupTypes'
      BY <1>19 DEF IInv, TypeOK, SupTypes, Unmarshal, supVars
    <2>3. Counts'
      BY <1>19 DEF IInv, TypeOK, Counts, RecvTypes, FileTypes, Unmarshal, netVars, fileVars,
            Conn
    <2>4. RoundInv'
      BY <1>19 DEF IInv, TypeOK, RecvTypes, RecvLocals, RoundInv, HeaderInv, Unmarshal, At,
            HeaderUnknown, Alive, fileVars
    <2>5. HeaderInv'
      BY <1>19 DEF IInv, HeaderInv, Unmarshal, At, HeaderUnknown
    <2>6. EarlyInv'
      BY <1>19 DEF IInv, TypeOK, EarlyInv, RecvTypes, Unmarshal, At, fileVars, Conn
    <2>7. WireInv'
      BY <1>19 DEF IInv, WireInv, Unmarshal, netVars
    <2>8. QueueInv'
      BY <1>19 DEF IInv, QueueInv, Unmarshal, At, netVars, mainVars, Conn
    <2>9. LossOnlyIfEarly'
      BY <1>19 DEF IInv, TypeOK, LossOnlyIfEarly, RecvTypes, Unmarshal, netVars, Conn
    <2> QED
      BY <1>19, <2>1, <2>2, <2>3, <2>4, <2>5, <2>6, <2>7, <2>8, <2>9, Frame DEF IInv, TypeOK,
            Unmarshal, mainVars
  <1>20. ASSUME NEW c \in Conn, Insert(c)
        PROVE  IInv'
    <2>1. FileTypes'
      BY <1>20 DEF IInv, TypeOK, FileTypes, RoundInv, Insert, At, Conn
    <2>2. RecvTypes'
      BY <1>20 DEF IInv, TypeOK, RecvTypes, Label, RecvLocals, RoundInv, Insert, At, Conn
    <2>3. Counts'
      BY <1>20 DEF IInv, TypeOK, Counts, NetTypes, RecvTypes, RecvLocals, FileTypes, Insert,
            netVars, Conn
    <2>4. RoundInv'
      BY <1>20 DEF IInv, TypeOK, RecvTypes, RoundInv, Insert, At
    <2>5. HeaderInv'
      BY <1>20 DEF IInv, HeaderInv, Insert, At
    <2>6. EarlyInv'
      BY <1>20 DEF IInv, TypeOK, EarlyInv, RecvTypes, Insert, Conn
    <2>7. WireInv'
      BY <1>20 DEF IInv, WireInv, Insert, netVars
    <2>8. QueueInv'
      BY <1>20 DEF IInv, QueueInv, Insert, At, netVars, mainVars, Conn
    <2>9. LossOnlyIfEarly'
      BY <1>20 DEF IInv, TypeOK, LossOnlyIfEarly, RecvTypes, Insert, netVars, Conn
    <2> QED
      BY <1>20, <2>1, <2>2, <2>3, <2>4, <2>5, <2>6, <2>7, <2>8, <2>9, Frame DEF IInv, TypeOK,
            Insert, mainVars
  <1>21. ASSUME NEW c \in Conn, Account(c)
        PROVE  IInv'
    <2> DEFINE off == r[c].off + r[c].got
    <2>a. /\ pc[c] = "account" /\ Alive
          /\ r' = [r EXCEPT ![c].off = off, ![c].got = 0, ![c].left = 0]
          /\ UNCHANGED <<sender, sent, taken, split_len_, start_, mmap_, backlog, tasks_, early>>
      BY <1>21 DEF Account, At, mainVars, fileVars
    <2>b. off \in Nat /\ off <= CLen
      BY <2>a, ServerAssumption DEF IInv, TypeOK, Counts, RoundInv, WireInv, Total, NetTypes,
            RecvTypes, RecvLocals
    <2>c. off < CLen => pc' = [pc EXCEPT ![c] = "wait"] /\ UNCHANGED peer
      BY <1>21, <2>b DEF Account, AfterAccount
    <2>d. off = CLen => /\ \/ pc' = [pc EXCEPT ![c] = "done"]
                           \/ Faults /\ pc' = [pc EXCEPT ![c] = "failed"]
                        /\ peer' = [peer EXCEPT ![c] = "closed"]
      <3>1. PICK result \in AfterAccount(off) : pc' = [pc EXCEPT ![c] = result]
        BY <1>21 DEF Account
      <3>2. off = CLen => peer' = [peer EXCEPT ![c] = "closed"]
        BY <1>21 DEF Account, CloseSocket
      <3>3. off = CLen => result = "done" \/ (Faults /\ result = "failed")
        BY <2>b DEF AfterAccount
      <3> QED
        BY <3>1, <3>2, <3>3
    <2>1. NetTypes'
      BY <1>21 DEF IInv, TypeOK, NetTypes, Account, CloseSocket
    <2>2. RecvTypes'
      BY <2>a, <2>b, <2>c, <2>d, ServerAssumption DEF IInv, TypeOK, RecvTypes, Label,
            RecvLocals, Idle, Returned, Conn
    <2>3. SupTypes'
      <3>1. Dest(c) \in {"none", "null", "mapped", "failed", "unmapped"}
        BY DEF Dest, IInv, TypeOK, FileTypes, RecvTypes, RecvLocals
      <3>2. ub' \in {ub, Dest(c)} /\ UNCHANGED <<supVars, early>>
        BY <1>21 DEF Account
      <3>3. ub' \in {"none", "vector", "heap", "free", "short", "map", "freed", "munmapped",
                     "null", "failed", "unmapped", "exit", "sigpipe"}
        <4>1. ub' = ub \/ ub' = "mapped" \/ ub' \in {"none", "null", "failed", "unmapped"}
          BY <3>1, <3>2
        <4>2. ub' # "mapped"
          BY <1>21 DEF Account, At, Alive
        <4> QED
          BY <4>1, <4>2 DEF IInv, TypeOK, SupTypes
      <3> QED
        BY <3>2, <3>3 DEF IInv, TypeOK, SupTypes, supVars
    <2>4. Counts'
      <3>1. \A d \in Conn : r'[d].off + r'[d].got = r[d].off + r[d].got
        BY <2>a, <2>b DEF IInv, TypeOK, RecvTypes, RecvLocals
      <3>2. mmap_ \subseteq Conn
        BY DEF IInv, TypeOK, FileTypes, Conn
      <3> QED
        BY <2>a, <3>1, <3>2 DEF IInv, TypeOK, Counts
    <2>5. RoundInv'
      <3>1. ASSUME NEW d \in Conn, d # c
            PROVE  r'[d] = r[d] /\ pc'[d] = pc[d]
        <4>1. r'[d] = r[d]
          BY <2>a, <3>1 DEF IInv, TypeOK, RecvTypes
        <4>2. \E result : pc' = [pc EXCEPT ![c] = result]
          BY <2>b, <2>c, <2>d, ServerAssumption
        <4>3. pc'[d] = pc[d]
          BY <3>1, <4>2 DEF IInv, TypeOK, RecvTypes
        <4> QED
          BY <4>1, <4>3
      <3>2. r'[c].got = 0 /\ r'[c].first = r[c].first
        BY <2>a DEF IInv, TypeOK, RecvTypes, RecvLocals
      <3>3. pc'[c] \in {"wait", "done", "failed"}
        BY <2>b, <2>c, <2>d, ServerAssumption DEF IInv, TypeOK, RecvTypes
      <3>4. ~r[c].first /\ c # Header /\ c \in mmap_
        BY <2>a DEF IInv, RoundInv
      <3>5. UNCHANGED mmap_ /\ Alive
        BY <2>a
      <3> QED
        BY <3>1, <3>2, <3>3, <3>4, <3>5 DEF IInv, RoundInv
    <2>6. HeaderInv'
      BY <2>a, <2>b, <2>c, <2>d, ServerAssumption DEF IInv, TypeOK, HeaderInv, RecvTypes, Conn
    <2>7. EarlyInv'
      BY <2>a, <2>b, <2>c, <2>d, ServerAssumption DEF IInv, TypeOK, EarlyInv, RecvTypes, Conn
    <2>8. WireInv'
      BY <2>a, <2>b, <2>c, <2>d, ServerAssumption DEF IInv, TypeOK, WireInv, NetTypes,
            RecvTypes, RoundInv, Conn
    <2>9. QueueInv'
      <3>1. peer[c] # "none" /\ peer'[c] # "none"
        <4>1. peer[c] # "none"
          BY <2>a DEF IInv, QueueInv
        <4>2. off < CLen \/ off = CLen
          BY <2>b, ServerAssumption
        <4> QED
          BY <4>1, <4>2, <2>c, <2>d DEF IInv, TypeOK, NetTypes
      <3>2. \A d \in Conn \ {c} : peer'[d] = peer[d] /\ pc'[d] = pc[d]
        BY <2>b, <2>c, <2>d, ServerAssumption DEF IInv, TypeOK, NetTypes, RecvTypes
      <3>3. /\ \A i \in 1 .. Len(backlog) : backlog[i] \in Conn \ {c}
            /\ \A i \in 1 .. Len(tasks_) : tasks_[i] \in Conn \ {c}
        BY <2>a DEF IInv, TypeOK, MainTypes, QueueInv
      <3> QED
        BY <2>a, <3>1, <3>2, <3>3 DEF IInv, QueueInv
    <2>10. LossOnlyIfEarly'
      <3>1. r'[c].off = off /\ (off < CLen \/ off = CLen)
        BY <2>a, <2>b, ServerAssumption DEF IInv, TypeOK, RecvTypes
      <3>2. (pc'[c] = "failed" => Faults /\ r'[c].off = CLen) /\ pc'[c] # "gaveup"
        BY <2>c, <2>d, <3>1 DEF IInv, TypeOK, RecvTypes
      <3>3. \A d \in Conn \ {c} : pc'[d] = pc[d] /\ r'[d] = r[d] /\ peer'[d] = peer[d]
        BY <2>a, <2>c, <2>d, <3>1 DEF IInv, TypeOK, RecvTypes, NetTypes
      <3> QED
        BY <2>a, <3>2, <3>3 DEF IInv, LossOnlyIfEarly, Conn
    <2> QED
      BY <1>21, <2>1, <2>2, <2>3, <2>4, <2>5, <2>6, <2>7, <2>8, <2>9, <2>10, Frame DEF IInv,
            TypeOK, Account, mainVars
  <1>22. ASSUME NEW c \in Conn, MapRace(c)
        PROVE  IInv'
    <2>1. SupTypes'
      BY <1>22 DEF IInv, TypeOK, SupTypes, MapRace, supVars
    <2>2. RoundInv'
      BY <1>22 DEF IInv, RoundInv, MapRace, At, fileVars
    <2> QED
      BY <1>22, <2>1, <2>2, Frame DEF IInv, TypeOK, MapRace, netVars, mainVars, fileVars
  <1>23. ASSUME NEW c \in Conn, UseAfterFree(c)
        PROVE  IInv'
    <2>1. SupTypes'
      BY <1>23 DEF IInv, TypeOK, SupTypes, UseAfterFree, supVars
    <2>2. RoundInv'
      BY <1>23 DEF IInv, RoundInv, UseAfterFree, SupAt, fileVars
    <2> QED
      BY <1>23, <2>1, <2>2, Frame DEF IInv, TypeOK, UseAfterFree, netVars, mainVars, fileVars
  <1>24. CASE MainWait
    <2>1. MainTypes'
      BY <1>24 DEF IInv, TypeOK, MainTypes, MainWait
    <2>2. NoStrandedConnection'
      BY <1>24 DEF NoStrandedConnection, MainWait
    <2> QED
      BY <1>24, <2>1, <2>2, Frame DEF IInv, TypeOK, MainWait, netVars, fileVars
  <1>25. CASE Accept
    <2>h. backlog \in Seq(Conn) /\ backlog # <<>>
      BY <1>25 DEF IInv, TypeOK, MainTypes, Accept
    <2> DEFINE h == Head(backlog)
    <2>g. /\ h \in Conn /\ h = backlog[1] /\ Len(backlog) \in Nat \ {0}
          /\ pc[h] = "backlog" /\ pc' = [pc EXCEPT ![h] = "queued"]
      BY <1>25, <2>h DEF Accept, IInv, QueueInv
    <2>1. MainTypes'
      BY <1>25 DEF IInv, TypeOK, MainTypes, Accept
    <2>2. RecvTypes'
      BY <1>25 DEF IInv, TypeOK, RecvTypes, Label, Idle, Accept
    <2>3. RoundInv'
      <3>1. UNCHANGED <<r, mmap_, ub>>
        BY <1>25 DEF Accept, fileVars
      <3>2. \A d \in Conn : d # h => pc'[d] = pc[d]
        BY <2>g
      <3>3. r[h].got = 0 /\ r[h].first
        BY <2>g DEF IInv, RoundInv
      <3>4. pc'[h] = "queued"
        BY <2>g DEF IInv, TypeOK, RecvTypes
      <3> QED
        BY <3>1, <3>2, <3>3, <3>4 DEF IInv, RoundInv, Alive
    <2>4. HeaderInv'
      BY <2>g, <1>25 DEF IInv, HeaderInv, Accept, fileVars
    <2>5. EarlyInv'
      BY <1>25 DEF IInv, EarlyInv, Accept, fileVars
    <2>6. WireInv'
      BY <1>25 DEF IInv, WireInv, Accept, netVars
    <2>7. QueueInv'
      <3>1. /\ Len(backlog') = Len(backlog) - 1
            /\ \A i \in 1 .. Len(backlog') : backlog'[i] = backlog[i + 1]
        BY <1>25, <2>h, QueueFacts DEF Accept
      <3>2. ASSUME NEW i \in 1 .. Len(backlog')
            PROVE  backlog'[i] # h
        <4>1. i + 1 \in 1 .. Len(backlog) /\ 1 \in 1 .. Len(backlog) /\ i + 1 # 1
          BY <2>g, <3>1
        <4>2. backlog[i + 1] # backlog[1]
          BY <4>1 DEF IInv, QueueInv
        <4> QED
          BY <2>g, <3>1, <4>2
      <3>3. /\ tasks_' = Append(tasks_, h) /\ tasks_ \in Seq(Conn)
            /\ \A i \in 1 .. Len(tasks_) : tasks_[i] # h
        <4>1. tasks_' = Append(tasks_, h)
          BY <1>25 DEF Accept
        <4>2. tasks_ \in Seq(Conn)
          BY DEF IInv, TypeOK, MainTypes
        <4>3. \A i \in 1 .. Len(tasks_) : pc[tasks_[i]] = "queued"
          BY DEF IInv, QueueInv
        <4> QED
          BY <2>g, <4>1, <4>2, <4>3
      <3>4. /\ Len(tasks_') = Len(tasks_) + 1
            /\ \A i \in 1 .. Len(tasks_) : tasks_'[i] = tasks_[i]
            /\ tasks_'[Len(tasks_) + 1] = h
        BY <3>3
      <3>5. \A i, j \in 1 .. Len(backlog') : backlog'[i] = backlog'[j] => i = j
        BY <3>1 DEF IInv, QueueInv
      <3>6. \A i \in 1 .. Len(backlog') : pc'[backlog'[i]] = "backlog"
        BY <2>g, <3>1 DEF IInv, QueueInv
      <3>7. Len(tasks_) \in Nat
        OBVIOUS
      <3>8. \A i, j \in 1 .. Len(tasks_') : tasks_'[i] = tasks_'[j] => i = j
        BY <3>3 DEF IInv, QueueInv
      <3>9. \A i \in 1 .. Len(tasks_') : pc'[tasks_'[i]] = "queued"
        BY <2>g, <3>3 DEF IInv, TypeOK, QueueInv, RecvTypes
      <3>10. \A c \in Conn : peer'[c] = "none" => pc'[c] = "none"
        BY <1>25 DEF Accept, netVars, IInv, QueueInv
      <3> QED
        BY <3>5, <3>6, <3>8, <3>9, <3>10 DEF QueueInv
    <2>8. NoStrandedConnection'
      BY <1>25 DEF NoStrandedConnection, Accept
    <2>9. LossOnlyIfEarly'
      BY <1>25 DEF IInv, LossOnlyIfEarly, Accept, netVars
    <2> QED
      BY <1>25, <2>1, <2>2, <2>3, <2>4, <2>5, <2>6, <2>7, <2>8, <2>9, Frame DEF IInv, TypeOK,
            Accept, netVars, fileVars
  <1>26. CASE VectorRace
    <2>1. SupTypes'
      BY <1>26 DEF IInv, TypeOK, SupTypes, VectorRace, supVars
    <2>2. RoundInv'
      BY <1>26 DEF IInv, RoundInv, VectorRace, MainAt, fileVars
    <2> QED
      BY <1>26, <2>1, <2>2, Frame DEF IInv, TypeOK, VectorRace, netVars, mainVars, fileVars
  <1>27. CASE AcceptEnds
    <2>1. MainTypes'
      BY <1>27 DEF IInv, TypeOK, MainTypes, AcceptEnds
    <2>2. NoStrandedConnection'
      BY <1>27 DEF NoStrandedConnection, AcceptEnds
    <2> QED
      BY <1>27, <2>1, <2>2, Frame DEF IInv, TypeOK, AcceptEnds, netVars, fileVars
  <1>28. CASE MainReturns
    <2>1. MainTypes'
      BY <1>28 DEF IInv, TypeOK, MainTypes, MainReturns
    <2>2. SupTypes'
      BY <1>28 DEF IInv, TypeOK, SupTypes, MainReturns, supVars
    <2>3. RoundInv'
      BY <1>28 DEF IInv, RoundInv, MainReturns, MainAt, fileVars
    <2>4. NoStrandedConnection'
      BY <1>28 DEF NoStrandedConnection, MainReturns
    <2> QED
      BY <1>28, <2>1, <2>2, <2>3, <2>4, Frame DEF IInv, TypeOK, MainReturns, netVars, fileVars
  <1>29. CASE CountAndNotify
    <2>1. MainTypes'
      BY <1>29 DEF IInv, TypeOK, MainTypes, CountAndNotify
    <2>2. SupTypes'
      BY <1>29 DEF IInv, TypeOK, SupTypes, Waiting, CountAndNotify
    <2>3. NoStrandedConnection'
      BY <1>29 DEF NoStrandedConnection, CountAndNotify
    <2> QED
      BY <1>29, <2>1, <2>2, <2>3, Frame DEF IInv, TypeOK, CountAndNotify, netVars, fileVars
  <1>30. CASE Start
    <2>h. tasks_ \in Seq(Conn) /\ tasks_ # <<>>
      BY <1>30 DEF IInv, TypeOK, MainTypes, Start
    <2> DEFINE h == Head(tasks_)
    <2>g. /\ h \in Conn /\ h = tasks_[1] /\ Len(tasks_) \in Nat \ {0}
          /\ pc[h] = "queued" /\ pc' = [pc EXCEPT ![h] = "wait"]
      BY <1>30, <2>h DEF Start, IInv, QueueInv
    <2>1. MainTypes'
      BY <1>30 DEF IInv, TypeOK, MainTypes, Start
    <2>2. RecvTypes'
      BY <1>30 DEF IInv, TypeOK, RecvTypes, Label, Start
    <2>3. RoundInv'
      <3>1. UNCHANGED <<r, mmap_, ub>>
        BY <1>30 DEF Start, fileVars
      <3>2. \A d \in Conn : d # h => pc'[d] = pc[d]
        BY <2>g
      <3>3. r[h].got = 0 /\ r[h].first
        BY <2>g DEF IInv, RoundInv
      <3>4. pc'[h] = "wait"
        BY <2>g DEF IInv, TypeOK, RecvTypes
      <3> QED
        BY <3>1, <3>2, <3>3, <3>4 DEF IInv, RoundInv, Alive
    <2>4. HeaderInv'
      BY <2>g, <1>30 DEF IInv, HeaderInv, Start, fileVars
    <2>5. EarlyInv'
      BY <1>30 DEF IInv, EarlyInv, Start, fileVars
    <2>6. WireInv'
      BY <1>30 DEF IInv, WireInv, Start, netVars
    <2>7. QueueInv'
      <3>1. /\ Len(tasks_') = Len(tasks_) - 1
            /\ \A i \in 1 .. Len(tasks_') : tasks_'[i] = tasks_[i + 1]
        BY <1>30, <2>h, QueueFacts DEF Start
      <3>2. \A i \in 1 .. Len(tasks_') : tasks_'[i] # h
        BY <3>1 DEF IInv, QueueInv
      <3>3. backlog' = backlog /\ peer' = peer
        BY <1>30 DEF Start, netVars
      <3>4. \A i \in 1 .. Len(backlog) : backlog[i] # h
        BY <2>g DEF IInv, QueueInv
      <3>5. \A i, j \in 1 .. Len(tasks_') : tasks_'[i] = tasks_'[j] => i = j
        BY <3>1 DEF IInv, QueueInv
      <3>6. \A i \in 1 .. Len(tasks_') : pc'[tasks_'[i]] = "queued"
        BY <2>g, <3>1 DEF IInv, QueueInv
      <3>7. \A i \in 1 .. Len(backlog') : pc'[backlog'[i]] = "backlog"
        BY <2>g, <3>3 DEF IInv, QueueInv
      <3>8. \A c \in Conn : peer'[c] = "none" => pc'[c] = "none"
        BY <2>g, <3>3 DEF IInv, QueueInv
      <3> QED
        BY <3>3, <3>5, <3>6, <3>7, <3>8 DEF IInv, QueueInv
    <2>8. LossOnlyIfEarly'
      BY <1>30 DEF IInv, LossOnlyIfEarly, Start, netVars
    <2> QED
      BY <1>30, <2>1, <2>2, <2>3, <2>4, <2>5, <2>6, <2>7, <2>8, Frame DEF IInv, TypeOK, Start,
            netVars, fileVars
  <1>31. CASE SenderDies
    <2>1. NetTypes'
      BY <1>31 DEF IInv, TypeOK, NetTypes, SenderDies
    <2>2. WireInv'
      BY <1>31 DEF IInv, WireInv, SenderDies
    <2>3. QueueInv'
      BY <1>31 DEF IInv, QueueInv, SenderDies, mainVars
    <2>4. LossOnlyIfEarly'
      BY <1>31 DEF IInv, LossOnlyIfEarly, SenderDies, Conn
    <2> QED
      BY <1>31, <2>1, <2>2, <2>3, <2>4, Frame DEF IInv, TypeOK, SenderDies, mainVars, fileVars
  <1>32. CASE Test
    <2>1. SupTypes'
      BY <1>32 DEF IInv, TypeOK, SupTypes, Waiting, Test
    <2> QED
      BY <1>32, <2>1, Frame DEF IInv, TypeOK, Test, netVars, mainVars, fileVars
  <1>33. CASE Test2
    <2>1. SupTypes'
      BY <1>33 DEF IInv, TypeOK, SupTypes, Waiting, Test2
    <2> QED
      BY <1>33, <2>1, Frame DEF IInv, TypeOK, Test2, netVars, mainVars, fileVars
  <1>34. CASE Block
    <2>1. SupTypes'
      BY <1>34 DEF IInv, TypeOK, SupTypes, Waiting, Block
    <2> QED
      BY <1>34, <2>1, Frame DEF IInv, TypeOK, Block, netVars, mainVars, fileVars
  <1>35. CASE SpuriousWakeup
    <2>1. SupTypes'
      BY <1>35 DEF IInv, TypeOK, SupTypes, Waiting, SpuriousWakeup
    <2> QED
      BY <1>35, <2>1, Frame DEF IInv, TypeOK, SpuriousWakeup, netVars, mainVars, fileVars
  <1>36. CASE ConnectToSender
    <2>1. SupTypes'
      BY <1>36 DEF IInv, TypeOK, SupTypes, Gone, ConnectToSender
    <2> QED
      BY <1>36, <2>1, Frame DEF IInv, TypeOK, ConnectToSender, netVars, mainVars, fileVars
  <1>37. CASE Collect
    <2>1. SupTypes'
      BY <1>37 DEF IInv, TypeOK, SupTypes, Collect
    <2> QED
      BY <1>37, <2>1, Frame DEF IInv, TypeOK, Collect, netVars, mainVars, fileVars
  <1>38. CASE Validate
    <2>1. SupTypes'
      BY <1>38 DEF IInv, TypeOK, SupTypes, Gone, Validate
    <2> QED
      BY <1>38, <2>1, Frame DEF IInv, TypeOK, Validate, netVars, mainVars, fileVars
  <1>39. CASE SigPipe
    <2>1. SupTypes'
      BY <1>39 DEF IInv, TypeOK, SupTypes, SigPipe, supVars
    <2>2. RoundInv'
      BY <1>39 DEF IInv, RoundInv, SigPipe, SupAt, fileVars
    <2> QED
      BY <1>39, <2>1, <2>2, Frame DEF IInv, TypeOK, SigPipe, netVars, mainVars, fileVars
  <1>40. CASE FreeBuffers
    <2>1. SupTypes'
      BY <1>40 DEF IInv, TypeOK, SupTypes, FileTypes, FreeBuffers
    <2>2. RoundInv'
      BY <1>40 DEF IInv, RoundInv, FreeBuffers, SupAt, fileVars
    <2> QED
      BY <1>40, <2>1, <2>2, Frame DEF IInv, TypeOK, FreeBuffers, netVars, mainVars, fileVars
  <1>41. CASE UnmapFile
    <2>1. FileTypes'
      BY <1>41 DEF IInv, TypeOK, FileTypes, UnmapFile
    <2>2. SupTypes'
      BY <1>41 DEF IInv, TypeOK, SupTypes, Gone, UnmapFile
    <2>3. RoundInv'
      BY <1>41 DEF IInv, RoundInv, UnmapFile, SupAt
    <2>4. HeaderInv'
      BY <1>41 DEF IInv, HeaderInv, UnmapFile
    <2>5. EarlyInv'
      BY <1>41 DEF IInv, EarlyInv, UnmapFile
    <2> QED
      BY <1>41, <2>1, <2>2, <2>3, <2>4, <2>5, Frame DEF IInv, TypeOK, UnmapFile, netVars, mainVars
  <1>42. CASE UNCHANGED vars
    BY <1>42, Frame DEF vars, IInv, TypeOK, netVars, mainVars, fileVars
  <1> QED
    BY <1>1, <1>2, <1>3, <1>4, <1>5, <1>6, <1>7, <1>8, <1>9, <1>10, <1>11, <1>12, <1>13, <1>14,
          <1>15, <1>16, <1>17, <1>18, <1>19, <1>20, <1>21, <1>22, <1>23, <1>24, <1>25, <1>26,
          <1>27, <1>28, <1>29, <1>30, <1>31, <1>32, <1>33, <1>34, <1>35, <1>36, <1>37, <1>38,
          <1>39, <1>40, <1>41, <1>42 DEF Next, Transmit, Recv, Run, Supervise, Disturb
-----------------------------------------------------------------------------
(* Under any interleaving of the main thread, the Recvs, the supervisor    *)
(* and the sender, the receiver's variables keep their types, and no Recv  *)
(* accounts for more payload than it has read.                             *)
THEOREM TypeCorrect == Spec => []TypeOK
  <1>1. IInv => TypeOK
    BY DEF IInv
  <1> QED
    BY <1>1, InitIInv, NextIInv, PTL DEF Spec

(* Run's accept() loop and edge triggered epoll: main never sleeps on a    *)
(* connection in the backlog that no event will announce, unless accept()  *)
(* has failed.                                                             *)
THEOREM BacklogServed == Spec => []NoStrandedConnection
  <1>1. IInv => NoStrandedConnection
    BY DEF IInv
  <1> QED
    BY <1>1, InitIInv, NextIInv, PTL DEF Spec

(* Recv returns without its slice only if the slice overtook the file      *)
(* header, its connection was reset, decompression of the whole slice      *)
(* failed, or epoll_ctl() or epoll_wait() did.                             *)
THEOREM LossExplained == Spec => []LossOnlyIfEarly
  <1>1. IInv => LossOnlyIfEarly
    BY DEF IInv
  <1> QED
    BY <1>1, InitIInv, NextIInv, PTL DEF Spec
=============================================================================
