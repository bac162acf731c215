------------------------------- MODULE Server -------------------------------
(***************************************************************************)
(* The receiver, util/recv_flow.h: the main thread accepts connections and *)
(* hands each to a pool thread running Recv; the first carries the file    *)
(* header, the others one compressed slice each; the Supervise thread      *)
(* waits until all connections are there, collects the results of the      *)
(* Recvs, reports to the sender and cleans up.  The threads share plain    *)
(* static variables, so every access to one is a step of its own.          *)
(*                                                                         *)
(* The pool is used as TaskPool promises (ThreadPool implements it).  The  *)
(* sender (util/sending_flow.h) and the kernel's sockets and edge          *)
(* triggered epoll are the environment.                                    *)
(*                                                                         *)
(* Bytes are counted in units: the file header and a slice's 10 byte       *)
(* header are one unit each, both written by one write() to an empty       *)
(* socket; a slice's payload is CLen units.                                *)
(***************************************************************************)
EXTENDS Naturals, Sequences, FiniteSets

CONSTANTS Slice,  \* the connections that carry a slice
          Header, \* the connection that carries the file header
          Jobs,   \* --jobs of the receiver
          CLen,   \* units of payload of a slice (c_len_)
          Small,  \* what a read of kFileSliceHeaderLen + 1 bytes can take
          Big,    \* what a read of 128 KiB (or 6 MiB) can take
          RcvBuf, \* units a socket's receive buffer holds
          Faults  \* may the sender die, connections break, system calls fail?

ASSUME ServerAssumption == /\ IsFiniteSet(Slice) /\ Slice # {} /\ Header \notin Slice
                           /\ Jobs \in Nat \ {0}
                           /\ CLen \in Nat \ {0}
                           /\ Small \in Nat \ {0} /\ Big \in Nat /\ Small < Big
                           /\ RcvBuf \in Nat \ {0}
                           /\ Faults \in BOOLEAN

Conn == Slice \cup {Header}
N    == Cardinality(Slice)
Total(c) == IF c = Header THEN 1 ELSE 1 + CLen

VARIABLES sender,                    \* "up" or "dead"
          peer, sent, taken, edge,   \* per connection: the socket
          backlog, listenEdge,       \* the listening socket
          mpc,                       \* the main thread
          tasks_,                    \* the pool's queue
          slices_th_res_, slices_th_num_,
          slices_num_, split_len_, reads_max_bytes_, start_, mmap_,
          pc, r,                     \* per connection: the Recv and its locals
          sup, some, fn,             \* the supervisor and its locals
          freed,                     \* slices whose c_buf_ it has freed
          ub,                        \* what has ended the receiver, if anything
          early, torn                \* history, see the properties

netVars  == <<sender, peer, sent, taken, edge>>
mainVars == <<backlog, listenEdge, mpc, tasks_, slices_th_res_, slices_th_num_>>
fileVars == <<slices_num_, split_len_, reads_max_bytes_, start_, mmap_>>
supVars  == <<sup, some, fn, freed, torn>>
vars == <<netVars, mainVars, fileVars, pc, r, supVars, ub, early>>

Avail(c) == sent[c] - taken[c]

(* A Recv's locals: is_first_recv, the size of read_buf, n_left, read_index, *)
(* the slice's offset_ and buf_.                                           *)
NewRecv == [first |-> TRUE, cap |-> 0, left |-> 0, got |-> 0, off |-> 0, buf |-> "none"]

(* The receiver ends when undefined behaviour or a signal strikes. *)
Alive == ub = "none"
At(c, label)  == Alive /\ pc[c] = label
MainAt(label) == Alive /\ mpc = label
SupAt(label)  == Alive /\ sup = label

Waiting == {"test", "test2", "gap", "blocked"}
Gone    == {"exited", "threw", "ended"}
Returned == {"done", "failed", "gaveup"}
Idle    == {"none", "backlog", "queued"} \cup Returned

Init == /\ sender = "up"
        /\ peer = [c \in Conn |-> "none"]
        /\ sent = [c \in Conn |-> 0] /\ taken = [c \in Conn |-> 0]
        /\ edge = [c \in Conn |-> FALSE]
        /\ backlog = <<>> /\ listenEdge = FALSE
        /\ mpc = "epoll"
        /\ tasks_ = <<>> /\ slices_th_res_ = <<>> /\ slices_th_num_ = 0
        /\ slices_num_ = 0 /\ split_len_ = 0 /\ reads_max_bytes_ = 0
        /\ start_ = "null" /\ mmap_ = {}
        /\ pc = [c \in Conn |-> "none"] /\ r = [c \in Conn |-> NewRecv]
        /\ sup = "test" /\ some = FALSE /\ fn = 0 /\ freed = {}
        /\ ub = "none" /\ early = {} /\ torn = FALSE
-----------------------------------------------------------------------------
(* The sender and the network.  SendingFlow::Init has closed the header's  *)
(* connection before the first slice is enqueued.                          *)

Connect(c) == /\ Alive
              /\ sender = "up"
              /\ peer[c] = "none"
              /\ c # Header => peer[Header] = "closed"
              /\ peer' = [peer EXCEPT ![c] = "open"]
              /\ pc' = [pc EXCEPT ![c] = "backlog"]
              /\ backlog' = Append(backlog, c)
              /\ listenEdge' = TRUE
              /\ UNCHANGED <<sender, sent, taken, edge, mpc, tasks_, slices_th_res_,
                             slices_th_num_, fileVars, r, supVars, ub, early>>

(* New data is a new event even if older data has not been read. *)
Send(c) == /\ Alive
           /\ peer[c] = "open"
           /\ pc[c] # "failed"
           /\ sent[c] < Total(c)
           /\ Avail(c) < RcvBuf
           /\ sent' = [sent EXCEPT ![c] = @ + 1]
           /\ edge' = [edge EXCEPT ![c] = TRUE]
           /\ UNCHANGED <<sender, peer, taken, mainVars, fileVars, pc, r, supVars, ub, early>>

(* SendFileSizeOnly also closes when its write() had nothing to give. *)
Close(c) == /\ Alive
            /\ peer[c] = "open"
            /\ sent[c] = Total(c) \/ (Faults /\ c = Header)
            /\ peer' = [peer EXCEPT ![c] = "closed"]
            /\ edge' = [edge EXCEPT ![c] = TRUE]
            /\ UNCHANGED <<sender, sent, taken, mainVars, fileVars, pc, r, supVars, ub, early>>

(* Writing to a connection the receiver has given up is a SIGPIPE. *)
SenderDies == /\ Alive
              /\ sender = "up"
              /\ \/ Faults
                 \/ \E c \in Conn : pc[c] = "failed" /\ peer[c] = "open" /\ sent[c] < Total(c)
              /\ sender' = "dead"
              /\ peer' = [c \in Conn |-> IF peer[c] = "open" THEN "closed" ELSE peer[c]]
              /\ edge' = [c \in Conn |-> edge[c] \/ peer[c] = "open"]
              /\ UNCHANGED <<sent, taken, mainVars, fileVars, pc, r, supVars, ub, early>>

Reset(c) == /\ Alive /\ Faults
            /\ c # Header /\ peer[c] = "open"
            /\ peer' = [peer EXCEPT ![c] = "reset"]
            /\ edge' = [edge EXCEPT ![c] = TRUE]
            /\ UNCHANGED <<sender, sent, taken, mainVars, fileVars, pc, r, supVars, ub, early>>
-----------------------------------------------------------------------------
(* Run, the main thread. *)

MainWait == /\ MainAt("epoll")
            /\ listenEdge
            /\ mpc' = "accept"
            /\ listenEdge' = FALSE
            /\ UNCHANGED <<netVars, backlog, tasks_, slices_th_res_, slices_th_num_,
                           fileVars, pc, r, supVars, ub, early>>

(* The future of the new Recv goes to the end of the vector. *)
Accept == /\ MainAt("accept")
          /\ backlog # <<>>
          /\ backlog' = Tail(backlog)
          /\ tasks_' = Append(tasks_, Head(backlog))
          /\ slices_th_res_' = Append(slices_th_res_, Head(backlog))
          /\ pc' = [pc EXCEPT ![Head(backlog)] = "queued"]
          /\ mpc' = "count"
          /\ UNCHANGED <<netVars, listenEdge, slices_th_num_, fileVars, r, supVars, ub, early>>

(* push_back() reallocates the vector under the supervisor's iteration. *)
VectorRace == /\ MainAt("accept")
              /\ backlog # <<>>
              /\ sup = "collect"
              /\ ub' = "vector"
              /\ UNCHANGED <<netVars, mainVars, fileVars, pc, r, supVars, early>>

(* accept() returns -1: EAGAIN, or an error such as EMFILE. *)
AcceptEnds == /\ MainAt("accept")
              /\ backlog = <<>> \/ Faults
              /\ mpc' = "epoll"
              /\ UNCHANGED <<netVars, backlog, listenEdge, tasks_, slices_th_res_,
                             slices_th_num_, fileVars, pc, r, supVars, ub, early>>

(* epoll_wait() fails: Run returns, and the exit of main() destroys the    *)
(* static variables under the pool's threads.                              *)
MainReturns == /\ MainAt("epoll")
               /\ Faults
               /\ mpc' = "returned"
               /\ ub' = "exit"
               /\ UNCHANGED <<netVars, backlog, listenEdge, tasks_, slices_th_res_,
                              slices_th_num_, fileVars, pc, r, supVars, early>>

(* ++slices_th_num_ and then notify_one(), without supervisor_m_: a        *)
(* supervisor that has tested the old count and is in the gap before its   *)
(* sleep does not hear it.                                                 *)
CountAndAcceptNoMore == /\ MainAt("count")
                        /\ slices_th_num_' = slices_th_num_ + 1
                        /\ sup' = IF sup = "blocked" THEN "test" ELSE sup
                        /\ mpc' = "epoll"
                        /\ UNCHANGED <<netVars, backlog, listenEdge, tasks_, slices_th_res_,
                                       fileVars, pc, r, some, fn, freed, torn, ub, early>>
CountAndNotify == /\ MainAt("count")
                  /\ slices_th_num_' = slices_th_num_ + 1
                  /\ sup' = IF sup = "blocked" THEN "test" ELSE sup
                  /\ mpc' = "accept"
                  /\ UNCHANGED <<netVars, backlog, listenEdge, tasks_, slices_th_res_,
                                 fileVars, pc, r, some, fn, freed, torn, ub, early>>
-----------------------------------------------------------------------------
(* The pool starts the Recv at the head of its queue; Supervise occupies   *)
(* one of the Jobs + 1 threads until it returns.                           *)

Busy == Cardinality({c \in Conn : pc[c] \notin Idle}) + (IF sup \in Gone THEN 0 ELSE 1)

StartOneMore == /\ Alive
                /\ tasks_ # <<>>
                /\ Busy <= Jobs + 1
                /\ pc' = [pc EXCEPT ![Head(tasks_)] = "wait"]
                /\ tasks_' = Tail(tasks_)
                /\ UNCHANGED <<netVars, backlog, listenEdge, mpc, slices_th_res_,
                               slices_th_num_, fileVars, r, supVars, ub, early>>
Start == /\ Alive
         /\ tasks_ # <<>>
         /\ Busy < Jobs + 1
         /\ pc' = [pc EXCEPT ![Head(tasks_)] = "wait"]
         /\ tasks_' = Tail(tasks_)
         /\ UNCHANGED <<netVars, backlog, listenEdge, mpc, slices_th_res_,
                        slices_th_num_, fileVars, r, supVars, ub, early>>
-----------------------------------------------------------------------------
(* Recv(c), one round of its loop after the other. *)

(* epoll_wait() returns for a new event on a readable socket. *)
Wakes(c) == /\ At(c, "wait")
            /\ edge[c]
            /\ Avail(c) > 0 \/ peer[c] \in {"closed", "reset"}

(* epoll_ctl() or epoll_wait() fails and Recv returns -1. *)
EpollFails(c) == /\ At(c, "wait")
                 /\ Faults
                 /\ pc' = [pc EXCEPT ![c] = "gaveup"]
                 /\ UNCHANGED <<netVars, mainVars, fileVars, r, supVars, ub, early>>

(* Nobody has parsed the file header yet. *)
HeaderUnknownInverted == split_len_ = 0 \/ start_ # "null"
HeaderUnknown == split_len_ = 0 /\ start_ = "null"

FirstRound(c) == /\ Wakes(c)
                 /\ r[c].first
                 /\ edge' = [edge EXCEPT ![c] = FALSE]
                 /\ pc' = [pc EXCEPT ![c] = IF HeaderUnknown THEN "shrink" ELSE "alloc"]
                 /\ early' = IF c # Header /\ start_ = "null" THEN early \cup {c} ELSE early
                 /\ UNCHANGED <<sender, peer, sent, taken, mainVars, fileVars, r, supVars, ub>>

Shrink(c) == /\ At(c, "shrink")
             /\ reads_max_bytes_' = Small
             /\ pc' = [pc EXCEPT ![c] = "alloc"]
             /\ UNCHANGED <<netVars, mainVars, slices_num_, split_len_, start_, mmap_, r,
                            supVars, ub, early>>

AllocSmall(c) == /\ At(c, "alloc")
                 /\ r' = [r EXCEPT ![c].cap = Small]
                 /\ pc' = [pc EXCEPT ![c] = "size"]
                 /\ UNCHANGED <<netVars, mainVars, fileVars, supVars, ub, early>>
Alloc(c) == /\ At(c, "alloc")
            /\ r' = [r EXCEPT ![c].cap = reads_max_bytes_]
            /\ pc' = [pc EXCEPT ![c] = "size"]
            /\ UNCHANGED <<netVars, mainVars, fileVars, supVars, ub, early>>

SizeSmall(c) == /\ At(c, "size")
                /\ r' = [r EXCEPT ![c].left = Small]
                /\ pc' = [pc EXCEPT ![c] = "read"]
                /\ UNCHANGED <<netVars, mainVars, fileVars, supVars, ub, early>>
Size(c) == /\ At(c, "size")
           /\ r' = [r EXCEPT ![c].left = reads_max_bytes_]
           /\ pc' = [pc EXCEPT ![c] = "read"]
           /\ UNCHANGED <<netVars, mainVars, fileVars, supVars, ub, early>>

(* A later round reads into c_buf_, at most what is missing (reads_max_    *)
(* bytes_ is loaded twice, but no read can exceed what is missing).        *)
Missing(c) == CLen - r[c].off
LaterRoundSmall(c) ==
  /\ Wakes(c)
  /\ ~r[c].first
  /\ edge' = [edge EXCEPT ![c] = FALSE]
  /\ r' = [r EXCEPT ![c].left = IF Missing(c) < Small THEN Missing(c) ELSE Small]
  /\ pc' = [pc EXCEPT ![c] = "read"]
  /\ UNCHANGED <<sender, peer, sent, taken, mainVars, fileVars, supVars, ub, early>>
LaterRound(c) ==
  /\ Wakes(c)
  /\ ~r[c].first
  /\ edge' = [edge EXCEPT ![c] = FALSE]
  /\ r' = [r EXCEPT ![c].left = IF Missing(c) < reads_max_bytes_ THEN Missing(c)
                                                                ELSE reads_max_bytes_]
  /\ pc' = [pc EXCEPT ![c] = "read"]
  /\ UNCHANGED <<sender, peer, sent, taken, mainVars, fileVars, supVars, ub, early>>

AfterRead(c) == [pc EXCEPT ![c] = IF r[c].first THEN "parse" ELSE "account"]

(* One read() that returns data: the loop goes on until n_left are read. *)
ReadData(c) ==
  /\ At(c, "read")
  /\ peer[c] # "reset" /\ Avail(c) > 0
  /\ LET room == r[c].left - r[c].got
         k == IF Avail(c) < room THEN Avail(c) ELSE room
     IN  /\ taken' = [taken EXCEPT ![c] = @ + k]
         /\ r' = [r EXCEPT ![c].got = @ + k]
         /\ pc' = IF k = room THEN AfterRead(c) ELSE pc
         /\ ub' \in {ub} \cup (IF r[c].first /\ r[c].got + k > r[c].cap THEN {"heap"} ELSE {})
  /\ UNCHANGED <<sender, peer, sent, edge, mainVars, fileVars, supVars, early>>

(* EAGAIN, or the end of the stream. *)
ReadNothing(c) == /\ At(c, "read")
                  /\ peer[c] # "reset" /\ Avail(c) = 0
                  /\ pc' = AfterRead(c)
                  /\ UNCHANGED <<netVars, mainVars, fileVars, r, supVars, ub, early>>

(* ECONNRESET.  In a later round read_buf points into c_buf_, and free()   *)
(* of anything but its first byte corrupts the heap.                       *)
ReadError(c) == /\ At(c, "read")
                /\ peer[c] = "reset"
                /\ pc' = [pc EXCEPT ![c] = "failed"]
                /\ ub' \in {ub} \cup (IF r[c].off > 0 THEN {"free"} ELSE {})
                /\ UNCHANGED <<netVars, mainVars, fileVars, r, supVars, early>>

(* What has been read is the file header if nobody has parsed one yet.     *)
(* A slice that gets here too soon is refused as a malformed header.       *)
ParseHeader(c) == /\ At(c, "parse")
                  /\ HeaderUnknown
                  /\ pc' = [pc EXCEPT ![c] = IF c = Header /\ r[c].got > 0 THEN "num"
                                                                         ELSE "failed"]
                  /\ UNCHANGED <<netVars, mainVars, fileVars, r, supVars, ub, early>>

(* Recv closes its end; the sender has nothing left to do on c but close. *)
CloseSocket(c) == /\ peer' = [peer EXCEPT ![c] = "closed"]
                  /\ edge' = [edge EXCEPT ![c] = FALSE]

SetSlicesNum(c) == /\ At(c, "num")
                   /\ slices_num_' = N
                   /\ pc' = [pc EXCEPT ![c] = "split"]
                   /\ UNCHANGED <<netVars, mainVars, split_len_, reads_max_bytes_, start_,
                                  mmap_, r, supVars, ub, early>>

SetSplitLen(c) == /\ At(c, "split")
                  /\ split_len_' = 1
                  /\ pc' = [pc EXCEPT ![c] = "max"]
                  /\ UNCHANGED <<netVars, mainVars, slices_num_, reads_max_bytes_, start_,
                                 mmap_, r, supVars, ub, early>>

SetReadsMax(c) == /\ At(c, "max")
                  /\ reads_max_bytes_' = Big
                  /\ pc' = [pc EXCEPT ![c] = "map"]
                  /\ UNCHANGED <<netVars, mainVars, slices_num_, split_len_, start_, mmap_,
                                 r, supVars, ub, early>>

(* MAP_FAILED is not the null pointer, and nobody looks for it. *)
MapFile(c) == /\ At(c, "map")
              /\ start_' \in {"mapped"} \cup (IF Faults THEN {"failed"} ELSE {})
              /\ pc' = [pc EXCEPT ![c] = "done"]
              /\ CloseSocket(c)
              /\ UNCHANGED <<sender, sent, taken, mainVars, slices_num_, split_len_,
                             reads_max_bytes_, mmap_, r, supVars, ub, early>>

(* The slice header.  Without one, what is unmarshalled is uninitialised   *)
(* memory and the length of the memcpy() negative.                         *)
Unmarshal(c) == /\ At(c, "parse")
                /\ ~HeaderUnknown
                /\ r' = [r EXCEPT ![c].first = FALSE, ![c].cap = 0, ![c].buf = start_]
                /\ pc' = [pc EXCEPT ![c] = "insert"]
                /\ ub' = IF r[c].got = 0 THEN "short" ELSE ub
                /\ UNCHANGED <<netVars, mainVars, fileVars, supVars, early>>

(* The header unit is not payload; if nothing else was read: next round. *)
Insert(c) == /\ At(c, "insert")
             /\ mmap_' = mmap_ \cup {c}
             /\ r' = [r EXCEPT ![c].got = @ - 1, ![c].left = 0]
             /\ pc' = [pc EXCEPT ![c] = IF r[c].got = 1 THEN "wait" ELSE "account"]
             /\ UNCHANGED <<netVars, mainVars, slices_num_, split_len_, reads_max_bytes_,
                            start_, supVars, ub, early>>

(* offset_ advances; a complete slice is decompressed into the file, which *)
(* fails if zstd gets no memory.                                           *)
AfterAccount(off) == IF off < CLen THEN {"wait"}
                                   ELSE {"done"} \cup (IF Faults THEN {"failed"} ELSE {})
Dest(c) == IF r[c].buf = "mapped" THEN start_ ELSE r[c].buf  \* what buf_ points to by now
AccountKeepingIndex(c) ==
  /\ At(c, "account")
  /\ LET off == r[c].off + r[c].got
     IN  /\ r' = [r EXCEPT ![c].off = off, ![c].left = 0]
         /\ \E result \in AfterAccount(off) : pc' = [pc EXCEPT ![c] = result]
         /\ ub' = IF off = CLen /\ Dest(c) # "mapped" THEN Dest(c) ELSE ub
         /\ IF off = CLen THEN CloseSocket(c) ELSE UNCHANGED <<peer, edge>>
  /\ UNCHANGED <<sender, sent, taken, mainVars, fileVars, supVars, early>>
Account(c) == /\ At(c, "account")
              /\ LET off == r[c].off + r[c].got
                 IN  /\ r' = [r EXCEPT ![c].off = off, ![c].got = 0, ![c].left = 0]
                     /\ \E result \in AfterAccount(off) : pc' = [pc EXCEPT ![c] = result]
                     /\ ub' = IF off = CLen /\ Dest(c) # "mapped" THEN Dest(c) ELSE ub
                     /\ IF off = CLen THEN CloseSocket(c) ELSE UNCHANGED <<peer, edge>>
              /\ UNCHANGED <<sender, sent, taken, mainVars, fileVars, supVars, early>>

(* std::map is written by one Recv while another looks something up in it  *)
(* or writes to it, or the supervisor iterates over it.                    *)
UsesMap(c) == \/ pc[c] \in {"insert", "account"}
              \/ Wakes(c) /\ ~r[c].first
MapRace(c) == /\ At(c, "insert")
              /\ \/ \E d \in Conn \ {c} : UsesMap(d)
                 \/ sup = "cleanup"
              /\ ub' = "map"
              /\ UNCHANGED <<netVars, mainVars, fileVars, pc, r, supVars, early>>

(* A later round reads into c_buf_, and Decompress reads it. *)
UseAfterFree(c) == /\ Alive
                   /\ c \in freed /\ pc[c] \in {"read", "account"}
                   /\ ub' = "freed"
                   /\ UNCHANGED <<netVars, mainVars, fileVars, pc, r, supVars, early>>
-----------------------------------------------------------------------------
(* Supervise. *)

(* The predicate loads slices_num_ twice. *)
Test == /\ SupAt("test")
        /\ some' = (slices_th_num_ >= slices_num_ + 1)
        /\ sup' = "test2"
        /\ UNCHANGED <<netVars, mainVars, fileVars, pc, r, fn, freed, torn, ub, early>>

Test2 == /\ SupAt("test2")
         /\ sup' = IF some /\ slices_num_ # 0 THEN "connect" ELSE "gap"
         /\ some' = FALSE
         /\ torn' = (sup' = "connect" /\ slices_th_num_ < slices_num_ + 1)
         /\ UNCHANGED <<netVars, mainVars, fileVars, pc, r, fn, freed, ub, early>>

Block == /\ SupAt("gap")
         /\ sup' = "blocked"
         /\ UNCHANGED <<netVars, mainVars, fileVars, pc, r, some, fn, freed, torn, ub, early>>

SpuriousWakeup == /\ SupAt("blocked")
                  /\ sup' = "test"
                  /\ UNCHANGED <<netVars, mainVars, fileVars, pc, r, some, fn, freed, torn, ub,
                                 early>>

(* The sender need not be listening yet.  The range-for takes the vector's *)
(* end once, before its first iteration.                                   *)
ConnectToSender == /\ SupAt("connect")
                   /\ \/ sender = "up" /\ sup' = "collect" /\ fn' = Len(slices_th_res_)
                      \/ sup' = "exited" /\ UNCHANGED fn
                   /\ UNCHANGED <<netVars, mainVars, fileVars, pc, r, some, freed, torn, ub,
                                  early>>

(* One get() after the other; then "E" goes to the sender. *)
CollectAllButLast == /\ SupAt("collect")
                     /\ \A i \in 1 .. fn - 1 : pc[slices_th_res_[i]] \in Returned
                     /\ sup' = "validate"
                     /\ UNCHANGED <<netVars, mainVars, fileVars, pc, r, some, fn, freed, torn,
                                    ub, early>>
Collect == /\ SupAt("collect")
           /\ \A i \in 1 .. fn : pc[slices_th_res_[i]] \in Returned
           /\ sup' = "validate"
           /\ UNCHANGED <<netVars, mainVars, fileVars, pc, r, some, fn, freed, torn, ub, early>>

(* An incomplete file may not be readable at all: the exception ends       *)
(* Supervise and nothing is reported.                                      *)
Validate == /\ SupAt("validate")
            /\ \/ sup' = "cleanup"
               \/ (\E c \in Slice : pc[c] # "done") /\ sup' = "threw"
            /\ UNCHANGED <<netVars, mainVars, fileVars, pc, r, some, fn, freed, torn, ub, early>>

(* The sender's end is gone: the report's write() is answered by SIGPIPE. *)
SigPipe == /\ SupAt("validate")
           /\ sender = "dead"
           /\ ub' = "sigpipe"
           /\ UNCHANGED <<netVars, mainVars, fileVars, pc, r, supVars, early>>

(* Supervise iterates over mmap_ with no lock and frees every c_buf_, for  *)
(* the second time if a Recv freed it on an error.  The pointers stay.     *)
FreedTwice == \E c \in mmap_ : pc[c] = "failed" /\ r[c].off < CLen

FreeBuffers == /\ SupAt("cleanup")
               /\ freed' = mmap_
               /\ sup' = "unmap"
               /\ ub' \in {ub} \cup (IF FreedTwice THEN {"free"} ELSE {})
               /\ UNCHANGED <<netVars, mainVars, fileVars, pc, r, some, fn, torn, early>>

(* munmap(start_), and then free(start_) of memory malloc() never gave. *)
UnmapFile == /\ SupAt("unmap")
             /\ start_' = IF start_ = "null" THEN start_ ELSE "unmapped"
             /\ sup' = "ended"
             /\ ub' \in {ub} \cup (IF start_ = "null" THEN {} ELSE {"munmapped"})
             /\ UNCHANGED <<netVars, mainVars, slices_num_, split_len_, reads_max_bytes_, mmap_,
                            pc, r, some, fn, freed, torn, early>>
-----------------------------------------------------------------------------
Recv(c) == \/ FirstRound(c) \/ Shrink(c) \/ Alloc(c) \/ Size(c) \/ LaterRound(c)
           \/ ReadData(c) \/ ReadNothing(c) \/ ReadError(c)
           \/ ParseHeader(c) \/ SetSlicesNum(c) \/ SetSplitLen(c) \/ SetReadsMax(c)
           \/ MapFile(c) \/ Unmarshal(c) \/ Insert(c) \/ Account(c)

Run == MainWait \/ Accept \/ AcceptEnds \/ CountAndNotify

Supervise == \/ Test \/ Test2 \/ Block \/ ConnectToSender \/ Collect \/ Validate
             \/ FreeBuffers \/ UnmapFile

Transmit(c) == Connect(c) \/ Send(c) \/ Close(c)

Disturb == \/ SpuriousWakeup \/ SenderDies \/ SigPipe \/ VectorRace \/ MainReturns
           \/ \E c \in Conn : Reset(c) \/ EpollFails(c) \/ MapRace(c) \/ UseAfterFree(c)

Next == \/ \E c \in Conn : Transmit(c) \/ Recv(c)
        \/ Run \/ Start \/ Supervise \/ Disturb

(* Threads that can run do run, and the sender goes on sending. *)
Fairness == /\ \A c \in Conn : WF_vars(Recv(c))
                               /\ WF_vars(Transmit(c))
            /\ WF_vars(Run)
            /\ WF_vars(Start)
            /\ WF_vars(Supervise)

Spec == Init /\ [][Next]_vars /\ Fairness
-----------------------------------------------------------------------------
NetTypes == /\ sender \in {"up", "dead"}
            /\ peer \in [Conn -> {"none", "open", "closed", "reset"}]
            /\ sent \in [Conn -> Nat] /\ taken \in [Conn -> Nat]
            /\ edge \in [Conn -> BOOLEAN]
MainTypes == /\ backlog \in Seq(Conn) /\ listenEdge \in BOOLEAN
             /\ mpc \in {"epoll", "accept", "count", "returned"}
             /\ tasks_ \in Seq(Conn) /\ slices_th_res_ \in Seq(Conn)
             /\ slices_th_num_ \in Nat
FileTypes == /\ slices_num_ \in {0, N} /\ split_len_ \in {0, 1}
             /\ reads_max_bytes_ \in {0, Small, Big}
             /\ start_ \in {"null", "mapped", "failed", "unmapped"}
             /\ mmap_ \in SUBSET Slice
Label == Idle \cup {"wait", "shrink", "alloc", "size", "read", "parse", "num", "split", "max",
                   "map", "insert", "account"}
RecvLocals == [first : BOOLEAN, cap : Nat, left : Nat, got : Nat, off : Nat,
               buf : {"none", "null", "mapped", "failed", "unmapped"}]
RecvTypes == pc \in [Conn -> Label] /\ r \in [Conn -> RecvLocals]
SupTypes == /\ sup \in Waiting \cup Gone \cup {"connect", "collect", "validate", "cleanup", "unmap"}
            /\ some \in BOOLEAN /\ fn \in Nat /\ freed \in SUBSET Slice /\ torn \in BOOLEAN
            /\ ub \in {"none", "vector", "heap", "free", "short", "map", "freed", "munmapped",
                       "null", "failed", "unmapped", "exit", "sigpipe"}
            /\ early \in SUBSET Slice
Counts == /\ \A c \in Conn : taken[c] <= sent[c] /\ r[c].off + r[c].got <= taken[c]
          /\ \A c \in mmap_ : r[c].off + r[c].got < taken[c]

(* Types, and Counts: a Recv never accounts for more payload than it has   *)
(* read (the slice's header is not payload), nor reads more than was sent. *)
TypeOK == NetTypes /\ MainTypes /\ FileTypes /\ RecvTypes /\ SupTypes /\ Counts

(* Edge triggered epoll: a Recv that goes back to epoll_wait() has read    *)
(* everything there was, or an event for the rest is still to come, as     *)
(* long as one round can take a full receive buffer and no early Recv has  *)
(* shrunk reads_max_bytes_.                                                *)
NoStrandedBytes ==
  RcvBuf <= Big /\ early = {}
    => \A c \in Conn : pc[c] = "wait" /\ Avail(c) > 0 => edge[c]

(* The same for the listening socket: main sleeps only if the backlog is   *)
(* empty or a new connection will wake it, unless accept() failed.         *)
NoStrandedConnection == mpc = "epoll" /\ backlog # <<>> => listenEdge \/ Faults

(* Recv returns -1 without the slice only if the slice looked for the      *)
(* header before the file was mapped, its connection was reset, zstd       *)
(* failed, or epoll did.                                                   *)
LossOnlyIfEarly ==
  \A c \in Slice :
    /\ pc[c] = "failed" => c \in early \/ peer[c] = "reset" \/ (Faults /\ r[c].off = CLen)
    /\ pc[c] = "gaveup" => Faults

(* Where undefined behaviour can come from at all: overtaking the header,  *)
(* a torn wait predicate, two Recvs at once (with one job that takes a     *)
(* supervisor that has given up), a broken connection, a failed system     *)
(* call, and the free() after munmap().                                    *)
UBExplained ==
  /\ ub \in {"heap", "null"} => early # {}
  /\ ub \in {"vector", "freed", "unmapped"} => torn
  /\ ub = "map" => Jobs > 1 \/ torn \/ sup = "exited"
  /\ ub \in {"short", "free"} => sender = "dead" \/ \E c \in Conn : peer[c] = "reset"
  /\ ub = "sigpipe" => sender = "dead"
  /\ ub \in {"failed", "exit"} => Faults
  /\ ub = "munmapped" => sup = "ended"

(* The supervisor sends "E", validates and unmaps the file only after the  *)
(* Recv of every connection has returned, each having failed or read all   *)
(* there was to read, unless the supervisor's wait was torn.               *)
ReportComplete ==
  sup \in {"validate", "cleanup", "unmap", "ended"} /\ ~torn
    => \A c \in Conn : /\ pc[c] \in Returned
                       /\ pc[c] = "done" => taken[c] = Total(c)

(* With one job and no faults, slices wait in the pool's queue until the   *)
(* header has been dealt with, as long as Supervise keeps the other thread: *)
(* it lets go of it that soon only if the sender refuses its connection.   *)
SingleJobNeverEarly == Jobs = 1 /\ ~Faults /\ early # {} => sup = "exited"

(* With one job and no faults every slice of the file arrives, whatever    *)
(* the interleaving of the sender, main, the supervisor and the one Recv,  *)
(* provided one round can take a full receive buffer, and unless the       *)
(* supervisor's wait is torn or the sender refuses its connection.         *)
SingleJobDelivers ==
  Jobs = 1 /\ ~Faults /\ RcvBuf <= Big
    => <>((\A c \in Slice : pc[c] = "done") \/ torn \/ sup = "exited")
-----------------------------------------------------------------------------
(* What the wait says it waits for, recv_flow.h:132, and does not ensure:  *)
(* when wait() has returned, all connections have been counted.            *)
WaitPostcondition == sup = "connect" => slices_th_num_ >= slices_num_ + 1

(* Nor does wait() always return once that predicate has become true.      *)
SupervisorReleased ==
  (slices_num_ # 0 /\ slices_th_num_ >= slices_num_ + 1) ~> (sup \notin Waiting \/ ~Alive)
=============================================================================
