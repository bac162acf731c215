------------------------------- MODULE Sender -------------------------------
(***************************************************************************)
(* The sender: main() of main.cc, SendingFlow (util/sending_flow.h) and    *)
(* the compression context of util/zstd_compress.h.  The main thread sends *)
(* the file header itself, enqueues one Run per slice, frees what Init     *)
(* allocated and waits for the futures; a pool thread per Run compresses   *)
(* and sends the slice on a connection of its own; the Supervise thread    *)
(* listens for the receiver's report, "E\0" and the validation result.     *)
(*                                                                         *)
(* The pool is used as TaskPool promises.  The receiver is the             *)
(* environment: it may connect back at any time after the header is sent.  *)
(***************************************************************************)
EXTENDS Naturals, Sequences, FiniteSets

CONSTANTS N,      \* slices of the file, numbered from 1
          Jobs,   \* --jobs
          CLen,   \* units of payload of a compressed slice
          Faults  \* may system calls fail and connections break?

ASSUME SenderAssumption == /\ N \in Nat \ {0}
                           /\ Jobs \in Nat \ {0}
                           /\ CLen \in Nat \ {0}
                           /\ Faults \in BOOLEAN

Slice  == 1 .. N
Header == 0
Conn   == {Header} \cup Slice
Total(c) == IF c = Header THEN 1 ELSE 1 + CLen

(* The report as the stream carries it: the end mark and its NUL, the      *)
(* text, and the "strings2:" the supervisor looks for, in two halves.      *)
Report == <<"E", "nul", "text", "strin", "gs2">>

VARIABLES mpc, next,      \* main(), and how many slices it has enqueued
          tasks_,         \* the pool's queue; 0 is Supervise
          args_,          \* zstd's compress_args_t
          wpc, level,     \* per slice: its Run and the c_level it got
          peer, sent,     \* per connection
          spc,            \* Supervise
          rcv, eof,       \* the receiver's connection
          arrived, got,   \* units of Report that have come, that are read
          edge,           \* epoll has an event for the receiver's connection
          cuts            \* history: where the reads of Report have ended

mainVars == <<mpc, next, tasks_, args_>>
netVars  == <<peer, sent>>
supVars  == <<spc, got, cuts>>
rcvVars  == <<rcv, eof, arrived, edge>>
vars == <<mainVars, wpc, level, netVars, supVars, rcvVars>>

Up       == mpc \notin {"exit", "abort", "killed"}
Returned == {"done", "failed"}
SupReturned == {"ok", "err", "threw"}

Init == /\ mpc = "begin" /\ next = 0 /\ tasks_ = <<>> /\ args_ = "null"
        /\ wpc = [s \in Slice |-> "none"] /\ level = [s \in Slice |-> 0]
        /\ peer = [c \in Conn |-> "none"] /\ sent = [c \in Conn |-> 0]
        /\ spc = "none" /\ got = 0 /\ cuts = {}
        /\ rcv = "none" /\ eof = FALSE /\ arrived = 0 /\ edge = FALSE
-----------------------------------------------------------------------------
(* main() *)

(* Supervise goes to the pool first; then SplitFile (module FileSlice) and *)
(* the allocation of args_.                                                *)
Begin == /\ mpc = "begin"
         /\ tasks_' = Append(tasks_, 0)
         /\ spc' = "queued"
         /\ args_' = "live"
         /\ mpc' = "connect"
         /\ UNCHANGED <<next, wpc, level, netVars, got, cuts, rcvVars>>

HeaderConnect == /\ mpc = "connect"
                 /\ \/ /\ peer' = [peer EXCEPT ![Header] = "open"]
                       /\ mpc' = "header"
                    \/ /\ Faults
                       /\ mpc' = "initfailed"
                       /\ UNCHANGED peer
                 /\ UNCHANGED <<next, tasks_, args_, wpc, level, sent, supVars, rcvVars>>

HeaderLeftOpen == /\ mpc = "header"
                  /\ peer[Header] = "open"
                  /\ sent' = [sent EXCEPT ![Header] = 1]
                  /\ mpc' = "enqueue"
                  /\ UNCHANGED <<next, tasks_, args_, wpc, level, peer, supVars, rcvVars>>
HeaderWrite == /\ mpc = "header"
               /\ \/ /\ peer[Header] = "open"
                     /\ sent' = [sent EXCEPT ![Header] = 1]
                     /\ mpc' = "close"
                  \/ /\ peer[Header] = "broken"
                     /\ mpc' = "initfailed"
                     /\ UNCHANGED sent
               /\ UNCHANGED <<next, tasks_, args_, wpc, level, peer, supVars, rcvVars>>

(* write() has nothing to give, 0 or EAGAIN: the loop ends, the connection *)
(* is closed with the header unsent, and Init goes on as if it were sent.  *)
HeaderUnsent == /\ mpc = "header"
                /\ Faults
                /\ peer[Header] = "open"
                /\ peer' = [peer EXCEPT ![Header] = "closed"]
                /\ mpc' = "enqueue"
                /\ UNCHANGED <<next, tasks_, args_, wpc, level, sent, supVars, rcvVars>>

HeaderClose == /\ mpc = "close"
               /\ peer' = [peer EXCEPT ![Header] = "closed"]
               /\ mpc' = "enqueue"
               /\ UNCHANGED <<next, tasks_, args_, wpc, level, sent, supVars, rcvVars>>

EnqueueSlice == /\ mpc = "enqueue"
                /\ next' = next + 1
                /\ tasks_' = Append(tasks_, next')
                /\ wpc' = [wpc EXCEPT ![next'] = "queued"]
                /\ mpc' = IF next' = N THEN "destory" ELSE "enqueue"
                /\ UNCHANGED <<args_, level, netVars, supVars, rcvVars>>

(* SendingFlow::Destory frees args_ as soon as the slices are enqueued. *)
Destory == /\ mpc = "destory"
           /\ args_' = "freed"
           /\ mpc' = "get"
           /\ UNCHANGED <<next, tasks_, wpc, level, netVars, supVars, rcvVars>>

GetSlices == /\ mpc = "get"
             /\ \A s \in Slice : wpc[s] \in Returned
             /\ mpc' = "getsup"
             /\ UNCHANGED <<next, tasks_, args_, wpc, level, netVars, supVars, rcvVars>>

(* get() rethrows what Supervise threw, and nobody catches it. *)
GetSupervisor == /\ mpc = "getsup"
                 /\ spc \in SupReturned
                 /\ mpc' = IF spc = "threw" THEN "abort" ELSE "exit"
                 /\ UNCHANGED <<next, tasks_, args_, wpc, level, netVars, supVars, rcvVars>>

(* After "Init sending flow failed." main() returns, and the destructor of *)
(* the pool joins the thread of Supervise.                                 *)
JoinSupervisor == /\ mpc = "initfailed"
                  /\ spc \in SupReturned
                  /\ mpc' = "exit"
                  /\ UNCHANGED <<next, tasks_, args_, wpc, level, netVars, supVars, rcvVars>>
-----------------------------------------------------------------------------
(* The pool of Jobs + 1 threads. *)

Busy == Cardinality({s \in Slice : wpc[s] \notin Returned \cup {"none", "queued"}})
          + (IF spc \in {"bind", "poll"} THEN 1 ELSE 0)

StartOneLess == /\ Up
                /\ tasks_ # <<>>
                /\ Busy < Jobs
                /\ tasks_' = Tail(tasks_)
                /\ IF Head(tasks_) = 0
                     THEN spc' = "bind" /\ UNCHANGED wpc
                     ELSE wpc' = [wpc EXCEPT ![Head(tasks_)] = "context"] /\ UNCHANGED spc
                /\ UNCHANGED <<mpc, next, args_, level, netVars, got, cuts, rcvVars>>
Start == /\ Up
         /\ tasks_ # <<>>
         /\ Busy < Jobs + 1
         /\ tasks_' = Tail(tasks_)
         /\ IF Head(tasks_) = 0
              THEN spc' = "bind" /\ UNCHANGED wpc
              ELSE wpc' = [wpc EXCEPT ![Head(tasks_)] = "context"] /\ UNCHANGED spc
         /\ UNCHANGED <<mpc, next, args_, level, netVars, got, cuts, rcvVars>>
-----------------------------------------------------------------------------
(* Run(s): Compress and SendFileSlice. *)

At(s, label) == Up /\ wpc[s] = label

Goto(s, label) == wpc' = [wpc EXCEPT ![s] = label]

(* The context's level is read through args_, which may have been freed:   *)
(* then it is whatever the memory holds, still 1 or not.                   *)
ReadLevel(s) == /\ At(s, "context")
                /\ Goto(s, "compress")
                /\ \E l \in (IF args_ = "live" THEN {1} ELSE {1, 2}) :
                     level' = [level EXCEPT ![s] = l]
                /\ UNCHANGED <<mainVars, netVars, supVars, rcvVars>>

(* The chunks are linked behind the slice's header, which gets c_len_. *)
Compress(s) == /\ At(s, "compress")
               /\ Goto(s, "connect")
               /\ UNCHANGED <<mainVars, level, netVars, supVars, rcvVars>>

ConnectSlice(s) == /\ At(s, "connect")
                   /\ Goto(s, "write")
                   /\ peer' = [peer EXCEPT ![s] = "open"]
                   /\ UNCHANGED <<mainVars, level, sent, supVars, rcvVars>>

(* One write() of the loop over the chunks; EAGAIN tries again. *)
WriteChunk(s) == /\ At(s, "write")
                 /\ peer[s] = "open" /\ sent[s] < Total(s)
                 /\ sent' = [sent EXCEPT ![s] = @ + 1]
                 /\ UNCHANGED <<mainVars, wpc, level, peer, supVars, rcvVars>>

ReturnUnclosed(s) == /\ At(s, "write")
                     /\ peer[s] = "open" /\ sent[s] = Total(s)
                     /\ Goto(s, "done")
                     /\ UNCHANGED <<mainVars, level, peer, sent, supVars, rcvVars>>
CloseSlice(s) == /\ At(s, "write")
                 /\ peer[s] = "open" /\ sent[s] = Total(s)
                 /\ peer' = [peer EXCEPT ![s] = "closed"]
                 /\ Goto(s, "done")
                 /\ UNCHANGED <<mainVars, level, sent, supVars, rcvVars>>

(* No context, a parameter or the compression refused, no connection: Run  *)
(* returns, and nobody is told.                                            *)
RunFails(s) == /\ Up
               /\ Faults
               /\ wpc[s] \in {"context", "compress", "connect"}
               /\ Goto(s, "failed")
               /\ UNCHANGED <<mainVars, level, netVars, supVars, rcvVars>>

WriteFails(s) == /\ At(s, "write")
                 /\ peer[s] = "broken"
                 /\ Goto(s, "failed")
                 /\ UNCHANGED <<mainVars, level, netVars, supVars, rcvVars>>

(* The other outcome of writing to a connection that is broken. *)
SigPipe == /\ Up
           /\ \/ mpc = "header" /\ peer[Header] = "broken"
              \/ \E s \in Slice : wpc[s] = "write" /\ peer[s] = "broken"
           /\ mpc' = "killed"
           /\ peer' = [c \in Conn |-> IF peer[c] # "open" THEN peer[c]
                                     ELSE IF sent[c] = Total(c) THEN "closed" ELSE "broken"]
           /\ UNCHANGED <<next, tasks_, args_, wpc, level, sent, supVars, rcvVars>>
-----------------------------------------------------------------------------
(* Supervise *)

BindSocket == /\ Up /\ spc = "bind"
              /\ \/ spc' = "poll"
                 \/ Faults /\ spc' = "err"
              /\ UNCHANGED <<mainVars, wpc, level, netVars, got, cuts, rcvVars>>

(* epoll_wait() or a read() fails. *)
EpollFails == /\ Up /\ spc = "poll"
              /\ Faults
              /\ spc' = "err"
              /\ UNCHANGED <<mainVars, wpc, level, netVars, got, cuts, rcvVars>>

(* The connection is accepted and added to epoll, which has an event for   *)
(* it at once if there already is something to read.                       *)
Accept == /\ Up /\ spc = "poll"
          /\ rcv = "pending"
          /\ rcv' = "accepted"
          /\ edge' = (arrived > 0 \/ eof)
          /\ UNCHANGED <<mainVars, wpc, level, netVars, supVars, eof, arrived>>

(* What a round of reads has brought, and whether a text occurs in it.     *)
(* find("E\0") looks for "E" alone.                                        *)
Chunk == SubSeq(Report, got + 1, arrived)
HasEnd(res) == res # <<>> /\ Head(res) = "E"
HasWholeText(res) == Len(res) >= 3 /\ res[Len(res) - 1] = "strin"
HasResult(res) == Len(res) >= 2 /\ res[Len(res) - 1] = "strin"

(* read_buf is filled from its start again in every round: what earlier    *)
(* rounds have read is forgotten.                                          *)
ReadReport ==
  /\ Up /\ spc = "poll"
  /\ rcv = "accepted" /\ edge
  /\ edge' = FALSE
  /\ got' = arrived
  /\ cuts' = cuts \cup {arrived}
  /\ spc' = IF Chunk = <<>> THEN "err"
            ELSE IF HasEnd(Chunk) /\ Len(Chunk) < 2 THEN "threw"
            ELSE IF HasResult(Chunk) THEN "ok" ELSE "poll"
  /\ UNCHANGED <<mainVars, wpc, level, netVars, rcv, eof, arrived>>
-----------------------------------------------------------------------------
(* The receiver and the network. *)

ReceiverConnects == /\ Up
                    /\ rcv = "none" /\ sent[Header] = 1
                    /\ \/ spc = "poll" /\ rcv' = "pending"
                       \/ (spc # "poll" \/ Faults) /\ rcv' = "refused"
                    /\ UNCHANGED <<mainVars, wpc, level, netVars, supVars, eof, arrived, edge>>

(* TCP may cut the report anywhere. *)
ReportArrives == /\ Up
                 /\ rcv \in {"pending", "accepted"} /\ ~eof
                 /\ \E n \in arrived + 1 .. Len(Report) : arrived' = n
                 /\ edge' = (rcv = "accepted")
                 /\ UNCHANGED <<mainVars, wpc, level, netVars, supVars, rcv, eof>>

ReceiverDies == /\ Up
                /\ Faults
                /\ rcv \in {"pending", "accepted"} /\ ~eof
                /\ eof' = TRUE
                /\ edge' = (rcv = "accepted")
                /\ UNCHANGED <<mainVars, wpc, level, netVars, supVars, rcv, arrived>>

ConnectionBreaks(c) == /\ Up
                       /\ Faults
                       /\ peer[c] = "open" /\ sent[c] < Total(c)
                       /\ peer' = [peer EXCEPT ![c] = "broken"]
                       /\ UNCHANGED <<mainVars, wpc, level, sent, supVars, rcvVars>>
-----------------------------------------------------------------------------
Main == \/ Begin \/ HeaderConnect \/ HeaderWrite \/ HeaderUnsent \/ HeaderClose
        \/ EnqueueSlice \/ Destory \/ GetSlices \/ GetSupervisor \/ JoinSupervisor

Proceed(s) == \/ ReadLevel(s) \/ Compress(s) \/ ConnectSlice(s) \/ CloseSlice(s) \/ WriteFails(s)

Run(s) == Proceed(s) \/ WriteChunk(s)

Supervise == BindSocket \/ Accept \/ ReadReport

Receiver == ReceiverConnects \/ ReportArrives

Disturb == \/ SigPipe \/ EpollFails \/ ReceiverDies
           \/ \E s \in Slice : RunFails(s)
           \/ \E c \in Conn : ConnectionBreaks(c)

Next == \/ Main \/ Start \/ Supervise \/ Receiver \/ Disturb
        \/ \E s \in Slice : Run(s)

(* Threads that can run do run.  Nothing is assumed of the receiver: it    *)
(* need not take what a Run writes, nor report.                            *)
Fairness == /\ WF_vars(Main) /\ WF_vars(Start) /\ WF_vars(Supervise)
            /\ \A s \in Slice : WF_vars(Proceed(s))

Spec == Init /\ [][Next]_vars /\ Fairness
-----------------------------------------------------------------------------
MainTypes ==
  /\ mpc \in {"begin", "connect", "header", "close", "enqueue", "destory", "get", "getsup",
              "initfailed", "exit", "abort", "killed"}
  /\ next \in 0 .. N
  /\ tasks_ \in Seq(Conn)
  /\ args_ \in {"null", "live", "freed"}
RunTypes ==
  /\ wpc \in [Slice -> {"none", "queued", "context", "compress", "connect", "write"}
                         \cup Returned]
  /\ level \in [Slice -> {0, 1, 2}]
NetTypes ==
  /\ peer \in [Conn -> {"none", "open", "closed", "broken"}]
  /\ sent \in [Conn -> Nat]
SupTypes ==
  /\ spc \in {"none", "queued", "bind", "poll"} \cup SupReturned
  /\ rcv \in {"none", "refused", "pending", "accepted"}
  /\ eof \in BOOLEAN /\ edge \in BOOLEAN
  /\ got \in 0 .. arrived /\ arrived \in 0 .. Len(Report)
  /\ cuts \in SUBSET (0 .. Len(Report))
QueuedExactly ==
  \A s \in Slice : wpc[s] = "queued" <=> \E i \in 1 .. Len(tasks_) : tasks_[i] = s
OverWithConnection ==
  \A s \in Slice : wpc[s] \in Returned /\ peer[s] # "none" => peer[s] \in {"closed", "broken"}

(* Types, and: what waits in the pool's queue is exactly what has been     *)
(* enqueued and not started, and a Run is over only with its connection.   *)
TypeOK == /\ MainTypes /\ RunTypes /\ NetTypes /\ SupTypes
          /\ QueuedExactly
          /\ OverWithConnection

(* What the receiver relies on: see Wire. *)
W == INSTANCE Wire WITH Units <- [c \in Conn |-> Total(c)]
ImplementsWire == W!Spec

(* Supervise ends the way it should, whatever the pieces the report comes  *)
(* in, unless a piece ends between "E" and its NUL (it throws) or inside   *)
(* of "strings2:" (it waits for ever).                                     *)
ReportUnderstood ==
  /\ spc = "threw" => 1 \in cuts
  /\ got = Len(Report) => spc \in SupReturned \/ 4 \in cuts

(* If nothing fails, Supervise listens before the receiver calls, and the  *)
(* report is not cut where it hurts, then the sender exits, whatever the   *)
(* order of its threads: Supervise starves no slice, and main() collects   *)
(* all of them.  What it takes from the receiver is stated, not assumed of *)
(* it: that it takes what a Run writes, and that its report arrives.       *)
Healthy == /\ mpc \notin {"initfailed", "killed"}
           /\ \A s \in Slice : wpc[s] # "failed"
           /\ spc # "err" /\ ~eof /\ rcv # "refused" /\ {1, 4} \cap cuts = {}
Sending == \E s \in Slice : peer[s] = "open" /\ sent[s] < Total(s)
SenderFinishes ==
  /\ []Healthy
  /\ Sending ~> ~Sending
  /\ (\A c \in Conn : peer[c] = "closed") ~> arrived = Len(Report)
  => <>(mpc = "exit")

(* "args_ -> c_level = 1", zstd_compress.h:58, is the level that every     *)
(* slice is compressed with.                                               *)
LevelAsSet == \A s \in Slice : level[s] \in {0, 1}
=============================================================================
