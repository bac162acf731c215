----------------------------- MODULE ThreadPool -----------------------------
(***************************************************************************)
(* util/thread_pool.h: a fixed set of threads that take callables from a   *)
(* FIFO queue guarded by a mutex and a condition variable, and the one     *)
(* client thread (the sender's or the receiver's main thread) that         *)
(* enqueues tasks and finally runs the destructor.                         *)
(*                                                                         *)
(* The mutex is explicit: a worker tests the wait predicate and goes to    *)
(* sleep in two steps, both while it holds m_, as std::condition_variable  *)
(* does.  The client's critical sections are single steps that need m_     *)
(* free; its notifications come after them, without the mutex.             *)
(***************************************************************************)
EXTENDS Naturals, Sequences, FiniteSets

CONSTANTS Thread, \* threads_
          Task,   \* callables that may be enqueued
          NoTask  \* "holds no task"

ASSUME PoolAssumption == /\ Thread # {}
                         /\ IsFiniteSet(Thread)
                         /\ NoTask \notin Task

VARIABLES tasks_, \* the queue
          stop_,
          m_,     \* the threads that hold the mutex (none or one)
          pc,     \* where each worker is in its loop
          task,   \* the callable a worker is running
          done,   \* tasks whose future is ready
          client  \* where the client is in enqueue() or ~ThreadPool()

vars == <<tasks_, stop_, m_, pc, task, done, client>>

Queued    == {tasks_[i] : i \in 1 .. Len(tasks_)}
Running   == {task[w] : w \in Thread} \ {NoTask}
Submitted == Queued \cup Running \cup done

(* The constructor's threads, none of which has reached its lock yet. *)
Init == /\ tasks_ = <<>>
        /\ stop_ = FALSE
        /\ m_ = {}
        /\ pc = [w \in Thread |-> "lock"]
        /\ task = [w \in Thread |-> NoTask]
        /\ done = {}
        /\ client = "idle"
-----------------------------------------------------------------------------
(* The worker loop. *)

Lock(w) == /\ pc[w] = "lock"
           /\ m_ = {}
           /\ m_' = {w}
           /\ pc' = [pc EXCEPT ![w] = "test"]
           /\ UNCHANGED <<tasks_, stop_, task, done, client>>

WaitPredicate == stop_ \/ tasks_ # <<>>

(* wait(): the predicate is false, the worker will sleep ... *)
Park(w) == /\ pc[w] = "test"
           /\ ~WaitPredicate
           /\ pc' = [pc EXCEPT ![w] = "parking"]
           /\ UNCHANGED <<tasks_, stop_, m_, task, done, client>>

(* ... and releases the mutex as it goes to sleep. *)
Sleep(w) == /\ pc[w] = "parking"
            /\ m_' = {}
            /\ pc' = [pc EXCEPT ![w] = "parked"]
            /\ UNCHANGED <<tasks_, stop_, task, done, client>>

SpuriousWakeup(w) == /\ pc[w] = "parked"
                     /\ pc' = [pc EXCEPT ![w] = "lock"]
                     /\ UNCHANGED <<tasks_, stop_, m_, task, done, client>>

LeaveOnStop == stop_
LeaveLoop == stop_ /\ tasks_ = <<>>

Exit(w) == /\ pc[w] = "test"
           /\ WaitPredicate
           /\ LeaveLoop
           /\ m_' = {}
           /\ pc' = [pc EXCEPT ![w] = "exit"]
           /\ UNCHANGED <<tasks_, stop_, task, done, client>>

TakeLast(w) == /\ pc[w] = "test"
               /\ WaitPredicate
               /\ ~LeaveLoop
               /\ task' = [task EXCEPT ![w] = tasks_[Len(tasks_)]]
               /\ tasks_' = SubSeq(tasks_, 1, Len(tasks_) - 1)
               /\ m_' = {}
               /\ pc' = [pc EXCEPT ![w] = "run"]
               /\ UNCHANGED <<stop_, done, client>>
Take(w) == /\ pc[w] = "test"
           /\ WaitPredicate
           /\ ~LeaveLoop
           /\ task' = [task EXCEPT ![w] = Head(tasks_)]
           /\ tasks_' = Tail(tasks_)
           /\ m_' = {}
           /\ pc' = [pc EXCEPT ![w] = "run"]
           /\ UNCHANGED <<stop_, done, client>>

(* task() returns (or throws: packaged_task stores the exception); its     *)
(* future becomes ready and the function object is destroyed.              *)
FinishKeepingTask(w) == /\ pc[w] = "run"
                        /\ done' = done \cup {task[w]}
                        /\ pc' = [pc EXCEPT ![w] = "lock"]
                        /\ UNCHANGED <<tasks_, stop_, m_, task, client>>
Finish(w) == /\ pc[w] = "run"
             /\ done' = done \cup {task[w]}
             /\ task' = [task EXCEPT ![w] = NoTask]
             /\ pc' = [pc EXCEPT ![w] = "lock"]
             /\ UNCHANGED <<tasks_, stop_, m_, client>>
-----------------------------------------------------------------------------
(* The client. *)

EnqueueUnlocked(t) == /\ client = "idle"
                      /\ ~stop_
                      /\ t \notin Submitted
                      /\ tasks_' = Append(tasks_, t)
                      /\ client' = "notify_one"
                      /\ UNCHANGED <<stop_, m_, pc, task, done>>
Enqueue(t) == /\ client = "idle"
              /\ ~stop_
              /\ t \notin Submitted
              /\ m_ = {}
              /\ tasks_' = Append(tasks_, t)
              /\ client' = "notify_one"
              /\ UNCHANGED <<stop_, m_, pc, task, done>>

NotifyOne == /\ client = "notify_one"
             /\ client' = "idle"
             /\ \/ \E w \in Thread : /\ pc[w] = "parked"
                                     /\ pc' = [pc EXCEPT ![w] = "lock"]
                \/ /\ \A w \in Thread : pc[w] # "parked"
                   /\ UNCHANGED pc
             /\ UNCHANGED <<tasks_, stop_, m_, task, done>>

StopUnlocked == /\ client = "idle"
                /\ ~stop_
                /\ stop_' = TRUE
                /\ client' = "notify_all"
                /\ UNCHANGED <<tasks_, m_, pc, task, done>>
Stop == /\ client = "idle"
        /\ ~stop_
        /\ m_ = {}
        /\ stop_' = TRUE
        /\ client' = "notify_all"
        /\ UNCHANGED <<tasks_, m_, pc, task, done>>

NotifyAll == /\ client = "notify_all"
             /\ client' = "join"
             /\ pc' = [w \in Thread |-> IF pc[w] = "parked" THEN "lock" ELSE pc[w]]
             /\ UNCHANGED <<tasks_, stop_, m_, task, done>>

Join == /\ client = "join"
        /\ \A w \in Thread : pc[w] = "exit"
        /\ client' = "gone"
        /\ UNCHANGED <<tasks_, stop_, m_, pc, task, done>>
-----------------------------------------------------------------------------
Step(w) == Lock(w) \/ Park(w) \/ Sleep(w) \/ Exit(w) \/ Take(w)

Client == NotifyOne \/ Stop \/ NotifyAll \/ Join

Next == \/ \E w \in Thread : Step(w) \/ SpuriousWakeup(w) \/ Finish(w)
        \/ \E t \in Task : Enqueue(t)
        \/ Client

(* The kernel runs every thread that can run, and a call of the client     *)
(* that has begun goes on.  It need not enqueue, nor destroy the pool, and *)
(* a task need not end.                                                    *)
Fairness == /\ \A w \in Thread : WF_vars(Step(w))
            /\ WF_vars(NotifyOne \/ NotifyAll \/ Join)

Spec == Init /\ [][Next]_vars /\ Fairness
-----------------------------------------------------------------------------
(* Types, and: a worker holds a task exactly while it runs it.             *)
TypeOK == /\ tasks_ \in Seq(Task)
          /\ stop_ \in BOOLEAN
          /\ m_ \in SUBSET Thread
          /\ pc \in [Thread -> {"lock", "test", "parking", "parked", "run", "exit"}]
          /\ task \in [Thread -> Task \cup {NoTask}]
          /\ done \in SUBSET Task
          /\ client \in {"idle", "notify_one", "notify_all", "join", "gone"}
          /\ \A w \in Thread : pc[w] = "run" <=> task[w] # NoTask

(* No lost wakeup in enqueue(): as long as a worker sleeps, or is about    *)
(* to, and no notify_one() is due, every queued task has a worker of its   *)
(* own that will look at the queue.  One that is busy does not count: its  *)
(* task (Supervise) may run for as long as the others do.                  *)
Sleepers == {w \in Thread : pc[w] \in {"parking", "parked"}}
Awake == {w \in Thread : pc[w] \in {"lock", "test"}}
NoStrandedTask == Sleepers # {} /\ client # "notify_one"
                    => Len(tasks_) <= Cardinality(Awake)

(* No lost wakeup in ~ThreadPool(): once notify_all() is over no worker    *)
(* sleeps, or is about to, so join() waits for running tasks only.         *)
NobodySleepsThroughStop == stop_ /\ client # "notify_all"
                             => \A w \in Thread : pc[w] \notin {"parking", "parked"}

(* The destructor returns only after every task ever enqueued has run:     *)
(* main may rely on the pool going out of scope to finish its slices.      *)
DrainedWhenGone == client = "gone" => Submitted = done

(* The promise to the pool's users.                                        *)
Pool == INSTANCE TaskPool WITH Size     <- Cardinality(Thread),
                               queue    <- tasks_,
                               running  <- Running,
                               finished <- done
ImplementsTaskPool == Pool!Spec

(* If tasks end, the destructor's join() returns.                          *)
TasksEnd == \A w \in Thread : WF_vars(Finish(w))
JoinReturns == TasksEnd => (client = "join" ~> client = "gone")
=============================================================================
