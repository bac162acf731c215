-------------------------- MODULE ThreadPoolProofs --------------------------
(***************************************************************************)
(* For every set of threads and tasks: the pool loses no wakeup, drains    *)
(* its queue before the destructor returns, and every step it takes is a   *)
(* step of TaskPool.                                                       *)
(***************************************************************************)
EXTENDS ThreadPool, FiniteSetTheorems, SequenceTheorems, TLAPS

(* Exactly the workers between lock and unlock hold the mutex, one at most. *)
MutexInv == /\ \A w \in Thread : pc[w] \in {"test", "parking"} <=> w \in m_
            /\ \A v, w \in m_ : v = w

(* A worker that decided to sleep still sees the state it decided on, and  *)
(* one that left the loop left an empty queue for good.                    *)
DecisionInv == \A w \in Thread : /\ pc[w] = "parking" => tasks_ = <<>> /\ ~stop_
                                 /\ pc[w] = "exit" => tasks_ = <<>> /\ stop_

ClientInv == /\ stop_ <=> client \in {"notify_all", "join", "gone"}
             /\ client = "gone" => \A w \in Thread : pc[w] = "exit"

(* Every task is in one place only. *)
OnceInv == /\ \A i, j \in 1 .. Len(tasks_) : tasks_[i] = tasks_[j] => i = j
           /\ \A v, w \in Thread : task[v] = task[w] /\ task[v] # NoTask => v = w
           /\ \A i \in 1 .. Len(tasks_) : tasks_[i] \notin Running \cup done
           /\ Running \cap done = {}

IInv == /\ TypeOK
        /\ MutexInv
        /\ DecisionInv
        /\ ClientInv
        /\ NobodySleepsThroughStop

(* NoStrandedTask, with the notification that is due counted as a worker. *)
AwakeInv == Sleepers # {} =>
              Len(tasks_) <= Cardinality(Awake) + (IF client = "notify_one" THEN 1 ELSE 0)
-----------------------------------------------------------------------------
(* What Head and Tail do to a non-empty queue. *)
LEMMA QueueFacts ==
  ASSUME NEW q \in Seq(Task), q # <<>>
  PROVE  /\ Head(q) \in Task
         /\ Tail(q) \in Seq(Task)
         /\ Len(q) \in Nat \ {0}
         /\ Head(q) = q[1]
         /\ Len(Tail(q)) = Len(q) - 1
         /\ \A i \in 1 .. Len(Tail(q)) : Tail(q)[i] = q[i + 1]
  BY HeadTailProperties, EmptySeq, LenProperties

(* IInv holds in the beginning. *)
LEMMA InitIInv == Init => IInv
  <1> SUFFICES ASSUME Init
               PROVE  IInv
    OBVIOUS
  <1>1. tasks_ \in Seq(Task) /\ tasks_ = <<>>
    BY EmptySeq DEF Init
  <1>2. TypeOK
    BY <1>1, PoolAssumption DEF Init, TypeOK
  <1>3. MutexInv /\ DecisionInv /\ ClientInv
    BY <1>1 DEF Init, MutexInv, DecisionInv, ClientInv
  <1> QED
    BY <1>1, <1>2, <1>3 DEF Init, IInv, NobodySleepsThroughStop

(* Every step of the pool keeps the inductive invariant. *)
LEMMA NextIInv == IInv /\ [Next]_vars => IInv'
  <1> SUFFICES ASSUME IInv, [Next]_vars
               PROVE  IInv'
    OBVIOUS
  <1> USE PoolAssumption
  <1>1. ASSUME NEW w \in Thread, Lock(w)
        PROVE  IInv'
    BY <1>1 DEF IInv, Lock, TypeOK, MutexInv, DecisionInv, ClientInv,
                NobodySleepsThroughStop
  <1>2. ASSUME NEW w \in Thread, Park(w)
        PROVE  IInv'
    BY <1>2 DEF IInv, Park, WaitPredicate, TypeOK, MutexInv, DecisionInv, ClientInv,
                NobodySleepsThroughStop
  <1>3. ASSUME NEW w \in Thread, Sleep(w)
        PROVE  IInv'
    BY <1>3 DEF IInv, Sleep, TypeOK, MutexInv, DecisionInv, ClientInv,
                NobodySleepsThroughStop
  <1>4. ASSUME NEW w \in Thread, SpuriousWakeup(w)
        PROVE  IInv'
    BY <1>4 DEF IInv, SpuriousWakeup, TypeOK, MutexInv, DecisionInv, ClientInv,
                NobodySleepsThroughStop
  <1>5. ASSUME NEW w \in Thread, Exit(w)
        PROVE  IInv'
    BY <1>5 DEF IInv, Exit, LeaveLoop, WaitPredicate, TypeOK, MutexInv, DecisionInv,
                ClientInv, NobodySleepsThroughStop
  <1>6. ASSUME NEW w \in Thread, Take(w)
        PROVE  IInv'
    <2>1. tasks_ # <<>> /\ tasks_ \in Seq(Task)
      BY <1>6 DEF IInv, Take, LeaveLoop, WaitPredicate, TypeOK
    <2>2. Head(tasks_) \in Task /\ Tail(tasks_) \in Seq(Task)
      BY <2>1, QueueFacts
    <2>3. TypeOK' /\ MutexInv'
      BY <1>6, <2>2 DEF IInv, Take, TypeOK, MutexInv
    <2>4. \A v \in Thread : pc[v] \notin {"parking", "exit"}
      BY <2>1 DEF IInv, DecisionInv
    <2> QED
      BY <1>6, <2>3, <2>4 DEF IInv, Take, TypeOK, DecisionInv, ClientInv,
         NobodySleepsThroughStop
  <1>7. ASSUME NEW w \in Thread, Finish(w)
        PROVE  IInv'
    BY <1>7 DEF IInv, Finish, TypeOK, MutexInv, DecisionInv, ClientInv,
                NobodySleepsThroughStop
  <1>8. ASSUME NEW t \in Task, Enqueue(t)
        PROVE  IInv'
    <2>1. Append(tasks_, t) \in Seq(Task)
      BY AppendProperties DEF IInv, TypeOK
    <2>2. \A w \in Thread : pc[w] \notin {"parking", "exit"}
      BY <1>8 DEF IInv, Enqueue, MutexInv, DecisionInv
    <2> QED
      BY <1>8, <2>1, <2>2 DEF IInv, Enqueue, TypeOK, MutexInv, DecisionInv, ClientInv,
         NobodySleepsThroughStop
  <1>9. CASE NotifyOne
    <2>1. CASE \E w \in Thread : pc[w] = "parked" /\ pc' = [pc EXCEPT ![w] = "lock"]
      BY <1>9, <2>1 DEF IInv, NotifyOne, TypeOK, MutexInv, DecisionInv, ClientInv,
         NobodySleepsThroughStop
    <2>2. CASE (\A w \in Thread : pc[w] # "parked") /\ UNCHANGED pc
      <3>1. tasks_ # <<>> => \A w \in Thread : pc[w] \in {"lock", "test", "run"}
        BY <1>9, <2>2 DEF IInv, NotifyOne, TypeOK, DecisionInv, ClientInv
      <3> QED
        BY <1>9, <2>2, <3>1 DEF IInv, NotifyOne, TypeOK, MutexInv, DecisionInv, ClientInv,
           NobodySleepsThroughStop
    <2> QED
      BY <1>9, <2>1, <2>2 DEF NotifyOne
  <1>10. CASE Stop
    BY <1>10 DEF IInv, Stop, TypeOK, MutexInv, DecisionInv, ClientInv,
                 NobodySleepsThroughStop
  <1>11. CASE NotifyAll
    BY <1>11 DEF IInv, NotifyAll, TypeOK, MutexInv, DecisionInv, ClientInv,
                 NobodySleepsThroughStop
  <1>12. CASE Join
    BY <1>12 DEF IInv, Join, TypeOK, MutexInv, DecisionInv, ClientInv,
                 NobodySleepsThroughStop
  <1>13. CASE UNCHANGED vars
    BY <1>13 DEF vars, IInv, TypeOK, MutexInv, DecisionInv, ClientInv,
                 NobodySleepsThroughStop
  <1> QED
    BY <1>1, <1>2, <1>3, <1>4, <1>5, <1>6, <1>7, <1>8, <1>9, <1>10, <1>11, <1>12, <1>13
       DEF Next, Step, Client
-----------------------------------------------------------------------------
(* TypeOK of thread_pool.h: a worker holds a task exactly while it runs it. *)
THEOREM TypeCorrect == Spec => []TypeOK
  <1>1. IInv => TypeOK
    BY DEF IInv
  <1> QED
    BY <1>1, InitIInv, NextIInv, PTL DEF Spec

(* The workers that are awake, and what becomes of them when one joins or  *)
(* leaves.                                                                 *)
LEMMA AwakeFacts ==
  ASSUME IInv, IInv'
  PROVE  /\ Cardinality(Awake) \in Nat /\ Cardinality(Awake') \in Nat
         /\ Len(tasks_) \in Nat /\ Len(tasks_') \in Nat
         /\ Awake \subseteq Awake' => Cardinality(Awake) <= Cardinality(Awake')
         /\ \A w \in Thread \ Awake :
              Awake' = Awake \cup {w} => Cardinality(Awake') = Cardinality(Awake) + 1
         /\ \A w \in Awake :
              Awake' = Awake \ {w} => Cardinality(Awake') = Cardinality(Awake) - 1
  <1>1. IsFiniteSet(Thread) /\ Awake \subseteq Thread /\ Awake' \subseteq Thread
    BY PoolAssumption DEF Awake
  <1>2. IsFiniteSet(Awake) /\ IsFiniteSet(Awake')
    BY <1>1, FS_Subset
  <1>3. Len(tasks_) \in Nat /\ Len(tasks_') \in Nat
    BY LenProperties DEF IInv, TypeOK
  <1>4. Cardinality(Awake) \in Nat /\ Cardinality(Awake') \in Nat
    BY <1>2, FS_CardinalityType
  <1>5. Awake \subseteq Awake' => Cardinality(Awake) <= Cardinality(Awake')
    BY <1>2, FS_Subset
  <1>6. \A w \in Thread \ Awake :
          Awake' = Awake \cup {w} => Cardinality(Awake') = Cardinality(Awake) + 1
    BY <1>2, FS_AddElement
  <1>7. \A w \in Awake :
          Awake' = Awake \ {w} => Cardinality(Awake') = Cardinality(Awake) - 1
    BY <1>2, FS_RemoveElement
  <1> QED
    BY <1>3, <1>4, <1>5, <1>6, <1>7

(* No step leaves a sleeper behind and fewer awake workers than tasks. *)
LEMMA NextAwake == IInv /\ IInv' /\ AwakeInv /\ [Next]_vars => AwakeInv'
  <1> SUFFICES ASSUME IInv, IInv', AwakeInv, [Next]_vars
               PROVE  AwakeInv'
    OBVIOUS
  <1>t. pc \in [Thread -> {"lock", "test", "parking", "parked", "run", "exit"}]
    BY DEF IInv, TypeOK
  <1>e. ASSUME tasks_' = <<>>
        PROVE  AwakeInv'
    BY <1>e, AwakeFacts DEF AwakeInv
  <1>1. ASSUME NEW w \in Thread, Lock(w)
        PROVE  AwakeInv'
    <2>1. Awake' = Awake /\ Sleepers' = Sleepers
      BY <1>1, <1>t DEF Lock, Awake, Sleepers
    <2> QED
      BY <1>1, <2>1 DEF Lock, AwakeInv
  <1>2. ASSUME NEW w \in Thread, Park(w) \/ Sleep(w) \/ Exit(w)
        PROVE  AwakeInv'
    <2>1. tasks_' = <<>>
      BY <1>2 DEF Park, Sleep, Exit, WaitPredicate, LeaveLoop, IInv, DecisionInv
    <2> QED
      BY <2>1, <1>e
  <1>3. ASSUME NEW w \in Thread, SpuriousWakeup(w) \/ Finish(w)
        PROVE  AwakeInv'
    <2>1. Awake \subseteq Awake' /\ Sleepers' \subseteq Sleepers
      BY <1>3, <1>t DEF SpuriousWakeup, Finish, Awake, Sleepers
    <2>2. UNCHANGED <<tasks_, client>>
      BY <1>3 DEF SpuriousWakeup, Finish
    <2> QED
      BY <2>1, <2>2, AwakeFacts DEF AwakeInv
  <1>4. ASSUME NEW w \in Thread, Take(w)
        PROVE  AwakeInv'
    <2>1. w \in Awake /\ Awake' = Awake \ {w} /\ Sleepers' = Sleepers
      BY <1>4, <1>t DEF Take, Awake, Sleepers
    <2>2. Len(tasks_') = Len(tasks_) - 1 /\ client' = client
      BY <1>4, QueueFacts DEF Take, WaitPredicate, LeaveLoop, IInv, TypeOK
    <2>3. Cardinality(Awake') = Cardinality(Awake) - 1
      BY <2>1, AwakeFacts
    <2>4. /\ Len(tasks_) \in Nat /\ Len(tasks_') \in Nat
          /\ Cardinality(Awake) \in Nat /\ Cardinality(Awake') \in Nat
      BY AwakeFacts
    <2> QED
      BY <2>1, <2>2, <2>3, <2>4 DEF AwakeInv
  <1>5. ASSUME NEW t \in Task, Enqueue(t)
        PROVE  AwakeInv'
    <2>1. Awake' = Awake /\ Sleepers' = Sleepers
      BY <1>5 DEF Enqueue, Awake, Sleepers
    <2>2. Len(tasks_') = Len(tasks_) + 1 /\ client = "idle" /\ client' = "notify_one"
      BY <1>5, AppendProperties DEF Enqueue, IInv, TypeOK
    <2> QED
      BY <2>1, <2>2, AwakeFacts DEF AwakeInv
  <1>6. CASE NotifyOne
    <2>1. tasks_' = tasks_ /\ client = "notify_one" /\ client' = "idle"
      BY <1>6 DEF NotifyOne
    <2>2. ASSUME NEW w \in Thread, pc[w] = "parked", pc' = [pc EXCEPT ![w] = "lock"]
          PROVE  AwakeInv'
      <3>1. w \in Thread \ Awake /\ Awake' = Awake \cup {w} /\ w \in Sleepers
        BY <2>2, <1>t DEF Awake, Sleepers
      <3>2. Cardinality(Awake') = Cardinality(Awake) + 1
        BY <3>1, AwakeFacts
      <3>3. Len(tasks_) \in Nat /\ Cardinality(Awake) \in Nat
        BY AwakeFacts
      <3> QED
        BY <2>1, <3>1, <3>2, <3>3 DEF AwakeInv
    <2>3. ASSUME \A w \in Thread : pc[w] # "parked", UNCHANGED pc
          PROVE  AwakeInv'
      <3>1. Sleepers # {} => tasks_ = <<>>
        BY <2>3 DEF Sleepers, IInv, DecisionInv
      <3>2. Sleepers' = Sleepers
        BY <2>3 DEF Sleepers
      <3>3. CASE Sleepers = {}
        BY <3>2, <3>3 DEF AwakeInv
      <3> QED
        BY <2>1, <3>1, <3>3, <1>e
    <2> QED
      BY <1>6, <2>2, <2>3 DEF NotifyOne
  <1>7. CASE Stop \/ Join \/ UNCHANGED vars
    <2>1. Awake' = Awake /\ Sleepers' = Sleepers /\ tasks_' = tasks_
      BY <1>7 DEF Stop, Join, vars, Awake, Sleepers
    <2>2. client = "notify_one" <=> client' = "notify_one"
      BY <1>7 DEF Stop, Join, vars
    <2> QED
      BY <2>1, <2>2 DEF AwakeInv
  <1>8. CASE NotifyAll
    <2>1. Sleepers' = {}
      BY <1>8, <1>t DEF NotifyAll, Sleepers, IInv, ClientInv, DecisionInv
    <2> QED
      BY <2>1 DEF AwakeInv
  <1> QED
    BY <1>1, <1>2, <1>3, <1>4, <1>5, <1>6, <1>7, <1>8 DEF Next, Step, Client

(* enqueue() never strands a task, in a pool of any size: as long as a     *)
(* worker sleeps, there is an awake one for every task in the queue.       *)
THEOREM NoLostTask == Spec => []NoStrandedTask
  <1>1. Init => AwakeInv
    <2> SUFFICES ASSUME Init
                 PROVE  Sleepers = {}
      BY DEF AwakeInv
    <2> QED
      BY DEF Init, Sleepers
  <1>2. IInv /\ AwakeInv => NoStrandedTask
    <2> SUFFICES ASSUME IInv, AwakeInv, Sleepers # {}, client # "notify_one"
                 PROVE  Len(tasks_) <= Cardinality(Awake)
      BY DEF NoStrandedTask
    <2>1. IsFiniteSet(Awake)
      BY PoolAssumption, FS_Subset DEF Awake
    <2> QED
      BY <2>1, FS_CardinalityType DEF AwakeInv
  <1> QED
    BY <1>1, <1>2, InitIInv, NextIInv, NextAwake, PTL DEF Spec

(* ~ThreadPool() leaves no worker asleep behind its notify_all().          *)
THEOREM NoLostStop == Spec => []NobodySleepsThroughStop
  <1>1. IInv => NobodySleepsThroughStop
    BY DEF IInv
  <1> QED
    BY <1>1, InitIInv, NextIInv, PTL DEF Spec

(* When ~ThreadPool() returns, every task ever enqueued has run to its end. *)
THEOREM Drained == Spec => []DrainedWhenGone
  <1>1. ASSUME IInv, client = "gone"
        PROVE  Submitted = done
    <2>1. \A w \in Thread : pc[w] = "exit" /\ tasks_ = <<>>
      BY <1>1 DEF IInv, ClientInv, DecisionInv
    <2>2. tasks_ = <<>>
      BY <2>1, PoolAssumption
    <2>3. Queued = {}
      BY <2>2 DEF Queued
    <2>4. Running = {}
      BY <1>1, <2>1 DEF IInv, TypeOK, Running
    <2> QED
      BY <2>3, <2>4 DEF Submitted
  <1>2. IInv => DrainedWhenGone
    BY <1>1 DEF DrainedWhenGone
  <1> QED
    BY <1>2, InitIInv, NextIInv, PTL DEF Spec
-----------------------------------------------------------------------------
(* Once a task is somewhere it is nowhere else: enqueue() hands over new   *)
(* callables only, and a task moves from the queue to one worker.          *)
LEMMA NextOnce == TypeOK /\ TypeOK' /\ OnceInv /\ [Next]_vars => OnceInv'
  <1> SUFFICES ASSUME TypeOK, TypeOK', OnceInv, [Next]_vars
               PROVE  OnceInv'
    OBVIOUS
  <1> USE PoolAssumption
  <1>1. CASE UNCHANGED <<tasks_, task, done>>
    BY <1>1 DEF OnceInv, Running
  <1>2. ASSUME NEW w \in Thread, Take(w)
        PROVE  OnceInv'
    <2>1. tasks_ # <<>> /\ tasks_ \in Seq(Task)
      BY <1>2 DEF Take, LeaveLoop, WaitPredicate, TypeOK
    <2>2. /\ Len(tasks_) \in Nat \ {0}
          /\ Head(tasks_) = tasks_[1]
          /\ Head(tasks_) \in Task
          /\ Len(tasks_') = Len(tasks_) - 1
          /\ \A i \in 1 .. Len(tasks_') : tasks_'[i] = tasks_[i + 1]
      BY <1>2, <2>1, QueueFacts DEF Take
    <2>3. /\ task' = [task EXCEPT ![w] = Head(tasks_)]
          /\ done' = done
          /\ task \in [Thread -> Task \cup {NoTask}]
      BY <1>2 DEF Take, TypeOK
    <2>4. Running' \subseteq Running \cup {tasks_[1]}
      BY <2>2, <2>3 DEF Running
    <2>5. \A v \in Thread : task[v] # tasks_[1]
      BY <2>2, <2>3 DEF OnceInv, Running
    <2>6. \A u, v \in Thread : task'[u] = task'[v] /\ task'[u] # NoTask => u = v
      BY <2>2, <2>3, <2>5 DEF OnceInv
    <2>7. \A i, j \in 1 .. Len(tasks_') : tasks_'[i] = tasks_'[j] => i = j
      BY <2>2 DEF OnceInv
    <2>8. \A i \in 1 .. Len(tasks_') : i + 1 \in 1 .. Len(tasks_) /\ i + 1 # 1
      BY <2>2
    <2>9. \A i \in 1 .. Len(tasks_') : tasks_'[i] \notin Running \cup done \cup {tasks_[1]}
      BY <2>2, <2>8 DEF OnceInv
    <2>10. tasks_[1] \notin done
      BY <2>2 DEF OnceInv
    <2> QED
      BY <2>3, <2>4, <2>6, <2>7, <2>9, <2>10 DEF OnceInv
  <1>3. ASSUME NEW w \in Thread, Finish(w)
        PROVE  OnceInv'
    <2>1. /\ task' = [task EXCEPT ![w] = NoTask]
          /\ done' = done \cup {task[w]}
          /\ tasks_' = tasks_
          /\ task[w] # NoTask
          /\ task \in [Thread -> Task \cup {NoTask}]
      BY <1>3 DEF Finish, TypeOK
    <2>2. task[w] \in Running
      BY <2>1 DEF Running
    <2>3. Running' = Running \ {task[w]}
      BY <2>1 DEF Running, OnceInv
    <2> QED
      BY <2>1, <2>2, <2>3 DEF OnceInv
  <1>4. ASSUME NEW t \in Task, Enqueue(t)
        PROVE  OnceInv'
    <2>1. /\ t \notin Queued \cup Running \cup done
          /\ UNCHANGED <<task, done>>
          /\ tasks_ \in Seq(Task)
          /\ Len(tasks_) \in Nat
      BY <1>4, LenProperties DEF Enqueue, Submitted, TypeOK
    <2>2. /\ Len(tasks_') = Len(tasks_) + 1
          /\ tasks_'[Len(tasks_) + 1] = t
          /\ \A i \in 1 .. Len(tasks_) : tasks_'[i] = tasks_[i]
      BY <1>4, <2>1, AppendProperties DEF Enqueue
    <2>3. \A i \in 1 .. Len(tasks_') : i \in 1 .. Len(tasks_) \/ i = Len(tasks_) + 1
      BY <2>1, <2>2
    <2>4. Running' = Running
      BY <2>1 DEF Running
    <2>5. \A i \in 1 .. Len(tasks_) : tasks_[i] # t
      BY <2>1 DEF Queued
    <2>6. \A i, j \in 1 .. Len(tasks_') : tasks_'[i] = tasks_'[j] => i = j
      BY <2>2, <2>3, <2>5 DEF OnceInv
    <2> QED
      BY <2>1, <2>2, <2>3, <2>4, <2>6 DEF OnceInv
  <1> QED
    BY <1>1, <1>2, <1>3, <1>4 DEF Next, Step, Client, Lock, Park, Sleep, Exit,
       SpuriousWakeup, NotifyOne, Stop, NotifyAll, Join, vars

(* While one worker is idle, fewer tasks run than there are threads.       *)
LEMMA IdleWorker ==
  ASSUME TypeOK, NEW w \in Thread, task[w] = NoTask
  PROVE  Cardinality(Running) < Cardinality(Thread)
  <1> DEFINE busy == {v \in Thread : task[v] # NoTask}
             f == [v \in busy |-> task[v]]
  <1>1. task \in [Thread -> Task \cup {NoTask}] /\ IsFiniteSet(Thread)
    BY PoolAssumption DEF TypeOK
  <1>2. f \in Surjection(busy, Running)
    BY <1>1 DEF Surjection, Running
  <1>3. busy \subseteq Thread \ {w} /\ IsFiniteSet(Thread \ {w})
    BY <1>1, FS_RemoveElement
  <1>4. IsFiniteSet(busy) /\ Cardinality(busy) <= Cardinality(Thread \ {w})
    BY <1>3, FS_Subset
  <1>5. IsFiniteSet(Running) /\ Cardinality(Running) <= Cardinality(busy)
    BY <1>2, <1>4, FS_Surjection
  <1>6. Cardinality(Thread \ {w}) = Cardinality(Thread) - 1
    BY <1>1, FS_RemoveElement
  <1>7. /\ Cardinality(Thread) \in Nat
        /\ Cardinality(busy) \in Nat
        /\ Cardinality(Running) \in Nat
        /\ Cardinality(Thread \ {w}) \in Nat
    BY <1>1, <1>3, <1>4, <1>5, FS_CardinalityType
  <1> QED
    BY <1>4, <1>5, <1>6, <1>7

(* Each step of the pool is a step of TaskPool or leaves it as it is.      *)
LEMMA StepSimulates ==
  ASSUME TypeOK, OnceInv, [Next]_vars
  PROVE  [Pool!Next]_(Pool!vars)
  <1> USE PoolAssumption
  <1>1. CASE UNCHANGED <<tasks_, task, done>>
    BY <1>1 DEF Pool!vars, Running
  <1>2. ASSUME NEW w \in Thread, Take(w)
        PROVE  Pool!Next
    <2>1. tasks_ # <<>> /\ tasks_ \in Seq(Task)
      BY <1>2 DEF Take, LeaveLoop, WaitPredicate, TypeOK
    <2>2. Head(tasks_) \in Task
      BY <2>1, QueueFacts
    <2>3. /\ task' = [task EXCEPT ![w] = Head(tasks_)]
          /\ task[w] = NoTask
          /\ task \in [Thread -> Task \cup {NoTask}]
          /\ tasks_' = Tail(tasks_)
          /\ done' = done
      BY <1>2 DEF Take, TypeOK
    <2>4. Running' = Running \cup {Head(tasks_)}
      BY <2>2, <2>3 DEF Running
    <2>5. Cardinality(Running) < Cardinality(Thread)
      BY <2>3, IdleWorker
    <2>6. Pool!Cardinality(Running) = Cardinality(Running)
      BY DEF Pool!Cardinality, Cardinality, Pool!IsFiniteSet, IsFiniteSet
    <2>7. Pool!Start
      BY <2>1, <2>3, <2>4, <2>5, <2>6 DEF Pool!Start
    <2> QED
      BY <2>7 DEF Pool!Next
  <1>3. ASSUME NEW w \in Thread, Finish(w)
        PROVE  Pool!Next
    <2>1. /\ task' = [task EXCEPT ![w] = NoTask]
          /\ done' = done \cup {task[w]}
          /\ tasks_' = tasks_
          /\ task[w] \in Task
          /\ task[w] # NoTask
          /\ task \in [Thread -> Task \cup {NoTask}]
      BY <1>3 DEF Finish, TypeOK
    <2>2. task[w] \in Running
      BY <2>1 DEF Running
    <2>3. Running' = Running \ {task[w]}
      BY <2>1 DEF Running, OnceInv
    <2>4. Pool!Finish(task[w])
      BY <2>1, <2>2, <2>3 DEF Pool!Finish
    <2> QED
      BY <2>1, <2>4 DEF Pool!Next
  <1>4. ASSUME NEW t \in Task, Enqueue(t)
        PROVE  Pool!Next
    <2>1. Running' = Running
      BY <1>4 DEF Enqueue, Running
    <2>2. Pool!Submit(t)
      BY <1>4, <2>1 DEF Enqueue, Submitted, Queued, Pool!Submit, Pool!Queued
    <2> QED
      BY <2>2 DEF Pool!Next
  <1> QED
    BY <1>1, <1>2, <1>3, <1>4 DEF Next, Step, Client, Lock, Park, Sleep, Exit,
       SpuriousWakeup, NotifyOne, Stop, NotifyAll, Join, vars

(* thread_pool.h keeps the safety part of TaskPool's promise: tasks start  *)
(* in submission order, once each, and never more at a time than threads.  *)
THEOREM PoolRefinement == Spec => Pool!Init /\ [][Pool!Next]_(Pool!vars)
  <1>1. Init => OnceInv /\ Pool!Init
    <2> SUFFICES ASSUME Init
                 PROVE  OnceInv /\ Pool!Init
      OBVIOUS
    <2>1. tasks_ = <<>> /\ Len(tasks_) = 0
      BY EmptySeq DEF Init
    <2>2. Running = {} /\ done = {}
      BY DEF Init, Running
    <2> QED
      BY <2>1, <2>2 DEF Init, OnceInv, Pool!Init
  <1>2. IInv => TypeOK
    BY DEF IInv
  <1>3. IInv /\ IInv' /\ OnceInv /\ [Next]_vars => OnceInv'
    BY NextOnce DEF IInv
  <1>4. IInv /\ OnceInv /\ [Next]_vars => [Pool!Next]_(Pool!vars)
    BY StepSimulates DEF IInv
  <1> QED
    BY <1>1, <1>3, <1>4, InitIInv, NextIInv, PTL DEF Spec
=============================================================================
