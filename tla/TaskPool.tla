------------------------------ MODULE TaskPool ------------------------------
(***************************************************************************)
(* What the users of ThreadPool (sender main, Server::Run) rely on: tasks  *)
(* start in the order they were submitted, each exactly once, at most Size *)
(* of them run at the same time, and a task at the head of the queue does  *)
(* start once fewer than Size tasks are running.  Nothing is promised      *)
(* about a task ending: Supervise may block for as long as it likes.       *)
(***************************************************************************)
EXTENDS Naturals, Sequences, FiniteSets

CONSTANTS Task, \* the callables handed to enqueue()
          Size  \* number of threads of the pool

VARIABLES queue,    \* submitted, not yet started
          running,  \* started, not yet finished
          finished  \* finished: their futures are ready

vars == <<queue, running, finished>>

Queued == {queue[i] : i \in 1 .. Len(queue)}

Init == /\ queue = <<>>
        /\ running = {}
        /\ finished = {}

Submit(t) == /\ t \notin Queued \cup running \cup finished
             /\ queue' = Append(queue, t)
             /\ UNCHANGED <<running, finished>>

Start == /\ queue # <<>>
         /\ Cardinality(running) < Size
         /\ running' = running \cup {Head(queue)}
         /\ queue' = Tail(queue)
         /\ UNCHANGED finished

Finish(t) == /\ t \in running
             /\ running' = running \ {t}
             /\ finished' = finished \cup {t}
             /\ UNCHANGED queue

Next == \/ \E t \in Task : Submit(t) \/ Finish(t)
        \/ Start

Spec == Init /\ [][Next]_vars /\ WF_vars(Start)
=============================================================================
