------------------------------- MODULE JobQueue -------------------------------
(***************************************************************************)
(* What both task queues promise to ThreadPool: a bounded first-in first-  *)
(* out queue of jobs that can be shut down.                                *)
(*                                                                         *)
(*   - an accepted job is handed to exactly one worker, in order;          *)
(*   - a worker is told to go home only when the queue is shut down and    *)
(*     empty, and from then on nothing is accepted: no job is left behind. *)
(*                                                                         *)
(* A push that was under way when shutdown() came may still be accepted.   *)
(***************************************************************************)
EXTENDS Naturals, Sequences

CONSTANTS Workers, Jobs, NoJob, Capacity

VARIABLES
    queue,      \* the accepted jobs no worker has taken, oldest first
    closed,     \* shutdown() has been called
    running,    \* worker -> the job it has taken, or NoJob
    gone        \* the workers that were told to go home

vars == <<queue, closed, running, gone>>

Init ==
    /\ queue   = << >>
    /\ closed  = FALSE
    /\ running = [w \in Workers |-> NoJob]
    /\ gone    = {}

Accept(j) ==
    /\ Len(queue) < Capacity
    /\ gone = {}
    /\ queue' = Append(queue, j)
    /\ UNCHANGED <<closed, running, gone>>

Take(w) ==
    /\ queue # << >>
    /\ running[w] = NoJob
    /\ w \notin gone
    /\ running' = [running EXCEPT ![w] = Head(queue)]
    /\ queue' = Tail(queue)
    /\ UNCHANGED <<closed, gone>>

Finish(w) ==
    /\ running[w] # NoJob
    /\ running' = [running EXCEPT ![w] = NoJob]
    /\ UNCHANGED <<queue, closed, gone>>

Close ==
    /\ closed' = TRUE
    /\ UNCHANGED <<queue, running, gone>>

GoHome(w) ==
    /\ closed
    /\ queue = << >>
    /\ running[w] = NoJob
    /\ gone' = gone \cup {w}
    /\ UNCHANGED <<queue, closed, running>>

Next ==
    \/ \E j \in Jobs : Accept(j)
    \/ \E w \in Workers : Take(w) \/ Finish(w) \/ GoHome(w)
    \/ Close

Spec == Init /\ [][Next]_vars
=============================================================================
