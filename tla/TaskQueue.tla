------------------------------- MODULE TaskQueue -------------------------------
(***************************************************************************)
(* include/TaskQueue.hpp: the mutex and condition variable job queue, the  *)
(* one hft_engine_mutex is built with.                                     *)
(*                                                                         *)
(* Everything between taking mtx_ and releasing it (or waiting, which      *)
(* releases it) is one action; the notifications, which come after the     *)
(* unlock, are actions of their own.  A call's evaluation of its wait      *)
(* predicate is the same code on entry and after every wake-up.            *)
(***************************************************************************)
EXTENDS Integers, Sequences, FiniteSets

CONSTANTS
    Producers,  \* the threads that call push()
    Workers,    \* the threads that call pop()
    Items,      \* the jobs
    NoItem,     \* what a thread holds when it holds no job
    Capacity,   \* capacity_
    MaxPush     \* bound: no push() starts after this many were accepted

ASSUME TaskQueueAssumption ==
    /\ Producers \cap Workers = {}
    /\ IsFiniteSet(Producers) /\ IsFiniteSet(Workers)
    /\ Capacity \in Nat \ {0}
    /\ MaxPush \in Nat
    /\ NoItem \notin Items

VARIABLES
    queue,      \* queue_
    shutdown,   \* shutdown_
    pc,         \* thread -> where it is; "waiting" is inside wait()
    item,       \* thread -> the item it pushes, or has popped
    closer,     \* where the thread that calls shutdown() is
    accepted    \* history: number of accepted pushes

vars == <<queue, shutdown, pc, item, closer, accepted>>

Threads == Producers \cup Workers

Init ==
    /\ queue    = << >>
    /\ shutdown = FALSE
    /\ pc       = [t \in Threads |-> "idle"]
    /\ item     = [t \in Threads |-> NoItem]
    /\ closer   = "idle"
    /\ accepted = 0

-----------------------------------------------------------------------------
\* t evaluates its predicate with mtx_ held.
Ready(t) == pc[t] \in {"entered", "woken"}
Goto(t, label) == pc' = [pc EXCEPT ![t] = label]

Waiting(S) == {t \in S : pc[t] = "waiting"}

\* notify_one() by thread t, which goes on at label.
NotifyOne(t, S, label) ==
    \/ \E u \in Waiting(S) : pc' = [pc EXCEPT ![t] = label, ![u] = "woken"]
    \/ Waiting(S) = {} /\ Goto(t, label)

NotifyAll(S) ==
    pc' = [t \in Threads |-> IF t \in Waiting(S) THEN "woken" ELSE pc[t]]

\* wait() woke up: after a notification (above), or for no reason.
SpuriousWake(t) ==
    /\ pc[t] = "waiting"
    /\ Goto(t, "woken")
    /\ UNCHANGED <<queue, shutdown, item, closer, accepted>>

-----------------------------------------------------------------------------
(* bool push(T item)                                                       *)

Push(p, x) ==
    /\ pc[p] = "idle"
    /\ Goto(p, "entered")
    /\ item' = [item EXCEPT ![p] = x]
    /\ UNCHANGED <<queue, shutdown, closer, accepted>>

PushWait(p) ==
    /\ Ready(p)
    /\ Len(queue) >= Capacity
    /\ ~shutdown
    /\ Goto(p, "waiting")
    /\ UNCHANGED <<queue, shutdown, item, closer, accepted>>

\* if (shutdown_) return false
PushRefused(p) ==
    /\ Ready(p)
    /\ shutdown
    /\ Goto(p, "idle")
    /\ item' = [item EXCEPT ![p] = NoItem]
    /\ UNCHANGED <<queue, shutdown, closer, accepted>>

\* The item is moved in and the lock released.
Enqueue(p) ==
    /\ queue' = Append(queue, item[p])
    /\ item' = [item EXCEPT ![p] = NoItem]
    /\ accepted' = accepted + 1
    /\ Goto(p, "notify")
    /\ UNCHANGED <<shutdown, closer>>

\* Mutant: shutdown_ is not looked at once there is room.
PushEnqueue_IgnoresShutdown(p) ==
    /\ Ready(p)
    /\ Len(queue) < Capacity
    /\ Enqueue(p)

PushEnqueue(p) ==
    /\ Ready(p)
    /\ ~shutdown
    /\ Len(queue) < Capacity
    /\ Enqueue(p)

\* Mutant: only a push into an empty queue notifies.
PushNotify_FirstOnly(p) ==
    /\ pc[p] = "notify"
    /\ IF Len(queue) <= 1 THEN NotifyOne(p, Workers, "idle") ELSE Goto(p, "idle")
    /\ UNCHANGED <<queue, shutdown, item, closer, accepted>>

\* notEmpty_.notify_one(); return true
PushNotify(p) ==
    /\ pc[p] = "notify"
    /\ NotifyOne(p, Workers, "idle")
    /\ UNCHANGED <<queue, shutdown, item, closer, accepted>>

-----------------------------------------------------------------------------
(* std::optional<T> pop()                                                  *)

Pop(w) ==
    /\ pc[w] = "idle"
    /\ Goto(w, "entered")
    /\ UNCHANGED <<queue, shutdown, item, closer, accepted>>

PopWait(w) ==
    /\ Ready(w)
    /\ queue = << >>
    /\ ~shutdown
    /\ Goto(w, "waiting")
    /\ UNCHANGED <<queue, shutdown, item, closer, accepted>>

\* return std::nullopt: the worker goes home.
PopNothing(w) ==
    /\ Ready(w)
    /\ queue = << >>
    /\ shutdown
    /\ Goto(w, "gone")
    /\ UNCHANGED <<queue, shutdown, item, closer, accepted>>

PopDequeue(w) ==
    /\ Ready(w)
    /\ queue # << >>
    /\ item' = [item EXCEPT ![w] = Head(queue)]
    /\ queue' = Tail(queue)
    /\ Goto(w, "notify")
    /\ UNCHANGED <<shutdown, closer, accepted>>

\* notFull_.notify_one(); return item
PopNotify(w) ==
    /\ pc[w] = "notify"
    /\ NotifyOne(w, Producers, "busy")
    /\ UNCHANGED <<queue, shutdown, item, closer, accepted>>

\* The worker has run the job and destroys it.
JobDone(w) ==
    /\ pc[w] = "busy"
    /\ Goto(w, "idle")
    /\ item' = [item EXCEPT ![w] = NoItem]
    /\ UNCHANGED <<queue, shutdown, closer, accepted>>

-----------------------------------------------------------------------------
(* void shutdown()                                                         *)

Shutdown ==
    /\ closer = "idle"
    /\ shutdown' = TRUE
    /\ closer' = "notEmpty"
    /\ UNCHANGED <<queue, pc, item, accepted>>

\* Mutant: notify_one().
ShutdownNotEmpty_One ==
    /\ closer = "notEmpty"
    /\ closer' = "notFull"
    /\ \/ \E w \in Waiting(Workers) : Goto(w, "woken")
       \/ Waiting(Workers) = {} /\ UNCHANGED pc
    /\ UNCHANGED <<queue, shutdown, item, accepted>>

ShutdownNotEmpty ==
    /\ closer = "notEmpty"
    /\ closer' = "notFull"
    /\ NotifyAll(Workers)
    /\ UNCHANGED <<queue, shutdown, item, accepted>>

ShutdownNotFull ==
    /\ closer = "notFull"
    /\ closer' = "done"
    /\ NotifyAll(Producers)
    /\ UNCHANGED <<queue, shutdown, item, accepted>>

-----------------------------------------------------------------------------
PushOwn(p) == PushWait(p) \/ PushRefused(p) \/ PushEnqueue(p) \/ PushNotify(p)
PopOwn(w)  == \/ Pop(w) \/ PopWait(w) \/ PopNothing(w) \/ PopDequeue(w)
              \/ PopNotify(w) \/ JobDone(w)
Closing    == ShutdownNotEmpty \/ ShutdownNotFull

Next ==
    \/ \E p \in Producers :
          \/ \E x \in Items : accepted < MaxPush /\ Push(p, x)
          \/ PushOwn(p)
    \/ \E w \in Workers : PopOwn(w)
    \/ \E t \in Threads : SpuriousWake(t)
    \/ Shutdown \/ Closing

\* Threads that can move do, a worker that has run its job calls pop() again.
Fairness ==
    /\ \A p \in Producers : WF_vars(PushOwn(p))
    /\ \A w \in Workers : WF_vars(PopOwn(w))
    /\ WF_vars(Closing)

Spec     == Init /\ [][Next]_vars
FairSpec == Spec /\ Fairness

-----------------------------------------------------------------------------
(* Properties                                                              *)

At(S, label) == {t \in S : pc[t] = label}

\* Nobody sleeps in vain: while a worker waits, every queued item has a push
\* about to notify or a worker woken up and on its way; while a pusher waits,
\* every free slot has a pop about to notify or a pusher woken up.
NobodySleepsInVain ==
    /\ At(Workers, "waiting") # {} =>
          Len(queue) <= Cardinality(At(Producers, "notify")) + Cardinality(At(Workers, "woken"))
    /\ At(Producers, "waiting") # {} /\ ~shutdown =>
          Capacity - Len(queue) <= Cardinality(At(Workers, "notify"))
                                   + Cardinality(At(Producers, "woken"))

\* "shutdown() wakes every blocked thread": pushers blocked on a full queue
\* return, and every worker drains the queue and goes home.
ShutdownReleasesAll ==
    /\ shutdown ~> \A w \in Workers : pc[w] = "gone"
    /\ \A p \in Producers : shutdown /\ pc[p] = "waiting" ~> pc[p] = "idle"

Jobs == INSTANCE JobQueue WITH
            Jobs    <- Items,
            NoJob   <- NoItem,
            closed  <- shutdown,
            running <- [w \in Workers |-> item[w]],
            gone    <- {w \in Workers : pc[w] = "gone"}

\* The job queue ThreadPool relies on, the same one the lock-free queue is.
IsJobQueue == Jobs!Spec
=============================================================================
