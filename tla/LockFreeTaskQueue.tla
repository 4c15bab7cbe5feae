--------------------------- MODULE LockFreeTaskQueue ---------------------------
(***************************************************************************)
(* include/LockFreeTaskQueue.hpp: the blocking job queue around the ring.  *)
(*                                                                         *)
(* Producers run push(), the workers of the pool run pop() in a loop, and  *)
(* one thread calls shutdown().  One action is one access to shared memory *)
(* (an atomic, the mutex or the condition variable), with the thread-local *)
(* decisions around it; the accesses inside try_push() / try_pop() are the *)
(* actions of LockFreeRing.                                                *)
(*                                                                         *)
(* The counters and the flag are sequentially consistent.  The relaxed     *)
(* loads of approx_size() run under parkMtx_ and are ordered by it, and    *)
(* those of try_pop() after the counters' read-modify-writes, so they are  *)
(* taken at face value here (Lag = 0).                                     *)
(***************************************************************************)
EXTENDS LockFreeRing, FiniteSets

CONSTANTS
    Spins,          \* kSpins
    MaxSpinners,    \* maxSpinners_
    Free            \* parkMtx_ when nobody holds it

ASSUME QueueAssumption ==
    /\ Producers \cap Consumers = {}
    /\ IsFiniteSet(Producers) /\ IsFiniteSet(Consumers)
    /\ Lag = 0
    /\ Spins \in Nat \ {0}
    /\ MaxSpinners \in Nat \ {0}
    /\ Free \notin Producers \cup Consumers

VARIABLES
    stopped,        \* shutdown_
    sleepers,       \* sleepers_
    spinners,       \* spinners_
    inFlight,       \* pushersInFlight_
    mtx,            \* parkMtx_: who holds it
    qpc,            \* thread -> where it is in push() / pop()
    tries,          \* worker -> i, the spins made so far
    snap,           \* worker -> t of approx_size()
    closer          \* where the thread that calls shutdown() is

counters  == <<stopped, sleepers, spinners, inFlight>>
queueVars == <<stopped, sleepers, spinners, inFlight, mtx, qpc, tries, snap, closer>>
allVars   == <<ringVars, queueVars>>

QueueInit ==
    /\ RingInit
    /\ stopped  = FALSE
    /\ sleepers = 0
    /\ spinners = 0
    /\ inFlight = 0
    /\ mtx      = Free
    /\ qpc      = [t \in Threads |-> "idle"]
    /\ tries    = [c \in Consumers |-> 0]
    /\ snap     = [c \in Consumers |-> 0]
    /\ closer   = "idle"

-----------------------------------------------------------------------------
At(t, label)   == qpc[t] = label
Step(t, label) == qpc' = [qpc EXCEPT ![t] = label]

\* The ring operation thread t called has returned this result.
Returned(t, result) == rpc[t] = "out" /\ rret[t] = result

\* A ring operation goes on: the queue's own state stays as it is.
RingStep(t) ==
    /\ PushStep(t) \/ PopStep(t)
    /\ UNCHANGED queueVars

\* The item a thread holds is gone (moved away, or destroyed).
DropItem(t) ==
    /\ item' = [item EXCEPT ![t] = Empty]
    /\ UNCHANGED <<tail, head, seq, data, rpc, pos, rret, hist>>

-----------------------------------------------------------------------------
(* bool push(T item)                                                       *)

\* pushersInFlight_.fetch_add(1)
Push(p, x) ==
    /\ At(p, "idle")
    /\ Step(p, "check")
    /\ inFlight' = inFlight + 1
    /\ item' = [item EXCEPT ![p] = x]
    /\ UNCHANGED <<tail, head, seq, data, rpc, pos, rret, hist>>
    /\ UNCHANGED <<stopped, sleepers, spinners, mtx, tries, snap, closer>>

\* shutdown_.load(), on entry and whenever the ring was full: try (again).
PushTry(p) ==
    /\ At(p, "check") \/ (At(p, "pushing") /\ Returned(p, FALSE))
    /\ ~stopped
    /\ Step(p, "pushing")
    /\ TryPush(p, item[p])
    /\ UNCHANGED <<counters, mtx, tries, snap, closer>>

PushStopped(p) ==
    /\ At(p, "check") \/ (At(p, "pushing") /\ Returned(p, FALSE))
    /\ stopped
    /\ Step(p, "abort")
    /\ UNCHANGED ringVars
    /\ UNCHANGED <<counters, mtx, tries, snap, closer>>

\* pushersInFlight_.fetch_sub(1); return false
PushAbort(p) ==
    /\ At(p, "abort")
    /\ Step(p, "idle")
    /\ inFlight' = inFlight - 1
    /\ DropItem(p)
    /\ UNCHANGED <<stopped, sleepers, spinners, mtx, tries, snap, closer>>

\* The item is in: pushersInFlight_.fetch_sub(1).
PushDone(p) ==
    /\ At(p, "pushing") /\ Returned(p, TRUE)
    /\ Step(p, "sleepers")
    /\ inFlight' = inFlight - 1
    /\ UNCHANGED ringVars
    /\ UNCHANGED <<stopped, sleepers, spinners, mtx, tries, snap, closer>>

\* sleepers_.fetch_add(0)
PushSleepers(p) ==
    /\ At(p, "sleepers")
    /\ Step(p, IF sleepers > 0 THEN "spinners" ELSE "idle")
    /\ UNCHANGED ringVars
    /\ UNCHANGED <<counters, mtx, tries, snap, closer>>

\* Mutant: the test is the wrong way round.
PushSpinners_Inverted(p) ==
    /\ At(p, "spinners")
    /\ Step(p, IF spinners > 0 THEN "lock" ELSE "idle")
    /\ UNCHANGED ringVars
    /\ UNCHANGED <<counters, mtx, tries, snap, closer>>

PushSpinners(p) ==
    /\ At(p, "spinners")
    /\ Step(p, IF spinners = 0 THEN "lock" ELSE "idle")
    /\ UNCHANGED ringVars
    /\ UNCHANGED <<counters, mtx, tries, snap, closer>>

\* Mutant: the notification is sent without taking the lock first.
PushLock_Skipped(p) ==
    /\ At(p, "lock")
    /\ Step(p, "notify")
    /\ UNCHANGED ringVars
    /\ UNCHANGED <<counters, mtx, tries, snap, closer>>

\* parkMtx_ is taken and given back at once.
PushLock(p) ==
    /\ At(p, "lock")
    /\ mtx = Free
    /\ Step(p, "notify")
    /\ UNCHANGED ringVars
    /\ UNCHANGED <<counters, mtx, tries, snap, closer>>

\* notify_one(): any one of the waiting workers, if there are some.
PushNotify(p) ==
    /\ At(p, "notify")
    /\ \/ \E c \in Consumers :
             /\ At(c, "waiting")
             /\ qpc' = [qpc EXCEPT ![p] = "idle", ![c] = "relock"]
       \/ /\ \A c \in Consumers : ~At(c, "waiting")
          /\ Step(p, "idle")
    /\ UNCHANGED ringVars
    /\ UNCHANGED <<counters, mtx, tries, snap, closer>>

PushOwn(p) ==
    \/ PushTry(p) \/ PushStopped(p) \/ PushAbort(p) \/ PushDone(p)
    \/ PushSleepers(p) \/ PushSpinners(p) \/ PushLock(p) \/ PushNotify(p)
-----------------------------------------------------------------------------
(* std::optional<T> pop()                                                  *)

\* 1. spinners_.fetch_add(1): spin if a spin slot was free.
PopEnter(c) ==
    /\ At(c, "idle")
    /\ spinners' = spinners + 1
    /\ \/ /\ spinners < MaxSpinners
          /\ Step(c, "spin")
          /\ tries' = [tries EXCEPT ![c] = 1]
          /\ TryPop(c)
       \/ /\ spinners >= MaxSpinners
          /\ Step(c, "unspin")
          /\ UNCHANGED <<tries, ringVars>>
    /\ UNCHANGED <<stopped, sleepers, inFlight, mtx, snap, closer>>

SpinHit(c) ==
    /\ At(c, "spin") /\ Returned(c, TRUE)
    /\ Step(c, "busy")
    /\ spinners' = spinners - 1
    /\ tries' = [tries EXCEPT ![c] = 0]
    /\ UNCHANGED ringVars
    /\ UNCHANGED <<stopped, sleepers, inFlight, mtx, snap, closer>>

SpinAgain(c) ==
    /\ At(c, "spin") /\ Returned(c, FALSE)
    /\ tries[c] < Spins
    /\ tries' = [tries EXCEPT ![c] = @ + 1]
    /\ TryPop(c)
    /\ UNCHANGED <<counters, mtx, qpc, snap, closer>>

\* The spinning is over: spinners_.fetch_sub(1).
Unspin(c) ==
    /\ \/ At(c, "unspin")
       \/ At(c, "spin") /\ Returned(c, FALSE) /\ tries[c] = Spins
    /\ Step(c, "announce")
    /\ spinners' = spinners - 1
    /\ tries' = [tries EXCEPT ![c] = 0]
    /\ UNCHANGED ringVars
    /\ UNCHANGED <<stopped, sleepers, inFlight, mtx, snap, closer>>

\* 2. sleepers_.fetch_add(1), then check once more.
Announce(c) ==
    /\ At(c, "announce")
    /\ Step(c, "recheck")
    /\ sleepers' = sleepers + 1
    /\ TryPop(c)
    /\ UNCHANGED <<stopped, spinners, inFlight, mtx, tries, snap, closer>>

\* Mutant: the early return forgets sleepers_.fetch_sub(1).
RecheckHit_StaysCounted(c) ==
    /\ At(c, "recheck") /\ Returned(c, TRUE)
    /\ Step(c, "busy")
    /\ UNCHANGED ringVars
    /\ UNCHANGED <<counters, mtx, tries, snap, closer>>

RecheckHit(c) ==
    /\ At(c, "recheck") /\ Returned(c, TRUE)
    /\ Step(c, "busy")
    /\ sleepers' = sleepers - 1
    /\ UNCHANGED ringVars
    /\ UNCHANGED <<stopped, spinners, inFlight, mtx, tries, snap, closer>>

\* 3. shutdown_.load() ...
RecheckMiss(c) ==
    /\ At(c, "recheck") /\ Returned(c, FALSE)
    /\ Step(c, IF stopped THEN "exitCheck" ELSE "park")
    /\ UNCHANGED ringVars
    /\ UNCHANGED <<counters, mtx, tries, snap, closer>>

\* Mutant: pushes under way are not waited for.
ExitCheck_IgnoresPushers(c) ==
    /\ At(c, "exitCheck")
    /\ Step(c, "leave")
    /\ UNCHANGED ringVars
    /\ UNCHANGED <<counters, mtx, tries, snap, closer>>

\* ... && pushersInFlight_.load() == 0
ExitCheck(c) ==
    /\ At(c, "exitCheck")
    /\ Step(c, IF inFlight = 0 THEN "leave" ELSE "park")
    /\ UNCHANGED ringVars
    /\ UNCHANGED <<counters, mtx, tries, snap, closer>>

PopLeave(c) ==
    /\ At(c, "leave")
    /\ Step(c, "lastTry")
    /\ sleepers' = sleepers - 1
    /\ TryPop(c)
    /\ UNCHANGED <<stopped, spinners, inFlight, mtx, tries, snap, closer>>

\* return item, or return std::nullopt: the worker goes home.
PopLast(c) ==
    /\ At(c, "lastTry") /\ rpc[c] = "out"
    /\ Step(c, IF rret[c] THEN "busy" ELSE "gone")
    /\ UNCHANGED ringVars
    /\ UNCHANGED <<counters, mtx, tries, snap, closer>>

\* 4. parkMtx_ is taken, on entry to the block and on waking up in wait().
Park(c) ==
    /\ At(c, "park") \/ At(c, "relock")
    /\ mtx = Free
    /\ mtx' = c
    /\ Step(c, "sizeTail")
    /\ UNCHANGED ringVars
    /\ UNCHANGED <<counters, tries, snap, closer>>

\* The predicate, first half of approx_size(): tail_.load()
SizeTail(c) ==
    /\ At(c, "sizeTail")
    /\ Step(c, "sizeHead")
    /\ snap' = [snap EXCEPT ![c] = tail]
    /\ UNCHANGED ringVars
    /\ UNCHANGED <<counters, mtx, tries, closer>>

\* Second half: head_.load().  A true predicate releases the lock.
SizeHead(c) ==
    /\ At(c, "sizeHead")
    /\ Step(c, IF snap[c] > head THEN "unpark" ELSE "shut")
    /\ mtx'  = IF snap[c] > head THEN Free ELSE mtx
    /\ snap' = [snap EXCEPT ![c] = 0]
    /\ UNCHANGED ringVars
    /\ UNCHANGED <<counters, tries, closer>>

\* || shutdown_.load()
SizeShut(c) ==
    /\ At(c, "shut")
    /\ Step(c, IF stopped THEN "unpark" ELSE "sleep")
    /\ mtx' = IF stopped THEN Free ELSE mtx
    /\ UNCHANGED ringVars
    /\ UNCHANGED <<counters, tries, snap, closer>>

\* A false predicate puts the worker to sleep, which releases the lock too.
Sleep(c) ==
    /\ At(c, "sleep")
    /\ Step(c, "waiting")
    /\ mtx' = Free
    /\ UNCHANGED ringVars
    /\ UNCHANGED <<counters, tries, snap, closer>>

\* A condition variable may wake up for no reason.
SpuriousWake(c) ==
    /\ At(c, "waiting")
    /\ Step(c, "relock")
    /\ UNCHANGED ringVars
    /\ UNCHANGED <<counters, mtx, tries, snap, closer>>

\* sleepers_.fetch_sub(1), and once more around the loop.
Unpark(c) ==
    /\ At(c, "unpark")
    /\ Step(c, "idle")
    /\ sleepers' = sleepers - 1
    /\ UNCHANGED ringVars
    /\ UNCHANGED <<stopped, spinners, inFlight, mtx, tries, snap, closer>>

\* The worker has run the job and destroys it.
JobDone(c) ==
    /\ At(c, "busy")
    /\ Step(c, "idle")
    /\ DropItem(c)
    /\ UNCHANGED <<counters, mtx, tries, snap, closer>>

PopOwn(c) ==
    \/ PopEnter(c) \/ SpinHit(c) \/ SpinAgain(c) \/ Unspin(c)
    \/ Announce(c) \/ RecheckHit(c) \/ RecheckMiss(c)
    \/ ExitCheck(c) \/ PopLeave(c) \/ PopLast(c)
    \/ Park(c) \/ SizeTail(c) \/ SizeHead(c) \/ SizeShut(c) \/ Sleep(c) \/ Unpark(c)
    \/ JobDone(c)

-----------------------------------------------------------------------------
(* void shutdown()                                                         *)

Shutdown ==
    /\ closer = "idle"
    /\ closer' = "lock"
    /\ stopped' = TRUE
    /\ UNCHANGED ringVars
    /\ UNCHANGED <<sleepers, spinners, inFlight, mtx, qpc, tries, snap>>

\* Mutant: the notification is sent without taking the lock first.
ShutdownLock_Skipped ==
    /\ closer = "lock"
    /\ closer' = "notify"
    /\ UNCHANGED ringVars
    /\ UNCHANGED <<counters, mtx, qpc, tries, snap>>

ShutdownLock ==
    /\ closer = "lock"
    /\ mtx = Free
    /\ closer' = "notify"
    /\ UNCHANGED ringVars
    /\ UNCHANGED <<counters, mtx, qpc, tries, snap>>

\* Mutant: notify_one().
ShutdownNotify_One ==
    /\ closer = "notify"
    /\ closer' = "done"
    /\ \/ \E c \in Consumers : At(c, "waiting") /\ Step(c, "relock")
       \/ (\A c \in Consumers : ~At(c, "waiting")) /\ UNCHANGED qpc
    /\ UNCHANGED ringVars
    /\ UNCHANGED <<counters, mtx, tries, snap>>

\* notify_all()
ShutdownNotify ==
    /\ closer = "notify"
    /\ closer' = "done"
    /\ qpc' = [t \in Threads |-> IF At(t, "waiting") THEN "relock" ELSE qpc[t]]
    /\ UNCHANGED ringVars
    /\ UNCHANGED <<counters, mtx, tries, snap>>

-----------------------------------------------------------------------------
QueueNext ==
    \/ \E p \in Producers :
          \/ \E x \in Items : tail < MaxPush /\ Push(p, x)
          \/ PushOwn(p)
    \/ \E c \in Consumers : PopOwn(c) \/ SpuriousWake(c)
    \/ \E t \in Threads : RingStep(t)
    \/ Shutdown \/ ShutdownLock \/ ShutdownNotify

QueueSpec == QueueInit /\ [][QueueNext]_allVars

\* Every thread that can move eventually does, and a worker that has run its
\* job calls pop() again (ThreadPool::workerLoop).  Nobody is obliged to call
\* push() or shutdown(), and nothing relies on spurious wake-ups.
QueueFairness ==
    /\ \A p \in Producers : WF_allVars(PushOwn(p) \/ RingStep(p))
    /\ \A c \in Consumers : WF_allVars(PopOwn(c) \/ RingStep(c))
    /\ WF_allVars(ShutdownLock \/ ShutdownNotify)

FairQueueSpec == QueueSpec /\ QueueFairness

-----------------------------------------------------------------------------
(* Properties                                                              *)

Count(S, labels) == Cardinality({t \in S : qpc[t] \in labels})

\* The handshake counts exactly: sleepers_, spinners_ and pushersInFlight_
\* say how many threads are between their fetch_add and their fetch_sub, on
\* every path through push() and pop(), the early returns included.
CountsAreExact ==
    /\ sleepers = Count(Consumers, {"recheck", "exitCheck", "leave", "park", "sizeTail",
                                    "sizeHead", "shut", "sleep", "waiting", "relock", "unpark"})
    /\ spinners = Count(Consumers, {"spin", "unspin"})
    /\ inFlight = Count(Producers, {"check", "pushing", "abort"})

\* No lost wake-up ("a push landing between our last check and our wait would
\* be missed -> worker sleeps forever"): when every worker sleeps or has gone
\* home and no push or shutdown() is about to wake one, nobody is left asleep
\* with items in the queue, or after a shutdown.
NoLostWakeup ==
    /\ \E c \in Consumers : At(c, "waiting")
    /\ \A c \in Consumers : At(c, "waiting") \/ At(c, "gone")
    /\ \A p \in Producers : At(p, "idle")
    /\ closer \in {"idle", "done"}
    => head = tail /\ ~stopped

\* Every accepted item is eventually taken by a worker.
AcceptedIsTaken ==
    \A n \in 1 .. MaxPush : tail >= n ~> head >= n

\* shutdown() eventually sends every worker home, once the producers have
\* stopped calling push(): a worker that keeps seeing pushersInFlight_ # 0, if
\* only because of pushes that are being refused, stays.
ShutdownCompletes ==
    <>[](\A p \in Producers : At(p, "idle"))
        => (stopped ~> \A c \in Consumers : At(c, "gone"))

\* The job a worker holds: between its winning compare-exchange and the move,
\* the one in the cell it has claimed.
Holds(c) == IF rpc[c] = "popMove" THEN data[Cell(c)] ELSE item[c]

Jobs == INSTANCE JobQueue WITH
            Workers  <- Consumers,
            Jobs     <- Items,
            NoJob    <- Empty,
            Capacity <- Cap,
            queue    <- SubSeq(hist, head + 1, tail),
            closed   <- stopped,
            running  <- [c \in Consumers |-> Holds(c)],
            gone     <- {c \in Consumers : At(c, "gone")}

\* push(), pop() and shutdown() implement the job queue ThreadPool relies on.
IsJobQueue == Jobs!Spec
=============================================================================
