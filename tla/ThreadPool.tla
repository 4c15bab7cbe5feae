------------------------------ MODULE ThreadPool ------------------------------
(***************************************************************************)
(* include/ThreadPool.hpp over include/InlineJob.hpp: threads submit jobs, *)
(* workers pop, call, count and drop them, and the owner shuts the pool    *)
(* down.                                                                   *)
(*                                                                         *)
(* The queue between them is taken at the grain of its results: the cells  *)
(* of the ring, the jobs moved in and out of them, the shutdown flag and   *)
(* the pushes in flight.  How it gets there is LockFreeTaskQueue's matter; *)
(* that the pool implements JobQueue at this grain too is checked here.    *)
(***************************************************************************)
EXTENDS InlineJob, Integers, Sequences, FiniteSets, FiniteSetsExt

CONSTANTS
    Submitters, \* threads that call submit()
    Owner,      \* the one of them that also owns the pool
    Workers,    \* workers_
    Capacity,   \* cells of the ring
    Programs    \* what the threads may do: [todo : thread -> sequence of
                \* jobs, explicit : does the owner call shutdown() itself?]

\* A job: its number, the lambda it is made of, whether it came through
\* submitWithFuture(), and whether it throws.
JobsOf(list) == UNION {{list[s][i] : i \in DOMAIN list[s]} : s \in Submitters}
Jobs         == UNION {JobsOf(p.todo) : p \in Programs}

\* The pool has a worker ("if (numThreads == 0) numThreads = 1"), and every call
\* of submit() brings a callable of its own.
ASSUME PoolAssumption ==
    /\ Owner \in Submitters
    /\ IsFiniteSet(Workers) /\ Workers # {}
    /\ Capacity \in Nat \ {0}
    /\ NoJob \notin Jobs
    /\ \A p \in Programs :
           /\ p.todo \in [Submitters -> Seq(Jobs)]
           /\ \A s, t \in Submitters : \A i \in DOMAIN p.todo[s], k \in DOMAIN p.todo[t] :
                  p.todo[s][i] = p.todo[t][k] => s = t /\ i = k

Param(s) == <<"param", s>>  \* push()'s parameter
Cell(i)  == <<"cell", i % Capacity>>
Item(w)  == <<"item", w>>   \* pop()'s local
Job(w)   == <<"job", w>>    \* workerLoop()'s local

Places == {Param(s) : s \in Submitters} \cup {Cell(i) : i \in 0 .. Capacity - 1}
          \cup {Item(w) : w \in Workers} \cup {Job(w) : w \in Workers}

VARIABLES
    todo,       \* submitter -> the jobs it has still to submit
    program,    \* what the threads do
    mem,        \* the InlineJob objects
    head, tail, \* positions of the ring
    closed,     \* shutdown_ of the queue
    shuttingDown, \* shuttingDown_ of the pool
    completed,  \* completed_
    spc,        \* submitter -> where it is in submit()
    wpc,        \* worker -> where it is in workerLoop()
    opc,        \* where the owner is after its last submit()
    accepted,   \* history: the jobs push() has returned true for
    calls,      \* history: job -> how often it was called
    future      \* job -> state of the future it was submitted for

queueVars == <<head, tail>>
ownerVars == <<shuttingDown, opc>>
poolVars  == <<todo, program, mem, queueVars, closed, ownerVars, completed, spc, wpc,
               accepted, calls, future>>

PoolInit ==
    /\ program \in Programs
    /\ todo = program.todo
    /\ mem  = NewMemory(Places, Jobs)
    /\ head = 0
    /\ tail = 0
    /\ closed       = FALSE
    /\ shuttingDown = FALSE
    /\ completed    = 0
    /\ spc = [s \in Submitters |-> "idle"]
    /\ wpc = [w \in Workers |-> "pop"]
    /\ opc = "submit"
    /\ accepted = {}
    /\ calls    = [j \in Jobs |-> 0]
    /\ future   = [j \in Jobs |-> "none"]

-----------------------------------------------------------------------------
(* submit() and submitWithFuture()                                         *)

\* The callable is built in push()'s parameter; the push is then in flight
\* unless the queue is already shut down.
Submit(s) ==
    /\ spc[s] = "idle"
    /\ todo[s] # << >>
    /\ LET j == Head(todo[s])
       IN  /\ mem' = Construct(mem, Param(s), j)
           /\ future' = [future EXCEPT ![j] = IF j.future THEN "pending" ELSE "none"]
    /\ todo' = [todo EXCEPT ![s] = Tail(@)]
    /\ spc' = [spc EXCEPT ![s] = IF closed THEN "return" ELSE "push"]
    /\ UNCHANGED <<program, queueVars, closed, ownerVars, completed, wpc, accepted, calls>>

Room == tail - head < Capacity

\* try_push() on a ring with room: cell.data = std::move(item)
Push(s) ==
    /\ spc[s] = "push"
    /\ Room
    /\ accepted' = accepted \cup {mem.buf[Param(s)]}
    /\ mem' = MoveAssign(mem, Cell(tail), Param(s))
    /\ tail' = tail + 1
    /\ spc' = [spc EXCEPT ![s] = "return"]
    /\ UNCHANGED <<todo, program, head, closed, ownerVars, completed, wpc, calls, future>>

\* try_push() on a full ring ...
PushFull(s) ==
    /\ spc[s] = "push"
    /\ ~Room
    /\ spc' = [spc EXCEPT ![s] = "full"]
    /\ UNCHANGED <<todo, program, mem, queueVars, closed, ownerVars, completed, wpc, accepted, calls, future>>

\* ... is given up after a shutdown, and repeated otherwise.
PushAgain(s) ==
    /\ spc[s] = "full"
    /\ spc' = [spc EXCEPT ![s] = IF closed THEN "return" ELSE "push"]
    /\ UNCHANGED <<todo, program, mem, queueVars, closed, ownerVars, completed, wpc, accepted, calls, future>>

\* push() returns and its parameter is destroyed, with the callable in it if
\* the push was refused: a packaged_task that never ran breaks its promise.
Return(s) ==
    LET j == mem.buf[Param(s)]
    IN  /\ spc[s] = "return"
        /\ mem' = Reset(mem, Param(s))
        /\ future' = IF j # NoJob /\ j.future THEN [future EXCEPT ![j] = "broken"] ELSE future
        /\ spc' = [spc EXCEPT ![s] = "idle"]
        /\ UNCHANGED <<todo, program, queueVars, closed, ownerVars, completed, wpc, accepted, calls>>

-----------------------------------------------------------------------------
(* workerLoop()                                                            *)

\* pop(): out = std::move(cell.data), cell.data = T{}, and the local item is
\* moved into the optional that is returned.
Pop(w) ==
    LET popped == Reset(MoveAssign(mem, Item(w), Cell(head)), Cell(head))
    IN  /\ wpc[w] = "pop"
        /\ head < tail
        /\ mem' = Reset(MoveFrom(popped, Job(w), Item(w)), Item(w))
        /\ head' = head + 1
        /\ wpc' = [wpc EXCEPT ![w] = "call"]
        /\ UNCHANGED <<todo, program, tail, closed, ownerVars, completed, spc, accepted, calls, future>>

InFlight == {s \in Submitters : spc[s] \in {"push", "full"}}

\* Mutant: pop() does not wait for the pushes in flight.
NothingLeft_Hasty == closed /\ head = tail

NothingLeft == closed /\ InFlight = {} /\ head = tail

\* pop() returns nullopt: shut down, no push half-done, nothing left.
PopNothing(w) ==
    /\ wpc[w] = "pop"
    /\ NothingLeft
    /\ wpc' = [wpc EXCEPT ![w] = "gone"]
    /\ UNCHANGED <<todo, program, mem, queueVars, closed, ownerVars, completed, spc, accepted, calls, future>>

\* Mutant: an exception leaves the packaged_task without a result.
Outcome_Swallowed(j) == IF ~j.future THEN "none" ELSE IF j.throws THEN "pending" ELSE "value"

\* What the packaged_task stores; without one, workerLoop() catches whatever
\* the job throws.
Outcome(j) == IF ~j.future THEN "none" ELSE IF j.throws THEN "exception" ELSE "value"

\* (*job)(), to its end
Call(w) ==
    LET j == mem.buf[Job(w)]
    IN  /\ wpc[w] = "call"
        /\ calls' = [calls EXCEPT ![j] = @ + 1]
        /\ future' = [future EXCEPT ![j] = Outcome(j)]
        /\ wpc' = [wpc EXCEPT ![w] = "count"]
        /\ UNCHANGED <<todo, program, mem, queueVars, closed, ownerVars, completed, spc, accepted>>

Count(w) ==
    /\ wpc[w] = "count"
    /\ completed' = completed + 1
    /\ wpc' = [wpc EXCEPT ![w] = "drop"]
    /\ UNCHANGED <<todo, program, mem, queueVars, closed, ownerVars, spc, accepted, calls, future>>

\* The end of the loop's body destroys the job and what it has captured.
Drop(w) ==
    /\ wpc[w] = "drop"
    /\ mem' = Reset(mem, Job(w))
    /\ wpc' = [wpc EXCEPT ![w] = "pop"]
    /\ UNCHANGED <<todo, program, queueVars, closed, ownerVars, completed, spc, accepted, calls, future>>

-----------------------------------------------------------------------------
(* The owner: shutdown(), by itself or from the destructor                 *)

\* The compare-exchange at the top of shutdown(): a second call returns.
ShutdownBegin ==
    /\ \/ opc = "submit" /\ todo[Owner] = << >> /\ spc[Owner] = "idle"
       \/ opc = "destroy" /\ \A s \in Submitters : todo[s] = << >> /\ spc[s] = "idle"
    /\ opc' = IF shuttingDown THEN "end" ELSE "close"
    /\ shuttingDown' = TRUE
    /\ UNCHANGED <<todo, program, mem, queueVars, closed, completed, spc, wpc, accepted, calls, future>>

\* Mutant: the queue is left open.
CloseQueue_Forgotten ==
    /\ opc = "close"
    /\ opc' = "join"
    /\ UNCHANGED <<todo, program, mem, queueVars, closed, shuttingDown, completed, spc, wpc, accepted, calls, future>>

CloseQueue ==
    /\ opc = "close"
    /\ closed' = TRUE
    /\ opc' = "join"
    /\ UNCHANGED <<todo, program, mem, queueVars, shuttingDown, completed, spc, wpc, accepted, calls, future>>

\* Mutant: t.join() is left out.
AllJoined_Unchecked == TRUE

AllJoined == \A w \in Workers : wpc[w] = "gone"

Join ==
    /\ opc = "join"
    /\ AllJoined
    /\ opc' = "joined"
    /\ UNCHANGED <<todo, program, mem, queueVars, closed, shuttingDown, completed, spc, wpc, accepted, calls, future>>

\* After an explicit shutdown() the destructor still calls it once more.
Leave ==
    /\ opc = "joined"
    /\ opc' = IF program.explicit THEN "destroy" ELSE "end"
    /\ UNCHANGED <<todo, program, mem, queueVars, closed, shuttingDown, completed, spc, wpc, accepted, calls, future>>

-----------------------------------------------------------------------------
SubmitStep(s) == Submit(s) \/ Push(s) \/ PushFull(s) \/ PushAgain(s) \/ Return(s)
OwnerStep     == ShutdownBegin \/ CloseQueue \/ Join

-----------------------------------------------------------------------------
(* Properties                                                              *)

Submitted == JobsOf(program.todo) \ JobsOf(todo)

\* "Never allocates", and never loses or doubles what it holds: a callable
\* that was submitted lives in exactly one InlineJob, on its way from the
\* submitter through a cell to a worker, or has been destroyed exactly once;
\* and no destructor ever runs on bytes that hold no callable.
JobsOwnedOnce ==
    /\ mem.destroyed[NoJob] = 0
    /\ \A j \in Submitted :
           Cardinality({p \in Places : mem.ops[p] # NoJob /\ mem.buf[p] = j}) + mem.destroyed[j] = 1

\* "pool destructor drains + joins here": when shutdown() has joined, every
\* accepted job was called once and is gone with all it captured, a refused
\* one was never called, completedCount() is exact, and no worker is left.
DrainedOnReturn ==
    opc \in {"joined", "destroy", "end"} /\ shuttingDown =>
        /\ \A j \in Jobs : calls[j] = (IF j \in accepted THEN 1 ELSE 0)
        /\ \A j \in accepted : mem.destroyed[j] = 1
        /\ completed = Cardinality(accepted)
        /\ \A w \in Workers : wpc[w] = "gone"

\* The pool, seen through the cells and the workers' jobs, is the queue that
\* JobQueue promises.
Q == INSTANCE JobQueue WITH
        queue   <- [i \in 1 .. tail - head |-> mem.buf[Cell(head + i - 1)]],
        running <- [w \in Workers |-> mem.buf[Job(w)]],
        gone    <- {w \in Workers : wpc[w] = "gone"}

IsJobQueue == Q!Spec

\* A future is always answered: with the job's value, its exception, or a
\* broken promise when the pool refused it.
FutureResolves == \A j \in Jobs : future[j] = "pending" ~> future[j] # "pending"

\* shutdown() comes back, whatever was queued or being pushed.
ShutdownReturns == <>(opc = "end")
=============================================================================
