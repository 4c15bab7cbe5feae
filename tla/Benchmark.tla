------------------------------ MODULE Benchmark ------------------------------
(***************************************************************************)
(* The two benchmarks of src/main.cpp, which drive the pool without a lock *)
(* around their results: every worker claims a slot of a vector the first  *)
(* time it runs a job of a kind (static thread_local mySlot, one per       *)
(* lambda) and records its latencies there; the owner reads the vectors    *)
(* once the pool has drained.                                              *)
(*                                                                         *)
(* runBenchmark() has one kind of job and a pool in an inner scope;        *)
(* burstTest() has two kinds, each with its own counter, calls shutdown()  *)
(* itself and destroys what the jobs refer to before the pool, which was   *)
(* declared first.  Jobs of kind "plain" stand for other uses of the pool. *)
(***************************************************************************)
EXTENDS ThreadPool

CONSTANT Kinds  \* the lambdas that record latencies

\* Both benchmarks submit such jobs from the thread that owns the pool.
ASSUME BenchAssumption ==
    \A p \in Programs, s \in Submitters \ {Owner} :
        \A i \in DOMAIN p.todo[s] : p.todo[s][i].kind \notin Kinds

VARIABLES
    mySlot,     \* worker -> kind -> its thread_local slot, -1 before the first job
    nextSlot,   \* kind -> the slot counter
    slots,      \* kind -> slot -> the jobs recorded in it
    samples,    \* kind -> how many latencies the owner has read
    locals      \* are the vectors, counters and validator still alive?

benchVars == <<poolVars, mySlot, nextSlot, slots, samples, locals>>

NumThreads == Cardinality(Workers)

BenchInit ==
    /\ PoolInit
    /\ mySlot   = [w \in Workers |-> [k \in Kinds |-> -1]]
    /\ nextSlot = [k \in Kinds |-> 0]
    /\ slots    = [k \in Kinds |-> [i \in 0 .. NumThreads - 1 |-> {}]]
    /\ samples  = [k \in Kinds |-> 0]
    /\ locals   = TRUE

-----------------------------------------------------------------------------
KindOf(w) == mem.buf[Job(w)].kind

\* Mutant: one counter for all the kinds.
Counter_Shared(kind) == CHOOSE k \in Kinds : TRUE

\* burstTest()'s counters are separate.
Counter(kind) == kind

\* if (mySlot == -1) mySlot = nextSlot.fetch_add(1)
ClaimSlot(w) ==
    /\ wpc[w] = "call"
    /\ KindOf(w) \in Kinds
    /\ mySlot[w][KindOf(w)] = -1
    /\ LET counter == Counter(KindOf(w))
       IN  /\ mySlot' = [mySlot EXCEPT ![w][KindOf(w)] = nextSlot[counter]]
           /\ nextSlot' = [nextSlot EXCEPT ![counter] = @ + 1]
    /\ UNCHANGED <<poolVars, slots, samples, locals>>

\* slots[mySlot].push_back(...), and the job returns.
Record(w) ==
    /\ wpc[w] = "call"
    /\ KindOf(w) \in Kinds
    /\ mySlot[w][KindOf(w)] \in 0 .. NumThreads - 1
    /\ slots' = [slots EXCEPT ![KindOf(w)][mySlot[w][KindOf(w)]] = @ \cup {mem.buf[Job(w)]}]
    /\ Call(w)
    /\ UNCHANGED <<mySlot, nextSlot, samples, locals>>

CallPlain(w) ==
    /\ wpc[w] = "call"
    /\ KindOf(w) \notin Kinds
    /\ Call(w)
    /\ UNCHANGED <<mySlot, nextSlot, slots, samples, locals>>

\* Mutant: the owner does not wait for shutdown() to return.
ResultsReady_Early == opc \in {"join", "joined"}

ResultsReady == opc = "joined"

\* The owner reads the vectors, then leaves the scope they live in.
ReadSamples ==
    /\ ResultsReady
    /\ locals
    /\ samples' = [k \in Kinds |-> MapThenSumSet(LAMBDA i : Cardinality(slots[k][i]), 0 .. NumThreads - 1)]
    /\ locals' = FALSE
    /\ UNCHANGED <<poolVars, mySlot, nextSlot, slots>>

LeaveScope == ~locals /\ Leave /\ UNCHANGED <<mySlot, nextSlot, slots, samples, locals>>

-----------------------------------------------------------------------------
WorkerStep(w) ==
    \/ ClaimSlot(w) \/ Record(w) \/ CallPlain(w)
    \/ (Pop(w) \/ PopNothing(w) \/ Count(w) \/ Drop(w)) /\ UNCHANGED <<mySlot, nextSlot, slots, samples, locals>>

OwnerMove == ReadSamples \/ LeaveScope \/ (OwnerStep /\ UNCHANGED <<mySlot, nextSlot, slots, samples, locals>>)

SubmitMove(s) == SubmitStep(s) /\ UNCHANGED <<mySlot, nextSlot, slots, samples, locals>>

BenchNext == OwnerMove \/ (\E s \in Submitters : SubmitMove(s)) \/ (\E w \in Workers : WorkerStep(w))

\* Every thread that can go on does.
BenchFairness ==
    /\ WF_benchVars(OwnerMove)
    /\ \A s \in Submitters : WF_benchVars(SubmitMove(s))
    /\ \A w \in Workers : WF_benchVars(WorkerStep(w))

BenchSpec == BenchInit /\ [][BenchNext]_benchVars /\ BenchFairness

-----------------------------------------------------------------------------
(* include/Stats.hpp: where computeLatencyStats() looks for a percentile,  *)
(* given in thousandths, in n > 0 sorted samples (counting from 0).        *)

PctIndex(p, n) == (p * (n - 1)) \div 1000

-----------------------------------------------------------------------------
(* Properties                                                              *)

\* "Each buffer is only ever touched by the one thread that owns it", and the
\* counters never pass the end of the vectors.
SlotsExclusive ==
    \A k \in Kinds, w \in Workers :
        LET slot == mySlot[w][k]
        IN  /\ slot < NumThreads
            /\ slot # -1 => \A v \in Workers \ {w} : mySlot[v][k] # slot

\* No job runs once the locals it refers to are gone, and what the owner read
\* from the slots is one latency for every order of the kind; the percentiles
\* are then taken from inside the samples.
SamplesComplete ==
    ~locals =>
        /\ \A w \in Workers : wpc[w] # "call"
        /\ \A k \in Kinds :
               LET n == Cardinality({j \in JobsOf(program.todo) : j.kind = k})
               IN  /\ samples[k] = n
                   /\ n > 0 => \A p \in {500, 990, 999} : PctIndex(p, samples[k]) \in 0 .. n - 1
=============================================================================
