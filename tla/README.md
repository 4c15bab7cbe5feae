# Order Risk Validation Engine: TLA+ models and proofs

This directory models the concurrent core of the engine in TLA+, checks it with
TLC on small instances and proves its central properties with TLAPS for
instances of any size. Paths are relative to the repository (`include/`,
`src/`). `PROJECT.json` maps every modelling definition to the lines it
translates and lists runs, mutants, findings, hazards and theorems.

## 1. The system

| Component | State | Operations | Talks to |
|---|---|---|---|
| `AccountStore` | map account -> `atomic<double>` | `setBalance`, `credit`, `tryDebit`, `getBalance` | called by every worker |
| `RiskValidator` | symbol whitelist | `validate` | `AccountStore::tryDebit` |
| `ResultsCollector` | mutex, vector of results | `add`, `takeAll`, `size` | called by jobs and tests |
| `LockFreeRing` | `head_`, `tail_`, cells with `seq` and `data` | `try_push`, `try_pop`, `approx_size` | inside `LockFreeTaskQueue` |
| `LockFreeTaskQueue` | ring, `sleepers_`, `spinners_`, `pushersInFlight_`, `shutdown_`, mutex, condvar | `push`, `pop`, `shutdown` | `ThreadPool` (default build) |
| `TaskQueue` | `std::queue`, `shutdown_`, mutex, two condvars | `push`, `pop`, `shutdown` | `ThreadPool` (`HFT_MUTEX_QUEUE` build) |
| `ThreadPool` | queue, threads, `shuttingDown_`, `completed_` | `submit`, `submitWithFuture`, `shutdown`, `workerLoop` | runs `InlineJob`s |
| `InlineJob` | buffer, ops table | construct, move, call, destroy | travels through the queue |
| `Connection` | fd, receive buffer, `alive`, `pendingJobs`, `peerClosed`, `fdClosed`, `writeMutex` | `safeSend`, `tryFinalize` | shared by the loop and the workers |
| `EventLoop` | epoll set, `connections_`, `running_` | `run`, `stop`, `acceptNewConnections`, `handleReadable`, `dispatchToWorker` | sockets, `FixParser`, `ThreadPool`, `RiskValidator` |
| `FixParser` | `nextOrderId_` | `tryExtractMessage`, `splitFields`, `verifyChecksum`, `parseOrder`, `buildMessage` | called by the loop (framing) and by jobs |
| `server_main` | `g_loop` | SIGINT handler, `main` | owns store, validator, pool, loop |
| `main` | - | two tests, two benchmarks | drives pool and validator |
| `OrderGenerator`, `Stats`, `test_client` | test data, percentiles, a client | - | - |

An order enters as bytes on a socket (or from a generator), is framed by the
event loop, travels as a job through the pool's queue to a worker, is parsed and
validated there against the shared store, and its answer is written to the
socket by the worker itself.

**What is hard.** Nothing in the program is persisted and no message is
retried; everything hard is concurrency. Balances are updated without locks. The
ring is lock-free with relaxed loads. Sleeping and waking up of workers is a
hand-made protocol over three counters. Shutdown races pushes and pops. Loop and
workers decide together, through four flags, who closes a socket, while the
kernel reuses descriptor numbers; a signal handler runs `stop()` in the middle of
whatever the loop was doing. Jobs own raw bytes and are moved by hand. The `hazards` of `PROJECT.json` place each at
its line.

**What makes the components correct.** Store: debits are atomic, no balance is
overspent, no update lost. Validator: concurrent validation equals some
sequential one. Ring and queues: every accepted job is handed out once and in
order, nobody sleeps beside work, shutdown drains and terminates. Connections:
closed exactly once and by nobody else, never leaked, every request answered, to
the client that asked. Parser: the messages a client sent become orders that say
what the client said, and no others do, as far as the checksum can tell. Pool: every job has one owner, runs
once, and is gone when `shutdown` returns. Server: a signal at any moment ends the
process with nothing open and nothing undone.

## 2. Modules

| Module | Models | One action is |
|---|---|---|
| `Doubles` | the double arithmetic used, NaN included | - |
| `AccountLedger` | abstract: what `AccountStore` promises | one operation |
| `AccountStore` | `include/AccountStore.hpp` | one access to a balance |
| `RiskValidator` (extends `AccountStore`) | `RiskValidator.hpp`, `Order.hpp`, `ResultsCollector.hpp`, tests 1 and 2 of `main.cpp` | one access to shared state |
| `LockFreeRing` | `include/LockFreeRing.hpp` | one atomic access or move |
| `JobQueue` | abstract: the queue `ThreadPool` needs | one operation |
| `LockFreeTaskQueue` (extends `LockFreeRing`) | `include/LockFreeTaskQueue.hpp`, the loop of `ThreadPool::workerLoop` | one access to an atomic, the mutex, the condvar or the ring |
| `TaskQueue` | `include/TaskQueue.hpp`, the loop of `ThreadPool::workerLoop` | one critical section or notification |
| `InlineJob` | `include/InlineJob.hpp`: objects on a memory of places | operators |
| `ThreadPool` (extends `InlineJob`) | `include/ThreadPool.hpp` | one result of the queue, one call, one destruction |
| `Benchmark` (extends `ThreadPool`) | tests 3 and 4 of `main.cpp`, `include/Stats.hpp` | as above, and one access to a slot or its counter |
| `OrderGenerator` | `include/OrderGenerator.hpp` | operators |
| `FixParser` | `include/FixParser.hpp` on sequences of tokens | operators |
| `FixSession` (extends `FixParser`) | one client's stream through `handleReadable` and the job of `dispatchToWorker` | one read, one message cut off, one job |
| `Connection` | `struct Connection` of `include/EventLoop.hpp` | one access to a flag, the mutex or the socket |
| `EventLoop` (extends `Connection`) | `class EventLoop` with `stop()`, and the job it submits | one system call or access to shared state |
| `Server` (extends `EventLoop`) | `src/server_main.cpp`: SIGINT, `run`, destructors | one step of `main`, or of what it calls |
| `FoldTheorems` | theorems about the folds of the community modules | - |
| `RiskValidatorProofs`, `LockFreeRingProofs`, `LockFreeTaskQueueProofs`, `TaskQueueProofs`, `PoolProofs`, `ServerProofs`, `FixSessionProofs` | theorems about the modules they extend (`RiskValidatorProofs`: `AccountStore` and `RiskValidator`; `PoolProofs`: `Benchmark` with `ThreadPool`; `ServerProofs`: `Server` with `EventLoop`) | - |
| `MC...` | instances for TLC | - |

`AccountLedger` and `JobQueue` are specifications the code is measured against,
not models of code, and have no entries in the map. Definitions named
`X_Something` are mutants of `X`: a plausible bug, never part of a
specification. A type invariant is part of the inductive invariant of each proof
module; where there is none (`FixSession`) the comments of the VARIABLES say what
each holds.

How code and model correspond:

* **Threads.** A function that may be preempted is a program counter per thread
  (`pc`, `rpc`, `qpc`, `cpc`, `lpc`); its local variables are functions of the
  thread and are reset when they go out of scope.
* **Compare-exchange.** `compare_exchange_weak` may fail on equal values. In
  `tryDebit` and `credit` that failure changes nothing at all; in the ring it
  leads back to a state the thread has been in. Neither needs an action.
* **Memory order.** The ring's relaxed loads of `head_` and `tail_` return any of
  the last `Lag` + 1 values. `seq` is released and acquired and is read at its
  latest value, which is what x86 and the coherence of a single location give a
  retrying loop; a stale `seq` would make `try_push`/`try_pop` report full/empty
  late. The queue's counters are sequentially consistent in the code. The
  connection's flags are acquire/release; between the loop's store of
  `peerClosed` and its load of `pendingJobs` lie system calls, and a worker's
  load of `peerClosed` follows its read-modify-write, so they are modelled as
  sequentially consistent.
* **History variables.** `funded`, `spent`, `hist`, `precedes`, `accepted`, `calls`,
  `heard`, `received` and `dropped` record the past for the properties; no guard of a modelled operation
  reads them except for the named bounds.
* **Money.** Amounts are integers (exact as doubles below 2^53) or `NaN`.
* **Jobs.** `InlineJob`s live in places: the parameter of a `push`, the cells of
  the ring, the local of `pop`, the local of `workerLoop`. `mem.ops` is what the
  object believes it holds, `mem.buf` what its bytes hold; a bug in moving shows as
  a difference between the two, or as a destruction counted twice.
* **Messages.** A FIX message is a sequence of tokens, each a run of bytes the
  parser never looks inside of: `n=`, a number, a text, SOH. BodyLength counts
  tokens, the checksum adds the real ASCII sums of the tokens. Two tokens do not
  merge into one, and a text does not contain `10=`. `std::stoul` and `static_cast`
  are arithmetic modulo the width, `std::stod` reads `nan`.
* **Damage.** The stream may have one token replaced by another with a different
  byte sum (a sum modulo 256 cannot see the rest). Reads cut it anywhere.
* **Signals.** The handler runs on the main thread: while `spc` is not `out`,
  `run()` does not move and the workers do. `stop()` may come between any two steps
  of `run()`, the set-up and the gap between `accept` and the insertion included.
* **Sockets.** `table` is the kernel's descriptor table; `accept` returns the
  lowest free number, `send` goes to whoever holds the number now.

## 3. Runs

| Run | Instance | Shows |
|---|---|---|
| `store` | 3 threads, 1 account (registered or not), amounts 1 and 2, funds up to 2 | types, `Conserved`, `NoOverspend`, refinement `AtomicLedger` |
| `risk` | 3 workers; the generator's conflicting pair with a third order on the same balance and one alone on its account; 16 pairs of independent orders; one order per outcome of `validate` | `NoDoubleSpend`, `Serializable` (strictly: the order of what did not overlap is kept), `EveryOrderAnswered` |
| `ring` | 2 producers, 2 consumers, 2 cells, 3 pushes, loads one store stale | ownership, bound, order, release, truthful full/empty |
| `queue` | 1 producer, 2 workers, 2 cells, 3 pushes, 1 spin slot | `CountsAreExact`, `NoLostWakeup`, refinement of `JobQueue` (which no worker leaves before the last accepted job is taken) |
| `queue_live` | 2 producers, 1 worker, 2 pushes, fair | every item taken, shutdown completes |
| `taskqueue` | 2 producers, 2 workers, capacity 2, 4 pushes, fair | `NobodySleepsInVain`, refinement of `JobQueue`, shutdown releases everybody |
| `pool` | 2 workers, 2 cells; a benchmark of 3 jobs, a burst test of 2 + 2 jobs, and two submitters with futures and throwing jobs racing `shutdown`; fair | one owner per callable, drained on return, slots exclusive and complete, refinement of `JobQueue`, futures resolve, `shutdown` returns |
| `fix` | 2 messages: a good order behind each kind of good or bad one; any cut into reads; any token of either message damaged (5 replacements); the same with an order that runs together with the next message; 2 jobs at a time | exact framing, answers for what was said, no order from damage (but to BodyLength's number), well-formed replies with unique ids |
| `eventloop` | 2 clients (2 + 1 messages), 2 workers, 2 descriptors, 1 SIGINT | no close of another's descriptor, routing, clean exit |
| `server` | the same with 1 worker and 1 descriptor, fair | SIGINT ends the server, no leak, lone and patient clients answered |

Two runs end in a violation on purpose: each states what a comment or test of
the repository says and shows an execution in which the code does otherwise.

| Run | Claim | What happens |
|---|---|---|
| `risk_nan` | `main.cpp:70-71`, at most one of a conflicting pair is accepted, ever | a NaN price passes `price <= 0.0` and `cur < amount`, the balance becomes NaN and covers everything |
| `eventloop_dropped` | `EventLoop.hpp:203-206`, no response is dropped because EOF came in the same batch | a worker is done with the first message before the second is dispatched and closes the connection |

**Bounds and why they are enough.** Each bound is a constant. `MaxFunds` stops
credits; two units are enough for a debit that just fits, one that does not and a
balance that returns to an old value. A third thread is what a value that changes
and changes back takes. `MaxPush` = 3 on two cells reaches the second lap, a full
and an empty ring, and a position whose cell is still being emptied. Two spins and
one spin slot reach every branch of `pop()`; more of them repeat the same ring
operation. `Lag` = 1 gives a stale load of each counter; `Lag` = 0 in the queue,
where the loads follow read-modify-writes or the mutex. Two clients and two
descriptors (one in `server`, so that reuse is forced) are what a misdirected
close or event takes. One worker is enough for `server`'s liveness: an answer or
a close that depends on a second worker being there would fail with one; the races
between two are `eventloop`'s. `MaxSignals` = 1 puts one `stop()` anywhere and the
destructor's after it. `Width` = 8 and `QtyWidth` = 6 keep the difference between
`unsigned long` and `uint32_t`: a quantity of -1 wraps around and is truncated. In
`pool`, three jobs on two cells make a submitter wait for room, and a slot counter
shared by two kinds of job would pass the end of the vector. The queue's liveness
has a single worker on purpose: with several, one that is awake looks again before
it sleeps and hides a wake-up that another one missed.

**Symmetry** is used for producers, consumers, workers and threads in runs
without liveness properties; nothing in the specifications orders them.

**Deadlock** is checked where the system never stops (`store`, `ring`). The other
systems end or rest: all orders done, all workers gone, all clients gone, the
process exited.

**Fairness** is weak fairness of each thread's own steps: the operating system
schedules runnable threads: workers, submitters, the owner of the pool, the main
thread with the handler on it. Nobody is obliged to call `push` or `shutdown`,
clients owe nothing, and nothing counts on spurious wake-ups. `ShutdownCompletes`
has the premise that producers stop calling `push`: refused calls still raise
`pushersInFlight_` for a moment, and workers that always see it raised stay.

## 4. Proofs

TLAPS proves 30 theorems for every value of the constants: they state the 25
invariants the passing runs check, the action property `RefusesTruthfully` and the
four refinements. Each proof states an inductive invariant, which TLC has
checked on the run's instance, shows that `Init` implies it and that every action
keeps it, and derives the property. What the prover needs about the constants is in
the ASSUMEs of the modules: finite sets of threads, `Nobody`/`NoJob`/`NaN` outside
the sets they complement, workloads that are sequences of orders, messages that fit
in a `size_t` together with the start of another. Any hypothesis
beyond them is part of a theorem's statement and named below.

**`RiskValidatorProofs`**, first about `AccountStore`, for any number of threads and
accounts:

* `TypeCorrect`: types, and that a running operation is on an account of the map
  (without which no access of a balance is meaningful).
* `StoreConserves`, `StoreNeverOverspends`: with `NaN \notin Amounts`. The
  inductive invariant is `Solvent`: balances and funds are natural numbers, a
  balance is funds minus spent, and spent never exceeds funds. The two properties
  need each other: a debit keeps `NoOverspend` because the balance that its
  compare-exchange confirms covers the amount *and* is funds minus spent. The
  assumption on NaN is needed: `risk_nan` is what happens without it.
* `StoreImplementsLedger`: `Spec => Ledger!Spec`, NaN included. A debit takes
  effect at its winning compare-exchange, or, if refused, at the load that
  brought back too small a balance. The abstract `op` and `granted` of a thread
  are computed from its pc and locals (`Pending`, `Decided`).

and then about `RiskValidator`, for any number of workers, accounts, orders and
workloads:

* `RiskSerializable`, NaN included. `Handled` says that an order is with one worker
  or in the results, once, and that `tryDebit` runs on the account and cost of the
  order in hand. `Explained` says that there is a sequence of the orders that have
  taken effect so far whose sequential execution gives the present balances and
  the grants, and which agrees with `precedes`. An order takes effect in one step:
  a refused debit at the load, a granted one at its compare-exchange, any other
  where `validate` settles it. Every step is then `Quiet` (the sequence stays) or
  `Settles(i)` (i is appended, and one more `validate` on the sequential state
  explains the new balance).
* `RiskNoDoubleSpend`, with `NaN \notin Amounts`. `Booked`: what an account was
  debited is the sum of what its granted orders cost. With `Solvent` of the store
  the sum is at most the opening balance.

**`FoldTheorems`** is about `MapThenSumSet` and `FoldLeft`, which define the sums and
the sequential baseline. Both are recursive functions on the subsets of a finite
set. The library's induction theorems take an operator and are of no use to the
provers, but a *set* of good numbers can be passed to a lemma: `LeastElement`
(from `WFMin`) gives `NatInduct` and `SubsetInduct`, these give existence
(`FoldExists`) and uniqueness of such functions, and from there what the folds
return: `SumAdd`, `SumRemove`, `SumPart`, `SizeSum` (disjoint sets have as many
elements together as their sizes add up to), `RunEmpty`, `RunAppend`.

**`LockFreeRingProofs`**, for any number of producers, consumers and cells, any
number of pushes and any staleness `Lag` of relaxed loads, with `Cap > 1`:
`RingTypeCorrect`, `RingOwnsCellAlone`, `RingBounded`, `RingDeliversInOrder`,
`RingReleasesItems`, `RingRefusesTruthfully`. The inductive invariant `Sound` adds
to the properties

* `Positions`: where a thread's `pos` may lie relative to head and tail,
* `Claims`: no position is claimed twice,
* `Turns`: what `seq` says at queued, free, filling and emptying positions,
* `Reads`: what a thread has read before its compare-exchange still holds if the
  counter has not moved,
* `Contents`: where the item of each position is.

`Reads` is why the seq test before the compare-exchange is enough; it is also
where `Cap > 1` is needed: with one cell the `seq` that a push publishes
(`pos` + 1) is also the one that says "free" at position `pos` + 1. A refusal is
truthful because a turn that a counter has passed does not come back (`Passed`) and
behind one that is not there yet a thread is at work (`Owed`). The proof rests on lemmas about `p % Cap` (`SlotNextLap`,
`SlotSame`): two positions of one cell less than two laps apart are equal or one lap
apart.

**`LockFreeTaskQueueProofs`**, for any number of producers, workers, items and spins,
with `Cap > 1`: `QueueCountsAreExact`, `QueueNoLostWakeup`, and `QueueIsJobQueue`,
the refinement of `JobQueue` (a push is accepted at the compare-exchange on
`tail_`, a job taken at the one on `head_`). The inductive invariant `Orderly`
contains the ring's, the exact counters, `Stopping` (a worker that leaves saw the
shutdown, no push in flight and an empty ring, in that order) and `Attended`: while
there are items, some push has yet to pass `parkMtx_` or some worker will look at
the ring again. Neither half of the handshake is enough by itself, which is why
`Attended` speaks of the worker about to sleep (`Tired`) as well as the one
asleep.

**`TaskQueueProofs`**, for any number of producers and workers and any capacity:
`TaskQueueIsJobQueue` and `TaskQueueNobodySleepsInVain`. `Holds` and `GoneAtEnd` say
who has an item and when a worker may be gone. For the wake-ups the invariant is a
count: while a worker sleeps, the queue has no more items than there are pushes
about to notify and workers already woken; the same for free places, while a
producer sleeps and before the shutdown (`WorkersWoken`, `ProducersWoken`).

**`PoolProofs`**, for any number of submitters, workers, cells and jobs:

* `PoolOwnsJobsOnce`, `PoolDrains`, `PoolIsJobQueue`. The assumption that the jobs of
  a program are all different says that each call of `submit` brings its own
  callable. `Kept` follows a callable from the list of what is still to be
  submitted through parameter, cell and worker to its destruction: in no two
  objects (`Single`), called before it is destroyed if it was accepted and never
  otherwise (`Settled`); `Counted` balances `completed_` against the accepted ones.
* `BenchmarkSlotsExclusive`: the counter is the number of workers that have claimed
  a slot (`SlotsOK`), hence never beyond the vector.
* `BenchmarkSamplesComplete`: no push of the owner is refused, since it shuts down
  after its last (`Served`); a called job is in exactly one slot (`Tallied`); what
  the owner has read after the join is their number (`Reported`). It rests on
  `BenchAssumption`: as in `main.cpp`, only the owner submits jobs that record
  latencies. Another thread's could be refused and leave no sample.

**`ServerProofs`**, for any number of clients, workers, descriptors, messages and
signals: `ServerClosesOnlyItsOwn`, `ServerClosesNoOther`, `ServerRoutesOpenSockets`
and `ServerCleanExit`. `Ownership` says that a connection nobody has closed still has
its descriptor, unless `stop()` took it (`Owned`), that at most one thread has won
`fdClosed` (`Flags`), that `connections_` is right except about the connection
being forgotten (`Routed`), and that within a batch no other route disappears
(`Batch`). `Accounts` adds that `pendingJobs` is the number of jobs queued, running
and being handed over (`Counted`), and that every open socket is in `connections_`
or in the hands of someone who will close it (`Kept`, `Claimed`); `Ending` carries
it through the destructors.

**`FixSessionProofs`**, for any scripts, any damaged token, any way the stream is cut
into reads, any number of workers and any order of the answers. The hypothesis
`TokensWeigh` says that the bytes of every token add up to a natural number; it is
not an ASSUME because TLC cannot go through all tokens. The other hypotheses, named
below, are about what clients send and what damage is; `MCFixSession` assumes
them, so that TLC evaluates them on the run's scripts.

* `FixFramingExact`. The inductive invariant `Framed` says that what has been cut
  off, the buffer and what is still to come are together the whole stream
  (`Whole`), as long as messages are cut off where they end, and that the loop only
  waits when the buffer holds no complete message. `Extracts` is the heart: on a
  buffer that begins like a message `tryExtractMessage` waits for exactly its last
  token, however little of the header has arrived. The stream is a concatenation
  (`FlattenSeq`), which `Flattens` and `UptoPrefix` take apart by induction.
* `FixRepliesWellFormed`. `Verifies`: `verifyChecksum` finds the last `10=` of what
  `buildMessage` made and sums the same tokens; it needs that a checksum, at most
  255, converts. The order ids given out are below `nextOrderId_` (`Answered`), and
  an order that is not rejected has drawn its own (`ReasonOrId`).
* `FixAnsweredAsSent`, for `ClientsSendFields`: bodies are lists of `tag=value` fields,
  of any length, with any tags in any order. `SplitTells`, by induction on the fields
  still to split, says that `splitFields` maps a tag to the value of its last field
  in the body, and that the header's and the trailer's own tags hide nothing.
  `AcceptsSaid` and `OrderAsSaid` carry this through the conversions; `Kept` says
  that every answer is `parseOrder`'s of the message dispatched, which by `Framed` is
  the one sent.
* `FixNoOrderFromDamage`, with `BodiesAreInner` (BodyLength and CheckSum are
  `buildMessage`'s to write) and `NoiseIsTokens` besides. Where `Framed` only had to
  follow messages up to the damage, it now says what becomes of the damaged one. The damage
  leaves the header `Legible` and the messages apart: the sum is wrong
  (`DamagedHead`, `DamageFails`). Or the stream is `Stuck`: nothing more is ever cut
  off. Or the separator behind BodyLength is gone (`Overrun`), the first field of the body is
  taken for its end, and the message takes three tokens of the next one with it
  (`RunsOver`): the last `10=` is still its own (`Overlong`), so the sum is wrong
  (`OverrunFails`), and what follows does not start like a message (`Stray`).
  The property itself leaves out, by `LengthIsKnown`, the one other damage: a BodyLength
  that becomes another number (section 5).

**Only model-checked:** the liveness properties, since the prover handles neither
fairness nor ENABLED.

## 5. Behaviours the properties are worded around

These follow from the code. The properties leave room for them or exclude them by
an assumption; no run of the project counts them as an error:

* **Damaged BodyLength.** Where BodyLength arrives as another number, messages are cut
  off where they do not end. Two that run together have the checksum field of the
  second, and `verifyChecksum` accepts them if the bytes of the first happen to add
  up to 0 modulo 256; `parseOrder` then makes one order of both. `Unlucky` in
  `MCFixSession` is such a first message: an ASSUME there shows that the two are cut
  off as one and accepted, and `NoOrderFromDamage` without `LengthIsKnown` is violated
  on that instance. `tryExtractMessage` checks no checksum, although its
  comment (`FixParser.hpp:28`) speaks of a checksum-valid message; `parseOrder` does.
* **Deregistration.** The comment at `EventLoop.hpp:185-192` has
  `epoll_ctl(DEL)` happen before any worker may close the descriptor. A worker
  with an *earlier* message of the connection may still close it between
  `peerClosed.store` and `epoll_ctl`. `RoutesOpenSockets` allows this window and
  shows that the number is nobody else's by then.
* **Early SIGINT.** Between `g_loop = &loop` and `running_ = true` the handler's
  `running_ = false` is overwritten: the sockets are closed and the loop runs on,
  deaf. `StopEndsServer` is about signals that find `running_` set.
* **Double close.** `stop()` does not claim `fdClosed`, so `tryFinalize()` may
  close the same number again. `ClosesNoOther` holds because the listening socket
  is closed first: no new client can get the number in between.
* **Counted spinner.** `push()` skips the wake-up when `spinners_` is not 0, and a
  worker is counted there until after its successful `try_pop`. The new item may
  then wait beside a sleeping worker until the busy one is done with its job.
  `AcceptedIsTaken`: nothing is lost.
* **Single cell.** `LockFreeRing(1)` cannot tell a full cell from a free one; the
  ring's modules assume two cells or more. The pool has 65536.
* **Draining after the loop.** Jobs queued at SIGINT run during `~ThreadPool`,
  after `~EventLoop`, and reach the validator through the loop's `this`.

## 6. Not modelled

* A response written to a reused descriptor: `EventLoop.hpp:24-30` names it as a
  consequence of direct writes. The early close of `eventloop_dropped`, between a
  worker's test of `alive` and its `send`, makes it possible.
* Partial sends on a full socket buffer, which `EventLoop.hpp:24-30` names as a
  simplification; failure of `socket`, `bind`, `listen`, `epoll_create1`.
* `closeConnection()`, which nothing calls.
* Signals before `signal()` or after the loop's destruction; what an interrupted
  `unordered_map` or allocator looks like inside the handler.
* BodyLengths near 2^64, whose sum with the header's length wraps around;
  resynchronisation of a damaged stream, which the code does not attempt.
* `shutdown` called by two threads at once: no caller does.
* Timing, latency figures, logging; the test client beyond the messages it builds
  and its use of the socket; minimum, maximum and average of `Stats`.
* Wrap-around of `size_t` positions (2^64 pushes).

## 7. Plan

Done: the components of section 1 (`Stats` and the test client in part); the proofs
of every safety invariant.

Next: what the repository names as simplifications, should they be lifted: partial
sends, and a stream that finds its way back to the next message after damage.
