----------------------------- MODULE LockFreeRing -----------------------------
(***************************************************************************)
(* include/LockFreeRing.hpp: the bounded lock-free ring.                   *)
(*                                                                         *)
(* try_push() and try_pop() are loops of atomic accesses run by any number *)
(* of threads; one action is one of these accesses.  Positions are size_t  *)
(* in the code and natural numbers here: 2^64 pushes are out of reach.     *)
(*                                                                         *)
(* head_ and tail_ are loaded relaxed, so a load may return a value some   *)
(* stores old: up to Lag of them.  A compare-exchange always sees the      *)
(* latest value.  Being the weak form it may also fail on equal values,    *)
(* which takes the thread back to the state in which it was about to load  *)
(* seq, pos included: that failure is no step of its own.  seq is loaded   *)
(* acquire / stored release: the data written before a release is visible  *)
(* to whoever reads the stored value.                                      *)
(***************************************************************************)
EXTENDS Integers, Sequences

CONSTANTS
    Producers,  \* the threads that call try_push()
    Consumers,  \* the threads that call try_pop(); a thread may do both
    Items,      \* what is pushed
    Empty,      \* T{}, what a cell holds when it holds no item
    Cap,        \* number of cells
    Lag,        \* how many stores behind a relaxed load may be
    MaxPush     \* bound on the number of pushes

ASSUME RingAssumption ==
    /\ Cap \in Nat \ {0}
    /\ Lag \in Nat
    /\ MaxPush \in Nat
    /\ Empty \notin Items

VARIABLES
    tail,       \* tail_
    head,       \* head_
    seq,        \* cells_[i].seq
    data,       \* cells_[i].data
    rpc,        \* thread -> where it is in try_push() / try_pop()
    pos,        \* thread -> local pos
    item,       \* thread -> the caller's item (try_push), or out (try_pop)
    rret,       \* thread -> what its latest call returned
    hist        \* history: the item claimed for each position, in order

ringVars == <<tail, head, seq, data, rpc, pos, item, rret, hist>>

Threads == Producers \cup Consumers
Cells   == 0 .. Cap - 1

\* The constructor's loop: the least power of two that is >= minCapacity.
RingCapacity(minCapacity) ==
    CHOOSE c \in {2^k : k \in 0 .. minCapacity} :
        /\ c >= minCapacity
        /\ \A k \in 0 .. minCapacity : 2^k >= minCapacity => c <= 2^k

PushLabels == {"pushLoad", "pushSeq", "pushCas", "pushMove", "pushPublish"}
PopLabels  == {"popLoad", "popSeq", "popCas", "popMove", "popPublish"}

RingInit ==
    /\ tail = 0
    /\ head = 0
    /\ seq  = [i \in Cells |-> i]
    /\ data = [i \in Cells |-> Empty]
    /\ rpc  = [t \in Threads |-> "out"]
    /\ pos  = [t \in Threads |-> 0]
    /\ item = [t \in Threads |-> Empty]
    /\ rret = [t \in Threads |-> FALSE]
    /\ hist = << >>

RingTypeOK ==
    /\ tail \in Nat
    /\ head \in Nat
    /\ seq  \in [Cells -> Int]
    /\ data \in [Cells -> Items \cup {Empty}]
    /\ rpc  \in [Threads -> PushLabels \cup PopLabels \cup {"out"}]
    /\ pos  \in [Threads -> Nat]
    /\ item \in [Threads -> Items \cup {Empty}]
    /\ rret \in [Threads -> BOOLEAN]
    /\ hist \in Seq(Items)

-----------------------------------------------------------------------------
\* pos & mask_: Cap is a power of two.
Slot(p) == p % Cap
Cell(t) == Slot(pos[t])

Goto(t, from, to) ==
    /\ rpc[t] = from
    /\ rpc' = [rpc EXCEPT ![t] = to]

\* The call ends with this result; pos goes out of scope.
Return(t, result) ==
    /\ rpc'  = [rpc EXCEPT ![t] = "out"]
    /\ rret' = [rret EXCEPT ![t] = result]
    /\ pos'  = [pos EXCEPT ![t] = 0]

\* A relaxed load of the counter n into pos.
RelaxedLoad(t, n) ==
    \E p \in (IF n >= Lag THEN n - Lag ELSE 0) .. n : pos' = [pos EXCEPT ![t] = p]

-----------------------------------------------------------------------------
(* bool try_push(T& item)                                                  *)

TryPush(t, x) ==
    /\ Goto(t, "out", "pushLoad")
    /\ item' = [item EXCEPT ![t] = x]
    /\ UNCHANGED <<tail, head, seq, data, pos, rret, hist>>

PushLoad(t) ==
    /\ Goto(t, "pushLoad", "pushSeq")
    /\ RelaxedLoad(t, tail)
    /\ UNCHANGED <<tail, head, seq, data, item, rret, hist>>

\* Mutant: the claim is tried whatever the cell's seq says.
PushSeq_AnyTurn(t) ==
    /\ Goto(t, "pushSeq", "pushCas")
    /\ UNCHANGED <<tail, head, seq, data, pos, item, rret, hist>>

\* diff == 0: the cell is free, go for it; diff > 0: reload tail_.
PushSeq(t) ==
    /\ \/ seq[Cell(t)] = pos[t] /\ Goto(t, "pushSeq", "pushCas")
       \/ seq[Cell(t)] > pos[t] /\ Goto(t, "pushSeq", "pushLoad")
    /\ UNCHANGED <<tail, head, seq, data, pos, item, rret, hist>>

\* diff < 0: full.
PushFull(t) ==
    /\ rpc[t] = "pushSeq"
    /\ seq[Cell(t)] < pos[t]
    /\ Return(t, FALSE)
    /\ UNCHANGED <<tail, head, seq, data, item, hist>>

\* The claim, once the compare-exchange has succeeded.
Claimed(t) ==
    /\ Goto(t, "pushCas", "pushMove")
    /\ tail' = pos[t] + 1
    /\ hist' = Append(hist, item[t])
    /\ UNCHANGED <<head, seq, data, pos, item, rret>>

\* Mutant: tail_ is advanced without comparing it with pos.
PushClaim_NoCompare(t) == Claimed(t)

PushClaim(t) ==
    /\ tail = pos[t]
    /\ Claimed(t)

\* Mutant: the item is moved away before the claim has succeeded.
PushCasFails_LosesItem(t) ==
    /\ tail # pos[t]
    /\ Goto(t, "pushCas", "pushSeq")
    /\ pos'  = [pos EXCEPT ![t] = tail]
    /\ item' = [item EXCEPT ![t] = Empty]
    /\ UNCHANGED <<tail, head, seq, data, rret, hist>>

\* A failed compare-exchange: pos is reloaded, and the loop starts over.
PushCasFails(t) ==
    /\ tail # pos[t]
    /\ Goto(t, "pushCas", "pushSeq")
    /\ pos' = [pos EXCEPT ![t] = tail]
    /\ UNCHANGED <<tail, head, seq, data, item, rret, hist>>

\* cell.data = std::move(item)
PushMove(t) ==
    /\ Goto(t, "pushMove", "pushPublish")
    /\ data' = [data EXCEPT ![Cell(t)] = item[t]]
    /\ item' = [item EXCEPT ![t] = Empty]
    /\ UNCHANGED <<tail, head, seq, pos, rret, hist>>

PushPublish(t) ==
    /\ rpc[t] = "pushPublish"
    /\ seq' = [seq EXCEPT ![Cell(t)] = pos[t] + 1]
    /\ Return(t, TRUE)
    /\ UNCHANGED <<tail, head, data, item, hist>>

-----------------------------------------------------------------------------
(* bool try_pop(T& out)                                                    *)

TryPop(t) ==
    /\ Goto(t, "out", "popLoad")
    /\ UNCHANGED <<tail, head, seq, data, pos, item, rret, hist>>

PopLoad(t) ==
    /\ Goto(t, "popLoad", "popSeq")
    /\ RelaxedLoad(t, head)
    /\ UNCHANGED <<tail, head, seq, data, item, rret, hist>>

PopSeq(t) ==
    /\ \/ seq[Cell(t)] = pos[t] + 1 /\ Goto(t, "popSeq", "popCas")
       \/ seq[Cell(t)] > pos[t] + 1 /\ Goto(t, "popSeq", "popLoad")
    /\ UNCHANGED <<tail, head, seq, data, pos, item, rret, hist>>

\* Mutant: a stale pos is taken for an empty ring.
PopEmpty_AnyDiff(t) ==
    /\ rpc[t] = "popSeq"
    /\ seq[Cell(t)] # pos[t] + 1
    /\ Return(t, FALSE)
    /\ UNCHANGED <<tail, head, seq, data, item, hist>>

\* diff < 0: empty.
PopEmpty(t) ==
    /\ rpc[t] = "popSeq"
    /\ seq[Cell(t)] < pos[t] + 1
    /\ Return(t, FALSE)
    /\ UNCHANGED <<tail, head, seq, data, item, hist>>

\* Mutant: head_ is advanced without comparing it with pos.
PopClaim_NoCompare(t) ==
    /\ Goto(t, "popCas", "popMove")
    /\ head' = pos[t] + 1
    /\ UNCHANGED <<tail, seq, data, pos, item, rret, hist>>

PopClaim(t) ==
    /\ head = pos[t]
    /\ Goto(t, "popCas", "popMove")
    /\ head' = pos[t] + 1
    /\ UNCHANGED <<tail, seq, data, pos, item, rret, hist>>

PopCasFails(t) ==
    /\ head # pos[t]
    /\ Goto(t, "popCas", "popSeq")
    /\ pos' = [pos EXCEPT ![t] = head]
    /\ UNCHANGED <<tail, head, seq, data, item, rret, hist>>

\* Mutant: the cell keeps (a copy of) the item.
PopMove_KeepsItem(t) ==
    /\ Goto(t, "popMove", "popPublish")
    /\ item' = [item EXCEPT ![t] = data[Cell(t)]]
    /\ UNCHANGED <<tail, head, seq, data, pos, rret, hist>>

\* out = std::move(cell.data); cell.data = T{}
PopMove(t) ==
    /\ Goto(t, "popMove", "popPublish")
    /\ item' = [item EXCEPT ![t] = data[Cell(t)]]
    /\ data' = [data EXCEPT ![Cell(t)] = Empty]
    /\ UNCHANGED <<tail, head, seq, pos, rret, hist>>

\* cell.seq.store(pos + mask_ + 1): free for the next lap.
PopPublish(t) ==
    /\ rpc[t] = "popPublish"
    /\ seq' = [seq EXCEPT ![Cell(t)] = pos[t] + Cap]
    /\ Return(t, TRUE)
    /\ UNCHANGED <<tail, head, data, item, hist>>

-----------------------------------------------------------------------------
PushStep(t) ==
    \/ PushLoad(t) \/ PushSeq(t) \/ PushFull(t)
    \/ PushClaim(t) \/ PushCasFails(t)
    \/ PushMove(t) \/ PushPublish(t)

PopStep(t) ==
    \/ PopLoad(t) \/ PopSeq(t) \/ PopEmpty(t)
    \/ PopClaim(t) \/ PopCasFails(t)
    \/ PopMove(t) \/ PopPublish(t)

RingNext ==
    \/ \E t \in Producers, x \in Items : tail < MaxPush /\ TryPush(t, x)
    \/ \E t \in Consumers : TryPop(t)
    \/ \E t \in Threads : PushStep(t) \/ PopStep(t)

RingSpec == RingInit /\ [][RingNext]_ringVars

-----------------------------------------------------------------------------
(* Properties                                                              *)

\* t has claimed a position to fill / to empty and has not published yet.
Filling(t)  == rpc[t] \in {"pushMove", "pushPublish"}
Emptying(t) == rpc[t] \in {"popMove", "popPublish"}

\* "A thread claims a position with a CAS on tail_/head_, then owns that cell
\* alone until it publishes": no two threads work on one cell at a time, so
\* the plain accesses to cell.data never race.
OwnsCellAlone ==
    \A t, u \in Threads :
        /\ t # u
        /\ Filling(t) \/ Emptying(t)
        /\ Filling(u) \/ Emptying(u)
        => Cell(t) # Cell(u)

\* try_push() really returns false when the ring is full: there are never
\* more unclaimed items than cells.
Bounded == head <= tail /\ tail <= head + Cap

\* Nothing is lost, duplicated or reordered: the thread that wins position p
\* of head_ leaves with the item that was pushed at position p of tail_.
DeliversInOrder ==
    \A t \in Threads :
        rpc[t] = "popPublish" => item[t] = hist[pos[t] + 1]

\* "Drop whatever the job captured now, not when this cell is next
\* overwritten": a cell holds on to an item only between the moves of its
\* push and of its pop.
ReleasesItems ==
    \A i \in Cells : data[i] # Empty =>
        \/ \E p \in head .. tail - 1 : Slot(p) = i
        \/ \E t \in Threads : rpc[t] = "popMove" /\ Cell(t) = i

\* A try_pop() that reports "empty" does so at a moment when there was nothing
\* to take: head_ had reached tail_, or the push at head_ was not done yet.  A
\* try_push() that reports "full" does so when every cell was taken: by an
\* item, or by a pop that had not handed its cell back yet.
RefusesTruthfully ==
    [][\A t \in Threads :
          /\ PopEmpty(t) =>
                /\ pos[t] = head
                /\ head = tail \/ \E u \in Threads : Filling(u) /\ pos[u] = head
          /\ PushFull(t) =>
                /\ pos[t] = tail
                /\ tail = head + Cap \/ \E u \in Threads : Emptying(u) /\ pos[u] = tail - Cap
      ]_ringVars
=============================================================================
