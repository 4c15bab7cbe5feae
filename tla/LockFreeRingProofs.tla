--------------------------- MODULE LockFreeRingProofs ---------------------------
(***************************************************************************)
(* The ring is a bounded queue for any number of threads, items and cells, *)
(* as long as there are at least two cells.                                *)
(***************************************************************************)
EXTENDS LockFreeRing, TLAPS

-----------------------------------------------------------------------------
(* Positions and cells                                                     *)

\* A position has a cell.
LEMMA SlotInRange == \A p \in Nat : Slot(p) \in Cells
  BY RingAssumption DEF Slot, Cells

\* Quotient and remainder are unique.
LEMMA Remainder ==
    \A c \in Nat \ {0}, p, a, r \in Int :
        p = c * a + r /\ 0 <= r /\ r < c => r = p % c
  OBVIOUS

\* One lap further on, it is the same cell.
LEMMA SlotNextLap == \A p \in Nat : Slot(p + Cap) = Slot(p)
<1> TAKE p \in Nat
<1> DEFINE a == p \div Cap
           r == p % Cap
<1>1. /\ Cap \in Nat \ {0}
      /\ p = Cap * a + r
      /\ a \in Int
      /\ r \in 0 .. Cap - 1
  BY RingAssumption
<1> HIDE DEF a, r
<1>2. Cap * (a + 1) = Cap * a + Cap
  BY <1>1
<1>3. p + Cap = Cap * (a + 1) + r
  BY <1>1, <1>2
<1>4. a + 1 \in Int /\ r \in Int /\ p + Cap \in Int
  BY <1>1
<1>5. r = (p + Cap) % Cap
  BY <1>1, <1>3, <1>4, Remainder
<1> QED
  BY <1>5 DEF r, Slot

\* Positions of one cell that are less than two laps apart are equal, or one
\* lap apart.
LEMMA SlotSame ==
    ASSUME NEW p \in Nat, NEW q \in Nat, Slot(p) = Slot(q), p <= q, q < p + 2 * Cap
    PROVE  q = p \/ q = p + Cap
<1> DEFINE a == p \div Cap
           b == q \div Cap
           r == p % Cap
           k == b - a
<1>1. /\ Cap \in Nat \ {0}
      /\ a \in Int /\ b \in Int /\ r \in Int
      /\ p = Cap * a + r
      /\ q = Cap * b + r
  BY RingAssumption DEF Slot
<1> HIDE DEF a, b, r
<1>2. Cap * k = Cap * b - Cap * a
  BY <1>1
<1>3. k \in Int /\ q - p = Cap * k
  BY <1>1, <1>2
<1> HIDE DEF k
<1>4. ~(k < 0)
  <2>1. k < 0 => Cap * k < 0
    BY <1>1, <1>3
  <2> QED
    BY <1>1, <1>3, <2>1
<1>5. ~(k >= 2)
  <2>1. k >= 2 => Cap * k >= 2 * Cap
    BY <1>1, <1>3
  <2> QED
    BY <1>1, <1>3, <2>1
<1>6. CASE k = 0
  <2>1. Cap * k = 0
    BY <1>1, <1>6
  <2> QED
    BY <1>3, <2>1
<1>7. CASE k = 1
  <2>1. Cap * k = Cap
    BY <1>1, <1>7
  <2> QED
    BY <1>1, <1>3, <2>1
<1> QED
  BY <1>3, <1>4, <1>5, <1>6, <1>7

-----------------------------------------------------------------------------
(* The inductive invariant                                                 *)

\* Where a thread's pos may be.
Positions ==
    \A t \in Threads :
        /\ rpc[t] \in {"pushSeq", "pushCas"} => pos[t] <= tail
        /\ rpc[t] \in {"popSeq", "popCas"} => pos[t] <= head
        /\ Filling(t) => head <= pos[t] /\ pos[t] < tail
        /\ Emptying(t) => tail <= pos[t] + Cap /\ pos[t] < head

\* No position is claimed twice.
Claims ==
    \A t, u \in Threads :
        /\ t # u
        /\ (Filling(t) /\ Filling(u)) \/ (Emptying(t) /\ Emptying(u))
        => pos[t] # pos[u]

\* Whose turn seq says it is: at a position that holds an item, at a free one,
\* and at one that is being filled or emptied.
Turns ==
    /\ \A p \in Nat : head <= p /\ p < tail => seq[Slot(p)] \in {p, p + 1}
    /\ \A p \in Nat : tail <= p /\ p < head + Cap =>
            seq[Slot(p)] = p \/ seq[Slot(p)] = p - Cap + 1
    /\ \A t \in Threads : Filling(t) => seq[Cell(t)] = pos[t]
    /\ \A t \in Threads : Emptying(t) => seq[Cell(t)] = pos[t] + 1

\* What a thread has read before its compare-exchange still holds if the
\* counter has not moved.
Reads ==
    \A t \in Threads :
        /\ rpc[t] = "pushCas" /\ pos[t] = tail => seq[Slot(tail)] = tail
        /\ rpc[t] = "popCas" /\ pos[t] = head => seq[Slot(head)] = head + 1

\* Where the item of each position is.
Contents ==
    /\ \A p \in Nat : head <= p /\ p < tail /\ seq[Slot(p)] = p + 1 =>
            data[Slot(p)] = hist[p + 1]
    /\ \A t \in Threads :
          /\ rpc[t] \in PushLabels \ {"pushPublish"} => item[t] \in Items
          /\ rpc[t] = "pushMove" => item[t] = hist[pos[t] + 1]
          /\ rpc[t] = "pushPublish" => data[Cell(t)] = hist[pos[t] + 1]
          /\ rpc[t] = "popMove" => data[Cell(t)] = hist[pos[t] + 1]
          /\ rpc[t] = "popPublish" => item[t] = hist[pos[t] + 1]

Sound == RingTypeOK /\ Bounded /\ Len(hist) = tail
              /\ Positions /\ Claims /\ Turns /\ Reads /\ Contents /\ ReleasesItems

-----------------------------------------------------------------------------
\* Threads at work on claimed positions have cells of their own.
LEMMA CellsApart ==
    ASSUME Sound, NEW t \in Threads, NEW u \in Threads, t # u,
           Filling(t) \/ Emptying(t), Filling(u) \/ Emptying(u)
    PROVE  Cell(t) # Cell(u)
<1>1. /\ pos[t] \in Nat /\ pos[u] \in Nat
      /\ head \in Nat /\ tail \in Nat /\ Cap \in Nat \ {0}
  BY RingAssumption DEF Sound, RingTypeOK
<1>2. pos[t] # pos[u]
  BY <1>1 DEF Sound, Claims, Positions
<1>3. /\ tail <= pos[t] + Cap /\ pos[t] < tail
      /\ tail <= pos[u] + Cap /\ pos[u] < tail
  BY <1>1 DEF Sound, Positions, Bounded
<1>4. CASE pos[t] < pos[u]
  BY <1>1, <1>3, <1>4, SlotSame DEF Cell
<1>5. CASE pos[u] < pos[t]
  BY <1>1, <1>3, <1>5, SlotSame DEF Cell
<1> QED
  BY <1>1, <1>2, <1>4, <1>5

\* A position that holds an item shares its cell with no thread that fills or
\* empties another position.
LEMMA QueuedApart ==
    ASSUME Sound, NEW p \in Nat, head <= p, p < tail, NEW t \in Threads,
           Filling(t) \/ Emptying(t), p # pos[t]
    PROVE  Slot(p) # Cell(t)
<1>1. /\ pos[t] \in Nat /\ head \in Nat /\ tail \in Nat /\ Cap \in Nat \ {0}
  BY RingAssumption DEF Sound, RingTypeOK
<1>2. tail <= pos[t] + Cap /\ pos[t] < tail /\ tail <= p + Cap
  BY <1>1 DEF Sound, Positions, Bounded
<1>3. CASE pos[t] < p
  BY <1>1, <1>2, <1>3, SlotSame DEF Cell
<1>4. CASE p < pos[t]
  BY <1>1, <1>2, <1>4, SlotSame DEF Cell
<1> QED
  BY <1>1, <1>3, <1>4

\* The same for a free position: only the thread that still empties it one lap
\* back shares its cell.
LEMMA FreeApart ==
    ASSUME Sound, NEW p \in Nat, tail <= p, p < head + Cap, NEW t \in Threads,
           Filling(t) \/ (Emptying(t) /\ p # pos[t] + Cap)
    PROVE  Slot(p) # Cell(t)
<1>1. /\ pos[t] \in Nat /\ head \in Nat /\ tail \in Nat /\ Cap \in Nat \ {0}
  BY RingAssumption DEF Sound, RingTypeOK
<1>2. tail <= pos[t] + Cap /\ pos[t] < tail
  BY <1>1 DEF Sound, Positions, Bounded
<1>3. pos[t] <= p /\ p < pos[t] + 2 * Cap
  BY <1>1, <1>2 DEF Sound, Bounded
<1>4. p # pos[t] /\ p # pos[t] + Cap
  BY <1>1, <1>2 DEF Sound, Positions
<1> QED
  BY <1>1, <1>3, <1>4, SlotSame DEF Cell

\* The constructor leaves a sound ring.
LEMMA InitSound == RingInit => Sound
<1> SUFFICES ASSUME RingInit PROVE Sound
  OBVIOUS
<1>1. RingTypeOK
  BY RingAssumption DEF RingInit, RingTypeOK, Cells, PushLabels, PopLabels
<1>2. Bounded /\ Len(hist) = tail
  BY RingAssumption DEF RingInit, Bounded
<1>3. Positions /\ Claims /\ Reads /\ ReleasesItems
  BY <1>1 DEF RingInit, Positions, Claims, Reads, ReleasesItems, Filling, Emptying, RingTypeOK
<1>4. Turns
  <2>1. ASSUME NEW p \in Nat, p < Cap PROVE Slot(p) = p
    BY <2>1, RingAssumption DEF Slot
  <2> QED
    BY <2>1, RingAssumption DEF RingInit, Turns, Filling, Emptying, Cells
<1>5. Contents
  BY <1>1, RingAssumption DEF RingInit, Contents, PushLabels
<1> QED
  BY <1>1, <1>2, <1>3, <1>4, <1>5 DEF Sound

-----------------------------------------------------------------------------
(* The steps of a thread that change nothing shared                        *)

Shared == <<tail, head, seq, data, hist>>

LocalStep(t) ==
    \/ \E x \in Items : TryPush(t, x)
    \/ PushLoad(t) \/ PushSeq(t) \/ PushFull(t) \/ PushCasFails(t)
    \/ TryPop(t) \/ PopLoad(t) \/ PopSeq(t) \/ PopEmpty(t) \/ PopCasFails(t)

\* The result of a call is a truth value.
LEMMA ReturnTyped ==
    ASSUME NEW t \in Threads, NEW result \in BOOLEAN,
           rret \in [Threads -> BOOLEAN], Return(t, result)
    PROVE  rret' \in [Threads -> BOOLEAN]
  BY Zenon DEF Return

\* Steps that change nothing but the thread's own locals: loads, tests, failed
\* compare-exchanges and returns without an item.
LEMMA LocalSound ==
    ASSUME Sound, NEW t \in Threads, LocalStep(t)
    PROVE  Sound'
<1> USE RingAssumption
<1>1. RingTypeOK'
  <2>1. CASE PushLoad(t) \/ PopLoad(t)
    <3>1. PICK p \in Nat : pos' = [pos EXCEPT ![t] = p]
      BY <2>1 DEF Sound, RingTypeOK, PushLoad, PopLoad, RelaxedLoad
    <3> QED
      BY <2>1, <3>1 DEF Sound, RingTypeOK, PushLoad, PopLoad, Goto, PushLabels, PopLabels
  <2>2. ASSUME NEW x \in Items, TryPush(t, x) PROVE RingTypeOK'
    BY <2>2 DEF Sound, RingTypeOK, TryPush, Goto, PushLabels
  <2>3. CASE TryPop(t) \/ PushSeq(t) \/ PopSeq(t)
    BY <2>3 DEF Sound, RingTypeOK, TryPop, PushSeq, PopSeq, Goto, PushLabels, PopLabels
  <2>4. CASE PushFull(t) \/ PopEmpty(t)
    <3>1. rret' \in [Threads -> BOOLEAN]
      BY <2>4, ReturnTyped DEF Sound, RingTypeOK, PushFull, PopEmpty
    <3>2. /\ rpc' = [rpc EXCEPT ![t] = "out"]
          /\ pos' = [pos EXCEPT ![t] = 0]
          /\ UNCHANGED <<tail, head, seq, data, item, hist>>
      BY <2>4 DEF PushFull, PopEmpty, Return
    <3> QED
      BY <3>1, <3>2 DEF Sound, RingTypeOK, PushLabels, PopLabels
  <2>5. CASE PushCasFails(t) \/ PopCasFails(t)
    BY <2>5 DEF Sound, RingTypeOK, PushCasFails, PopCasFails, Goto, PushLabels, PopLabels
  <2> QED
    BY <2>1, <2>2, <2>3, <2>4, <2>5 DEF LocalStep
<1>2. UNCHANGED Shared
  BY DEF LocalStep, TryPush, PushLoad, PushSeq, PushFull, PushCasFails,
     TryPop, PopLoad, PopSeq, PopEmpty, PopCasFails, Shared
<1>3. /\ ~Filling(t) /\ ~Filling(t)' /\ ~Emptying(t) /\ ~Emptying(t)'
      /\ rpc'[t] # "pushMove" /\ rpc'[t] # "pushPublish"
      /\ rpc'[t] # "popMove" /\ rpc'[t] # "popPublish"
      /\ rpc[t] # "popMove"
  BY DEF Sound, RingTypeOK, LocalStep, TryPush, PushLoad, PushSeq, PushFull, PushCasFails,
     TryPop, PopLoad, PopSeq, PopEmpty, PopCasFails, Goto, Return, Filling, Emptying
<1>4. ASSUME NEW u \in Threads, u # t
      PROVE  /\ rpc'[u] = rpc[u] /\ pos'[u] = pos[u] /\ item'[u] = item[u]
             /\ Filling(u)' <=> Filling(u)
             /\ Emptying(u)' <=> Emptying(u)
             /\ Cell(u)' = Cell(u)
  BY <1>4 DEF Sound, RingTypeOK, LocalStep, TryPush, PushLoad, PushSeq, PushFull, PushCasFails,
     TryPop, PopLoad, PopSeq, PopEmpty, PopCasFails, Goto, Return, RelaxedLoad,
     Filling, Emptying, Cell
<1>5. Bounded' /\ (Len(hist) = tail)'
  BY <1>2 DEF Sound, Bounded, Shared
<1>6. Positions'
  <2>1. /\ rpc'[t] \in {"pushSeq", "pushCas"} => pos'[t] <= tail
        /\ rpc'[t] \in {"popSeq", "popCas"} => pos'[t] <= head
    BY DEF Sound, Positions, RingTypeOK, LocalStep, TryPush, PushLoad, PushSeq, PushFull,
       PushCasFails, TryPop, PopLoad, PopSeq, PopEmpty, PopCasFails, Goto, Return, RelaxedLoad
  <2> QED
    BY <1>2, <1>3, <1>4, <2>1 DEF Sound, Positions, Shared
<1>7. Claims'
  BY <1>3, <1>4 DEF Sound, Claims
<1>8. Turns'
  BY <1>2, <1>3, <1>4 DEF Sound, Turns, Shared
<1>9. Reads'
  <2>1. /\ rpc'[t] = "pushCas" /\ pos'[t] = tail => seq[Slot(tail)] = tail
        /\ rpc'[t] = "popCas" /\ pos'[t] = head => seq[Slot(head)] = head + 1
    BY DEF Sound, Reads, RingTypeOK, LocalStep, TryPush, PushLoad, PushSeq, PushFull,
       PushCasFails, TryPop, PopLoad, PopSeq, PopEmpty, PopCasFails, Goto, Return, Cell
  <2> QED
    BY <1>2, <1>4, <2>1 DEF Sound, Reads, Shared
<1>10. Contents'
  <2>1. rpc'[t] \in PushLabels \ {"pushPublish"} => item'[t] \in Items
    BY DEF Sound, Contents, RingTypeOK, LocalStep, TryPush, PushLoad, PushSeq, PushFull,
       PushCasFails, TryPop, PopLoad, PopSeq, PopEmpty, PopCasFails, Goto, Return, PushLabels
  <2> QED
    BY <1>2, <1>3, <1>4, <2>1 DEF Sound, Contents, Shared
<1>11. ReleasesItems'
  BY <1>2, <1>3, <1>4 DEF Sound, ReleasesItems, Shared
<1> QED
  BY <1>1, <1>5, <1>6, <1>7, <1>8, <1>9, <1>10, <1>11 DEF Sound

-----------------------------------------------------------------------------
(* The compare-exchanges that win                                          *)

\* This is where two cells are needed: with a single one, "full for this lap"
\* and "free for the next" are the same number.
LEMMA PushClaimSound ==
    ASSUME Cap > 1, Sound, NEW t \in Threads, PushClaim(t)
    PROVE  Sound'
<1> USE RingAssumption
<1>1. /\ tail \in Nat /\ head \in Nat /\ pos[t] = tail /\ rpc[t] = "pushCas"
      /\ tail' = tail + 1 /\ hist' = Append(hist, item[t])
      /\ rpc' = [rpc EXCEPT ![t] = "pushMove"]
      /\ UNCHANGED <<head, seq, data, pos, item, rret>>
  BY DEF Sound, RingTypeOK, PushClaim, Claimed, Goto
<1>2. item[t] \in Items /\ seq[Slot(tail)] = tail
  BY <1>1 DEF Sound, Contents, Reads, PushLabels
<1>3. tail < head + Cap
  <2>1. SUFFICES ASSUME tail = head + Cap PROVE FALSE
    BY <1>1 DEF Sound, Bounded
  <2>2. seq[Slot(head)] = tail
    BY <1>1, <1>2, <2>1, SlotNextLap
  <2>3. seq[Slot(head)] \in {head, head + 1}
    BY <1>1, <2>1 DEF Sound, Turns
  <2> QED
    BY <1>1, <2>1, <2>2, <2>3
<1>4. RingTypeOK'
  BY <1>1, <1>2 DEF Sound, RingTypeOK, PushLabels
<1>5. Bounded' /\ (Len(hist) = tail)'
  BY <1>1, <1>2, <1>3 DEF Sound, Bounded, RingTypeOK
<1>6. ASSUME NEW u \in Threads
      PROVE  /\ u # t => /\ rpc'[u] = rpc[u]
                         /\ Filling(u)' <=> Filling(u)
             /\ Emptying(u)' <=> Emptying(u)
             /\ Cell(u)' = Cell(u)
             /\ pos'[u] = pos[u] /\ pos[u] \in Nat
  BY <1>1, <1>6 DEF Sound, RingTypeOK, Filling, Emptying, Cell
<1>7. rpc'[t] = "pushMove" /\ Filling(t)' /\ ~Emptying(t)' /\ Cell(t) = Slot(tail)
  BY <1>1 DEF Sound, RingTypeOK, Filling, Emptying, Cell
<1>8. \A p \in Nat : p < tail => hist'[p + 1] = hist[p + 1]
  BY <1>1, <1>2 DEF Sound, RingTypeOK
<1>9. hist'[tail + 1] = item[t]
  BY <1>1, <1>2 DEF Sound, RingTypeOK
<1>10. Positions'
  <2>1. ASSUME NEW u \in Threads, Emptying(u) PROVE tail + 1 <= pos[u] + Cap
    <3>1. CASE pos[u] + Cap = tail
      <4>1. Slot(tail) = Cell(u)
        BY <1>6, <3>1, SlotNextLap DEF Cell
      <4>2. seq[Cell(u)] = pos[u] + 1
        BY <2>1 DEF Sound, Turns
      <4> QED
        BY <1>1, <1>2, <1>6, <3>1, <4>1, <4>2
    <3> QED
      BY <1>1, <1>6, <2>1, <3>1 DEF Sound, Positions
  <2> QED
    BY <1>1, <1>3, <1>6, <1>7, <2>1 DEF Sound, Positions, Bounded
<1>11. Claims'
  BY <1>1, <1>6, <1>7 DEF Sound, Claims, Positions
<1>12. Turns'
  BY <1>1, <1>2, <1>6, <1>7 DEF Sound, Turns
<1>13. Reads'
  BY <1>1, <1>6, <1>7 DEF Sound, Reads, Positions
<1>14. Contents'
  <2>1. ASSUME NEW u \in Threads
        PROVE  /\ rpc[u] \in {"pushMove", "pushPublish", "popMove", "popPublish"} => pos[u] < tail
    BY <1>1, <1>6 DEF Sound, Positions, Filling, Emptying, Bounded
  <2>2. \A p \in Nat : head <= p /\ p < tail + 1 /\ seq[Slot(p)] = p + 1 =>
            data[Slot(p)] = hist'[p + 1]
    BY <1>1, <1>2, <1>8 DEF Sound, Contents
  <2> QED
    BY <1>1, <1>2, <1>6, <1>7, <1>8, <1>9, <2>1, <2>2 DEF Sound, Contents, PushLabels
<1>15. ReleasesItems'
  BY <1>1, <1>6, <1>7 DEF Sound, ReleasesItems
<1> QED
  BY <1>4, <1>5, <1>10, <1>11, <1>12, <1>13, <1>14, <1>15 DEF Sound

\* Winning the compare-exchange on head_: the oldest position moves from the
\* queued ones to those being emptied.
LEMMA PopClaimSound ==
    ASSUME Cap > 1, Sound, NEW t \in Threads, PopClaim(t)
    PROVE  Sound'
<1> USE RingAssumption
<1>1. /\ tail \in Nat /\ head \in Nat /\ pos[t] = head /\ rpc[t] = "popCas"
      /\ head' = head + 1
      /\ rpc' = [rpc EXCEPT ![t] = "popMove"]
      /\ UNCHANGED <<tail, seq, data, pos, item, rret, hist>>
  BY DEF Sound, RingTypeOK, PopClaim, Goto
<1>2. seq[Slot(head)] = head + 1
  BY <1>1 DEF Sound, Reads
<1>3. head < tail
  <2>1. SUFFICES ASSUME tail = head PROVE FALSE
    BY <1>1 DEF Sound, Bounded
  <2>2. seq[Slot(head)] = head \/ seq[Slot(head)] = head - Cap + 1
    BY <1>1, <2>1 DEF Sound, Turns
  <2> QED
    BY <1>1, <1>2, <2>2
<1>4. RingTypeOK'
  BY <1>1 DEF Sound, RingTypeOK, PopLabels
<1>5. Bounded' /\ (Len(hist) = tail)'
  BY <1>1, <1>3 DEF Sound, Bounded
<1>6. ASSUME NEW u \in Threads
      PROVE  /\ u # t => /\ rpc'[u] = rpc[u]
                         /\ Emptying(u)' <=> Emptying(u)
             /\ Filling(u)' <=> Filling(u)
             /\ Cell(u)' = Cell(u)
             /\ pos'[u] = pos[u] /\ pos[u] \in Nat
  BY <1>1, <1>6 DEF Sound, RingTypeOK, Filling, Emptying, Cell
<1>7. rpc'[t] = "popMove" /\ Emptying(t)' /\ ~Filling(t)' /\ Cell(t) = Slot(head)
  BY <1>1 DEF Sound, RingTypeOK, Filling, Emptying, Cell
<1>8. Positions'
  <2>1. ASSUME NEW u \in Threads, Filling(u) PROVE head < pos[u]
    <3>1. CASE pos[u] = head
      BY <1>1, <1>2, <2>1, <3>1 DEF Sound, Turns, Cell
    <3> QED
      BY <1>1, <1>6, <2>1, <3>1 DEF Sound, Positions
  <2> QED
    BY <1>1, <1>3, <1>6, <1>7, <2>1 DEF Sound, Positions, Bounded
<1>9. Claims'
  BY <1>1, <1>6, <1>7 DEF Sound, Claims, Positions
<1>10. Turns'
  <2>1. seq[Slot(head + Cap)] = head + 1
    BY <1>1, <1>2, SlotNextLap
  <2>2. \A p \in Nat : tail <= p /\ p < head + 1 + Cap =>
            seq[Slot(p)] = p \/ seq[Slot(p)] = p - Cap + 1
    BY <1>1, <2>1 DEF Sound, Turns
  <2>3. \A p \in Nat : head + 1 <= p /\ p < tail => seq[Slot(p)] \in {p, p + 1}
    BY <1>1 DEF Sound, Turns
  <2>4. seq[Cell(t)] = pos[t] + 1
    BY <1>1, <1>2, <1>7
  <2> QED
    BY <1>1, <1>6, <1>7, <2>2, <2>3, <2>4 DEF Sound, Turns
<1>11. Reads'
  BY <1>1, <1>6, <1>7 DEF Sound, Reads, Positions
<1>12. Contents'
  <2>1. data[Cell(t)] = hist[pos[t] + 1]
    BY <1>1, <1>2, <1>3, <1>7 DEF Sound, Contents
  <2> QED
    BY <1>1, <1>6, <1>7, <2>1 DEF Sound, Contents, PushLabels
<1>13. ReleasesItems'
  <2>1. ASSUME NEW i \in Cells, data[i] # Empty,
               NEW p \in head .. tail - 1, Slot(p) = i
        PROVE  \/ \E q \in head + 1 .. tail - 1 : Slot(q) = i
               \/ Cell(t) = i
    BY <1>1, <1>7, <2>1
  <2> QED
    BY <1>1, <1>6, <1>7, <2>1 DEF Sound, ReleasesItems
<1> QED
  BY <1>4, <1>5, <1>8, <1>9, <1>10, <1>11, <1>12, <1>13 DEF Sound

-----------------------------------------------------------------------------
(* The moves and the publications                                          *)

\* Moving the item into or out of the claimed cell.
LEMMA MoveSound ==
    ASSUME Sound, NEW t \in Threads, PushMove(t) \/ PopMove(t)
    PROVE  Sound'
<1> USE RingAssumption
<1>1. /\ tail \in Nat /\ head \in Nat /\ pos[t] \in Nat
      /\ Cell(t) \in Cells
      /\ UNCHANGED <<tail, head, seq, pos, rret, hist>>
  BY SlotInRange DEF Sound, RingTypeOK, PushMove, PopMove, Cell
<1>2. /\ Filling(t) \/ Emptying(t)
      /\ \A u \in Threads : u # t => rpc'[u] = rpc[u] /\ item'[u] = item[u]
      /\ \A i \in Cells : i # Cell(t) => data'[i] = data[i]
  BY <1>1 DEF Sound, RingTypeOK, PushMove, PopMove, Goto, Filling, Emptying
<1>3. \A u \in Threads :
          /\ Filling(u)' <=> Filling(u)
          /\ Emptying(u)' <=> Emptying(u)
          /\ Cell(u)' = Cell(u)
          /\ pos'[u] = pos[u] /\ pos[u] \in Nat
  BY <1>1, <1>2 DEF Sound, RingTypeOK, PushMove, PopMove, Goto, Filling, Emptying, Cell
<1>4. RingTypeOK'
  BY <1>1 DEF Sound, RingTypeOK, PushMove, PopMove, Goto, PushLabels, PopLabels
<1>5. Bounded' /\ (Len(hist) = tail)'
  BY <1>1 DEF Sound, Bounded
<1>6. rpc'[t] \in {"pushPublish", "popPublish"}
  BY DEF Sound, RingTypeOK, PushMove, PopMove, Goto
<1>7. Positions' /\ Claims' /\ Turns' /\ Reads'
  <2>1. Positions'
    BY <1>1, <1>2, <1>3, <1>6 DEF Sound, Positions
  <2>2. Claims'
    BY <1>1, <1>3 DEF Sound, Claims
  <2>3. Turns'
    BY <1>1, <1>3 DEF Sound, Turns
  <2>4. Reads'
    BY <1>1, <1>2, <1>3, <1>6 DEF Sound, Reads
  <2> QED
    BY <2>1, <2>2, <2>3, <2>4
<1>8. Contents'
  <2>1. ASSUME NEW p \in Nat, head <= p, p < tail, seq[Slot(p)] = p + 1
        PROVE  data'[Slot(p)] = hist[p + 1]
    <3>1. p # pos[t]
      BY <1>1, <1>2, <2>1 DEF Sound, Turns, Positions, Cell
    <3>2. Slot(p) # Cell(t) /\ Slot(p) \in Cells
      BY <1>2, <2>1, <3>1, QueuedApart, SlotInRange
    <3> QED
      BY <1>2, <2>1, <3>2 DEF Sound, Contents
  <2>2. ASSUME NEW u \in Threads, u # t, rpc[u] \in {"pushPublish", "popMove"}
        PROVE  data'[Cell(u)] = data[Cell(u)]
    <3>1. Cell(u) # Cell(t) /\ Cell(u) \in Cells
      BY <1>2, <1>3, <2>2, CellsApart, SlotInRange DEF Filling, Emptying, Cell
    <3> QED
      BY <1>2, <3>1
  <2>3. /\ rpc'[t] = "pushPublish" => data'[Cell(t)] = hist[pos[t] + 1]
        /\ rpc'[t] = "popPublish" => item'[t] = hist[pos[t] + 1]
    BY <1>1 DEF Sound, RingTypeOK, Contents, PushMove, PopMove, Goto
  <2> QED
    BY <1>1, <1>2, <1>3, <1>6, <2>1, <2>2, <2>3 DEF Sound, Contents, PushLabels
<1>9. ReleasesItems'
  <2>1. CASE PushMove(t)
    <3>1. pos[t] \in head .. tail - 1 /\ Slot(pos[t]) = Cell(t)
      BY <1>1, <2>1 DEF Sound, Positions, PushMove, Goto, Filling, Cell
    <3>2. \A u \in Threads : rpc[u] = "popMove" => rpc'[u] = "popMove"
      BY <1>2, <2>1 DEF PushMove, Goto
    <3> QED
      BY <1>1, <1>2, <1>3, <3>1, <3>2 DEF Sound, ReleasesItems
  <2>2. CASE PopMove(t)
    <3>1. data'[Cell(t)] = Empty
      BY <1>1, <2>2 DEF Sound, RingTypeOK, PopMove
    <3> QED
      BY <1>1, <1>2, <1>3, <3>1 DEF Sound, ReleasesItems
  <2> QED
    BY <2>1, <2>2
<1> QED
  BY <1>4, <1>5, <1>7, <1>8, <1>9 DEF Sound

\* Publishing the cell's next turn.  Here too one cell would not do: the turn a
\* push publishes would be the one a push of the next lap waits for.
LEMMA PublishSound ==
    ASSUME Cap > 1, Sound, NEW t \in Threads, PushPublish(t) \/ PopPublish(t)
    PROVE  Sound'
<1> USE RingAssumption
<1>1. /\ tail \in Nat /\ head \in Nat /\ pos[t] \in Nat
      /\ Cell(t) \in Cells
      /\ rpc' = [rpc EXCEPT ![t] = "out"]
      /\ pos' = [pos EXCEPT ![t] = 0]
      /\ UNCHANGED <<tail, head, data, item, hist>>
  BY SlotInRange DEF Sound, RingTypeOK, PushPublish, PopPublish, Return, Cell
<1>2. /\ Filling(t) \/ Emptying(t)
      /\ rpc'[t] = "out" /\ ~Filling(t)' /\ ~Emptying(t)'
      /\ \A i \in Cells : i # Cell(t) => seq'[i] = seq[i]
  BY <1>1 DEF Sound, RingTypeOK, PushPublish, PopPublish, Filling, Emptying
<1>3. ASSUME NEW u \in Threads, u # t
      PROVE  /\ rpc'[u] = rpc[u]
             /\ Filling(u)' <=> Filling(u)
             /\ Emptying(u)' <=> Emptying(u)
             /\ Cell(u)' = Cell(u) /\ Cell(u) \in Cells
             /\ pos'[u] = pos[u] /\ pos[u] \in Nat
  BY <1>1, <1>3, SlotInRange DEF Sound, RingTypeOK, Filling, Emptying, Cell
<1>4. RingTypeOK'
  <2>1. rret' \in [Threads -> BOOLEAN]
    BY ReturnTyped DEF Sound, RingTypeOK, PushPublish, PopPublish
  <2>2. \/ seq' = [seq EXCEPT ![Cell(t)] = pos[t] + 1]
        \/ seq' = [seq EXCEPT ![Cell(t)] = pos[t] + Cap]
    BY DEF PushPublish, PopPublish
  <2>3. pos[t] + 1 \in Int /\ pos[t] + Cap \in Int /\ seq \in [Cells -> Int]
    BY <1>1 DEF Sound, RingTypeOK
  <2>4. seq' \in [Cells -> Int]
    BY <2>2, <2>3
  <2> QED
    BY <1>1, <2>1, <2>4 DEF Sound, RingTypeOK
<1>5. Bounded' /\ (Len(hist) = tail)'
  BY <1>1 DEF Sound, Bounded
<1>6. Positions'
  BY <1>1, <1>2, <1>3 DEF Sound, Positions
<1>7. Claims'
  BY <1>2, <1>3 DEF Sound, Claims
\* What the step changes: the turn of one cell.
<1>8. \/ Filling(t) /\ seq'[Cell(t)] = pos[t] + 1
      \/ Emptying(t) /\ seq'[Cell(t)] = pos[t] + Cap
  BY <1>1 DEF Sound, RingTypeOK, PushPublish, PopPublish, Filling, Emptying
<1>9. ASSUME NEW p \in Nat, head <= p, p < tail
      PROVE  \/ seq'[Slot(p)] = seq[Slot(p)] /\ p # pos[t]
             \/ p = pos[t] /\ Filling(t) /\ seq'[Slot(p)] = p + 1
  <2>1. CASE p = pos[t]
    BY <1>1, <1>2, <1>8, <1>9, <2>1 DEF Sound, Positions, Cell
  <2>2. CASE p # pos[t]
    BY <1>2, <1>9, <2>2, QueuedApart, SlotInRange
  <2> QED
    BY <2>1, <2>2
<1>10. ASSUME NEW p \in Nat, tail <= p, p < head + Cap
       PROVE  \/ seq'[Slot(p)] = seq[Slot(p)]
              \/ p = pos[t] + Cap /\ seq'[Slot(p)] = p
  <2>1. CASE Emptying(t) /\ p = pos[t] + Cap
    <3>1. Slot(p) = Cell(t)
      BY <1>1, <2>1, SlotNextLap DEF Cell
    <3>2. ~Filling(t)
      BY <2>1 DEF Filling, Emptying
    <3> QED
      BY <1>8, <2>1, <3>1, <3>2
  <2>2. CASE ~(Emptying(t) /\ p = pos[t] + Cap)
    BY <1>2, <1>10, <2>2, FreeApart, SlotInRange
  <2> QED
    BY <2>1, <2>2
<1>11. ASSUME NEW u \in Threads, u # t, Filling(u) \/ Emptying(u)
       PROVE  seq'[Cell(u)] = seq[Cell(u)]
  BY <1>2, <1>3, <1>11, CellsApart
<1>12. Turns'
  <2>1. \A p \in Nat : head <= p /\ p < tail => seq'[Slot(p)] \in {p, p + 1}
    BY <1>9 DEF Sound, Turns
  <2>2. \A p \in Nat : tail <= p /\ p < head + Cap =>
            seq'[Slot(p)] = p \/ seq'[Slot(p)] = p - Cap + 1
    BY <1>10 DEF Sound, Turns
  <2> QED
    BY <1>1, <1>2, <1>3, <1>11, <2>1, <2>2 DEF Sound, Turns
<1>13. Reads'
  <2>1. ASSUME seq[Slot(tail)] = tail PROVE seq'[Slot(tail)] = tail
    <3>1. CASE Slot(tail) = Cell(t)
      <4>1. pos[t] < tail
        BY <1>1, <1>2 DEF Sound, Positions, Bounded
      <4>2. tail = pos[t] + 1
        BY <1>1, <1>2, <2>1, <3>1, <4>1 DEF Sound, Turns
      <4>3. tail = pos[t] + Cap
        BY <1>1, <3>1, <4>1, <4>2, SlotSame DEF Cell
      <4> QED
        BY <1>1, <4>2, <4>3
    <3> QED
      BY <1>1, <1>2, <2>1, <3>1, SlotInRange
  <2>2. ASSUME seq[Slot(head)] = head + 1 PROVE seq'[Slot(head)] = head + 1
    <3>1. CASE Slot(head) = Cell(t)
      <4>1. Filling(t) /\ pos[t] = head + 1
        BY <1>1, <1>2, <2>2, <3>1 DEF Sound, Turns, Positions
      <4>2. Slot(head) # Cell(t)
        BY <1>1, <4>1, QueuedApart DEF Sound, Positions
      <4> QED
        BY <3>1, <4>2
    <3> QED
      BY <1>1, <1>2, <2>2, <3>1, SlotInRange
  <2> QED
    BY <1>1, <1>2, <1>3, <2>1, <2>2 DEF Sound, Reads
<1>14. Contents'
  <2>1. ASSUME NEW p \in Nat, head <= p, p < tail, seq'[Slot(p)] = p + 1
        PROVE  data[Slot(p)] = hist[p + 1]
    <3>1. CASE p = pos[t]
      <4>1. rpc[t] = "pushPublish"
        BY <1>9, <2>1, <3>1 DEF PushPublish, PopPublish, Filling
      <4> QED
        BY <3>1, <4>1 DEF Sound, Contents, Cell
    <3>2. CASE p # pos[t]
      BY <1>9, <2>1, <3>2 DEF Sound, Contents
    <3> QED
      BY <3>1, <3>2
  <2> QED
    BY <1>1, <1>2, <1>3, <2>1 DEF Sound, Contents, PushLabels
<1>15. ReleasesItems'
  <2>1. \A u \in Threads : rpc[u] = "popMove" => rpc'[u] = "popMove" /\ Cell(u)' = Cell(u)
    BY <1>1, <1>3 DEF PushPublish, PopPublish
  <2> QED
    BY <1>1, <2>1 DEF Sound, ReleasesItems
<1> QED
  BY <1>4, <1>5, <1>6, <1>7, <1>12, <1>13, <1>14, <1>15 DEF Sound

-----------------------------------------------------------------------------
(* Refusals                                                                *)

\* Turns a counter has passed do not come back: a stale pos sees a larger seq,
\* never the smaller one that means "empty" or "full".
Passed ==
    /\ \A p \in Nat : p < head => p < seq[Slot(p)]
    /\ \A p \in Nat : p < tail => p <= seq[Slot(p)]

\* Behind a turn that is not there yet is a thread at work: on the position
\* that is being filled, or on the one that is being emptied a lap earlier.
Owed ==
    /\ \A p \in Nat : head <= p /\ p < tail /\ seq[Slot(p)] = p =>
            \E u \in Threads : Filling(u) /\ pos[u] = p
    /\ \A p \in Nat : tail <= p /\ p < head + Cap /\ seq[Slot(p)] # p =>
            \E u \in Threads : Emptying(u) /\ pos[u] = p - Cap

\* The constructor's turns: nothing is passed and nothing is owed.
LEMMA InitOwed == RingInit => Passed /\ Owed
<1>1. ASSUME NEW p \in Nat, p < Cap PROVE Slot(p) = p
  BY <1>1, RingAssumption DEF Slot
<1> QED
  BY <1>1, RingAssumption DEF RingInit, Passed, Owed, Cells

\* Loads and failed compare-exchanges neither publish a turn nor take up or
\* give up a position.
LEMMA LocalOwed ==
    ASSUME Sound, Passed, Owed, NEW t \in Threads, LocalStep(t)
    PROVE  Passed' /\ Owed'
<1>1. UNCHANGED Shared
  BY DEF LocalStep, TryPush, PushLoad, PushSeq, PushFull, PushCasFails,
     TryPop, PopLoad, PopSeq, PopEmpty, PopCasFails, Shared
<1>2. ~Filling(t) /\ ~Emptying(t)
  BY DEF LocalStep, TryPush, PushLoad, PushSeq, PushFull, PushCasFails,
     TryPop, PopLoad, PopSeq, PopEmpty, PopCasFails, Goto, Filling, Emptying
<1>3. ASSUME NEW u \in Threads, u # t
      PROVE  rpc'[u] = rpc[u] /\ pos'[u] = pos[u]
  BY <1>3 DEF Sound, RingTypeOK, LocalStep, TryPush, PushLoad, PushSeq, PushFull, PushCasFails,
     TryPop, PopLoad, PopSeq, PopEmpty, PopCasFails, Goto, Return, RelaxedLoad
<1>4. ASSUME NEW u \in Threads, Filling(u) \/ Emptying(u)
      PROVE  /\ Filling(u)' <=> Filling(u)
             /\ Emptying(u)' <=> Emptying(u)
             /\ pos'[u] = pos[u]
  BY <1>2, <1>3, <1>4 DEF Filling, Emptying
<1>5. Passed'
  BY <1>1 DEF Passed, Shared
<1>6. Owed'
  BY <1>1, <1>4 DEF Owed, Shared
<1> QED
  BY <1>5, <1>6

\* A claim takes up the position whose turn is now owed.
LEMMA ClaimOwed ==
    ASSUME Sound, Passed, Owed, NEW t \in Threads, PushClaim(t) \/ PopClaim(t)
    PROVE  Passed' /\ Owed'
<1> USE RingAssumption
<1>1. /\ tail \in Nat /\ head \in Nat /\ Cap \in Nat \ {0}
      /\ UNCHANGED <<seq, pos>>
      /\ rpc[t] \in {"pushCas", "popCas"}
      /\ \A u \in Threads : u # t => rpc'[u] = rpc[u]
  BY DEF Sound, RingTypeOK, PushClaim, Claimed, PopClaim, Goto
<1>2. \A u \in Threads :
          /\ Filling(u) => Filling(u)' /\ pos'[u] = pos[u]
          /\ Emptying(u) => Emptying(u)' /\ pos'[u] = pos[u]
  BY <1>1 DEF Filling, Emptying
<1>3. CASE PushClaim(t)
  <2>1. /\ pos[t] = tail /\ tail' = tail + 1 /\ head' = head
        /\ Filling(t)' /\ seq[Slot(tail)] = tail
    BY <1>3 DEF Sound, RingTypeOK, Reads, PushClaim, Claimed, Goto, Filling
  <2>2. Passed'
    BY <1>1, <2>1 DEF Passed
  <2>3. Owed'
    BY <1>1, <1>2, <2>1 DEF Owed
  <2> QED
    BY <2>2, <2>3
<1>4. CASE PopClaim(t)
  <2>1. /\ pos[t] = head /\ head' = head + 1 /\ tail' = tail
        /\ Emptying(t)' /\ seq[Slot(head)] = head + 1
    BY <1>4 DEF Sound, RingTypeOK, Reads, PopClaim, Goto, Emptying
  <2>2. Passed'
    BY <1>1, <2>1 DEF Passed
  <2>3. Owed'
    BY <1>1, <1>2, <2>1 DEF Owed
  <2> QED
    BY <2>2, <2>3
<1> QED
  BY <1>3, <1>4

\* A publication moves the turn of one cell on, and is the turn that was owed.
LEMMA PublishOwed ==
    ASSUME Sound, Passed, Owed, NEW t \in Threads, PushPublish(t) \/ PopPublish(t)
    PROVE  Passed' /\ Owed'
<1> USE RingAssumption
<1>1. /\ tail \in Nat /\ head \in Nat /\ pos[t] \in Nat /\ Cap \in Nat \ {0}
      /\ Cell(t) \in Cells
      /\ UNCHANGED <<tail, head>>
      /\ \A i \in Cells : i # Cell(t) => seq'[i] = seq[i]
  BY SlotInRange DEF Sound, RingTypeOK, PushPublish, PopPublish, Cell
<1>2. \A u \in Threads : u # t =>
          /\ Filling(u)' <=> Filling(u)
          /\ Emptying(u)' <=> Emptying(u)
          /\ pos'[u] = pos[u]
  BY DEF Sound, RingTypeOK, PushPublish, PopPublish, Return, Filling, Emptying
<1>3. \/ Filling(t) /\ ~Emptying(t) /\ seq[Cell(t)] = pos[t] /\ seq'[Cell(t)] = pos[t] + 1
      \/ Emptying(t) /\ ~Filling(t) /\ seq[Cell(t)] = pos[t] + 1 /\ seq'[Cell(t)] = pos[t] + Cap
  BY <1>1 DEF Sound, RingTypeOK, Turns, PushPublish, PopPublish, Filling, Emptying
<1>4. \A i \in Cells : seq[i] \in Int /\ seq'[i] \in Int /\ seq[i] <= seq'[i]
  BY <1>1, <1>3 DEF Sound, RingTypeOK
<1>5. Passed'
  BY <1>1, <1>4, SlotInRange DEF Passed
<1>6. ASSUME NEW p \in Nat, head <= p, p < tail, seq'[Slot(p)] = p
      PROVE  \E u \in Threads : Filling(u)' /\ pos'[u] = p
  <2>1. p # pos[t]
    BY <1>1, <1>3, <1>6 DEF Sound, Positions, Cell
  <2>2. seq[Slot(p)] = p
    BY <1>1, <1>3, <1>6, <2>1, QueuedApart, SlotInRange
  <2>3. PICK u \in Threads : Filling(u) /\ pos[u] = p
    BY <1>6, <2>2 DEF Owed
  <2> QED
    BY <1>2, <2>1, <2>3
<1>7. ASSUME NEW p \in Nat, tail <= p, p < head + Cap, seq'[Slot(p)] # p
      PROVE  \E u \in Threads : Emptying(u)' /\ pos'[u] = p - Cap
  <2>1. ~(Emptying(t) /\ p = pos[t] + Cap)
    BY <1>1, <1>3, <1>7, SlotNextLap DEF Cell
  <2>2. seq[Slot(p)] # p
    BY <1>1, <1>3, <1>7, <2>1, FreeApart, SlotInRange
  <2>3. PICK u \in Threads : Emptying(u) /\ pos[u] = p - Cap
    BY <1>7, <2>2 DEF Owed
  <2>4. u # t
    BY <1>1, <2>1, <2>3
  <2> QED
    BY <1>2, <2>3, <2>4
<1> QED
  BY <1>1, <1>5, <1>6, <1>7 DEF Owed

\* Every step of a sound ring keeps the debts accounted for.
LEMMA NextOwed ==
    ASSUME Sound, Passed, Owed, [RingNext]_ringVars
    PROVE  Passed' /\ Owed'
<1>1. CASE UNCHANGED ringVars
  BY <1>1 DEF ringVars, Passed, Owed, Filling, Emptying
<1>2. ASSUME NEW t \in Threads, LocalStep(t) PROVE Passed' /\ Owed'
  BY <1>2, LocalOwed
<1>3. ASSUME NEW t \in Threads, PushClaim(t) \/ PopClaim(t) PROVE Passed' /\ Owed'
  BY <1>3, ClaimOwed
<1>4. ASSUME NEW t \in Threads, PushMove(t) \/ PopMove(t) PROVE Passed' /\ Owed'
  <2>1. UNCHANGED <<tail, head, seq, pos>>
    BY <1>4 DEF PushMove, PopMove
  <2>2. \A u \in Threads :
            (Filling(u) => Filling(u)') /\ (Emptying(u) => Emptying(u)')
    BY <1>4 DEF Sound, RingTypeOK, PushMove, PopMove, Goto, Filling, Emptying
  <2> QED
    BY <2>1, <2>2 DEF Passed, Owed
<1>5. ASSUME NEW t \in Threads, PushPublish(t) \/ PopPublish(t) PROVE Passed' /\ Owed'
  BY <1>5, PublishOwed
<1>6. RingNext => \E t \in Threads :
          \/ LocalStep(t) \/ PushClaim(t) \/ PopClaim(t)
          \/ PushMove(t) \/ PopMove(t) \/ PushPublish(t) \/ PopPublish(t)
  BY DEF RingNext, PushStep, PopStep, LocalStep, Threads
<1> QED
  BY <1>1, <1>2, <1>3, <1>4, <1>5, <1>6

\* try_pop() says "empty" only when the oldest item is not there.
LEMMA EmptyIsTrue ==
    ASSUME Sound, Passed, Owed, NEW t \in Threads, PopEmpty(t)
    PROVE  /\ pos[t] = head
           /\ head = tail \/ \E u \in Threads : Filling(u) /\ pos[u] = head
<1>1. /\ head \in Nat /\ tail \in Nat /\ pos[t] \in Nat
      /\ Slot(pos[t]) \in Cells /\ seq[Slot(pos[t])] \in Int
      /\ seq[Slot(pos[t])] < pos[t] + 1
  BY SlotInRange DEF Sound, RingTypeOK, PopEmpty, Cell
<1>2. pos[t] = head
  BY <1>1 DEF Sound, Positions, Passed, PopEmpty
<1>3. ASSUME head # tail PROVE \E u \in Threads : Filling(u) /\ pos[u] = head
  <2>1. seq[Slot(head)] = head
    BY <1>1, <1>2, <1>3 DEF Sound, Bounded, Turns
  <2> QED
    BY <1>1, <1>3, <2>1 DEF Sound, Bounded, Owed
<1> QED
  BY <1>2, <1>3

\* try_push() says "full" only when no cell is free.
LEMMA FullIsTrue ==
    ASSUME Sound, Passed, Owed, NEW t \in Threads, PushFull(t)
    PROVE  /\ pos[t] = tail
           /\ tail = head + Cap \/ \E u \in Threads : Emptying(u) /\ pos[u] = tail - Cap
<1>1. /\ head \in Nat /\ tail \in Nat /\ pos[t] \in Nat /\ Cap \in Nat \ {0}
      /\ Slot(pos[t]) \in Cells /\ seq[Slot(pos[t])] \in Int
      /\ seq[Slot(pos[t])] < pos[t]
  BY RingAssumption, SlotInRange DEF Sound, RingTypeOK, PushFull, Cell
<1>2. pos[t] = tail
  BY <1>1 DEF Sound, Positions, Passed, PushFull
<1>3. ASSUME tail # head + Cap PROVE \E u \in Threads : Emptying(u) /\ pos[u] = tail - Cap
  BY <1>1, <1>2, <1>3 DEF Sound, Bounded, Owed
<1> QED
  BY <1>2, <1>3

-----------------------------------------------------------------------------
(* The theorems                                                            *)

\* Every step keeps the ring sound.
LEMMA NextSound ==
    ASSUME Cap > 1, Sound, [RingNext]_ringVars
    PROVE  Sound'
<1>1. CASE UNCHANGED ringVars
  BY <1>1 DEF ringVars, Sound, RingTypeOK, Bounded, Positions, Claims, Turns, Reads, Contents,
     ReleasesItems, Filling, Emptying, Cell
<1>2. ASSUME NEW t \in Threads, LocalStep(t) PROVE Sound'
  BY <1>2, LocalSound
<1>3. ASSUME NEW t \in Threads, PushClaim(t) PROVE Sound'
  BY <1>3, PushClaimSound
<1>4. ASSUME NEW t \in Threads, PopClaim(t) PROVE Sound'
  BY <1>4, PopClaimSound
<1>5. ASSUME NEW t \in Threads, PushMove(t) \/ PopMove(t) PROVE Sound'
  BY <1>5, MoveSound
<1>6. ASSUME NEW t \in Threads, PushPublish(t) \/ PopPublish(t) PROVE Sound'
  BY <1>6, PublishSound
<1>7. RingNext => \E t \in Threads :
          \/ LocalStep(t) \/ PushClaim(t) \/ PopClaim(t)
          \/ PushMove(t) \/ PopMove(t) \/ PushPublish(t) \/ PopPublish(t)
  BY DEF RingNext, PushStep, PopStep, LocalStep, Threads
<1> QED
  BY <1>1, <1>2, <1>3, <1>4, <1>5, <1>6, <1>7

\* The invariant holds throughout.
LEMMA AlwaysSound ==
    ASSUME Cap > 1
    PROVE  RingSpec => []Sound
<1>1. Sound /\ [RingNext]_ringVars => Sound'
  BY NextSound
<1> QED
  BY <1>1, InitSound, PTL DEF RingSpec

\* The variables of a ring of at least two cells keep their types.
THEOREM RingTypeCorrect ==
    ASSUME Cap > 1
    PROVE  RingSpec => []RingTypeOK
<1>1. Sound => RingTypeOK
  BY DEF Sound
<1> QED
  BY <1>1, AlwaysSound, PTL

\* No two threads ever work on one cell of a ring of at least two cells.
THEOREM RingOwnsCellAlone ==
    ASSUME Cap > 1
    PROVE  RingSpec => []OwnsCellAlone
<1>1. Sound => OwnsCellAlone
  BY CellsApart DEF OwnsCellAlone
<1> QED
  BY <1>1, AlwaysSound, PTL

\* A ring of at least two cells never holds more items than it has cells.
THEOREM RingBounded ==
    ASSUME Cap > 1
    PROVE  RingSpec => []Bounded
<1>1. Sound => Bounded
  BY DEF Sound
<1> QED
  BY <1>1, AlwaysSound, PTL

\* A ring of at least two cells hands out every item once and in order.
THEOREM RingDeliversInOrder ==
    ASSUME Cap > 1
    PROVE  RingSpec => []DeliversInOrder
<1>1. Sound => DeliversInOrder
  BY DEF Sound, Contents, DeliversInOrder
<1> QED
  BY <1>1, AlwaysSound, PTL

\* No cell of a ring of at least two cells holds on to a popped item.
THEOREM RingReleasesItems ==
    ASSUME Cap > 1
    PROVE  RingSpec => []ReleasesItems
<1>1. Sound => ReleasesItems
  BY DEF Sound
<1> QED
  BY <1>1, AlwaysSound, PTL

\* try_pop() and try_push() on a ring of at least two cells never refuse without
\* a reason: "empty" is said at a moment when the item at head_ is not there,
\* "full" when every cell is taken.
THEOREM RingRefusesTruthfully ==
    ASSUME Cap > 1
    PROVE  RingSpec => RefusesTruthfully
<1> DEFINE Reason ==
        \A t \in Threads :
          /\ PopEmpty(t) =>
                /\ pos[t] = head
                /\ head = tail \/ \E u \in Threads : Filling(u) /\ pos[u] = head
          /\ PushFull(t) =>
                /\ pos[t] = tail
                /\ tail = head + Cap \/ \E u \in Threads : Emptying(u) /\ pos[u] = tail - Cap
<1>1. Sound /\ Passed /\ Owed => Reason
  BY EmptyIsTrue, FullIsTrue
<1>2. Sound /\ Passed /\ Owed /\ [RingNext]_ringVars => (Passed /\ Owed)'
  BY NextOwed
<1>3. RingSpec => [][Reason]_ringVars
  <2> HIDE DEF Reason
  <2> QED
    BY <1>1, <1>2, AlwaysSound, InitOwed, PTL DEF RingSpec
<1> QED
  BY <1>3 DEF RefusesTruthfully
=============================================================================
