------------------------------ MODULE PoolProofs ------------------------------
(***************************************************************************)
(* The thread pool owns every callable once, drains before shutdown()      *)
(* returns and is the job queue it promises to be, and the benchmarks'     *)
(* slots have one owner each: for any number of submitters, workers, cells *)
(* and jobs.                                                               *)
(***************************************************************************)
EXTENDS Benchmark, FoldTheorems, SequenceTheorems

-----------------------------------------------------------------------------
(* The inductive invariant                                                 *)

Some == Jobs \cup {NoJob}
Mine == JobsOf(program.todo)

Holding == {"call", "count", "drop"}

PoolTypeOK ==
    /\ program \in Programs
    /\ todo \in [Submitters -> Seq(Jobs)]
    /\ head \in Nat /\ tail \in Nat
    /\ closed \in BOOLEAN /\ shuttingDown \in BOOLEAN
    /\ completed \in Nat
    /\ spc \in [Submitters -> {"idle", "push", "full", "return"}]
    /\ wpc \in [Workers -> {"pop", "call", "count", "drop", "gone"}]
    /\ accepted \subseteq Mine /\ IsFiniteSet(accepted)
    /\ calls \in [Jobs -> Nat]

\* The InlineJob objects: ops_ and the callable always agree.
MemOK(m) ==
    /\ m \in [ops : [Places -> Some], buf : [Places -> Some], destroyed : [Some -> Nat]]
    /\ m.ops = m.buf

\* The jobs of a list are all different.
Distinct(list) ==
    \A s, t \in Submitters : \A i \in DOMAIN list[s], k \in DOMAIN list[t] :
        list[s][i] = list[t][k] => s = t /\ i = k

\* What is still to be submitted is new to the pool.
Unsubmitted ==
    /\ Distinct(todo)
    /\ JobsOf(todo) \subseteq Mine
    /\ \A j \in JobsOf(todo) : j \notin accepted /\ calls[j] = 0 /\ mem.destroyed[j] = 0

\* The cells of the ring: the waiting jobs, and nothing else.
Cells ==
    /\ head <= tail /\ tail <= head + Capacity
    /\ \A i \in Nat : head <= i /\ i < tail => mem.buf[Cell(i)] # NoJob
    /\ \A i \in Nat : tail <= i /\ i < head + Capacity => mem.buf[Cell(i)] = NoJob
    /\ \A i \in Nat : LET j == mem.buf[Cell(i)] IN j # NoJob => j \in accepted /\ calls[j] = 0

\* A push has its job in its parameter until the ring has it.
Params ==
    \A s \in Submitters :
        LET j == mem.buf[Param(s)]
        IN  /\ spc[s] = "idle" => j = NoJob
            /\ spc[s] \in {"push", "full"} => j # NoJob
            /\ j # NoJob => j \notin accepted /\ calls[j] = 0

\* A worker has its job from pop() to the end of the loop's body.
Locals ==
    \A w \in Workers :
        LET j == mem.buf[Job(w)]
        IN  /\ mem.buf[Item(w)] = NoJob
            /\ j # NoJob <=> wpc[w] \in Holding
            /\ j # NoJob => j \in accepted /\ calls[j] = (IF wpc[w] = "call" THEN 0 ELSE 1)

\* No callable is in two places, and none that is somewhere was destroyed.
Single ==
    /\ \A p, q \in Places : mem.buf[p] = mem.buf[q] /\ mem.buf[p] # NoJob => p = q
    /\ \A p \in Places : mem.buf[p] # NoJob =>
           mem.destroyed[mem.buf[p]] = 0 /\ mem.buf[p] \in Mine \ JobsOf(todo)

\* A callable that is nowhere was destroyed, once, after it was called if it was
\* accepted, and uncalled if it was not.
Settled ==
    /\ mem.destroyed[NoJob] = 0
    /\ \A j \in Jobs : j \notin Mine => calls[j] = 0
    /\ \A j \in Mine \ JobsOf(todo) :
           \/ \E p \in Places : mem.buf[p] = j
           \/ mem.destroyed[j] = 1 /\ calls[j] = (IF j \in accepted THEN 1 ELSE 0)

\* completed_, the waiting jobs and the ones not yet counted are the accepted ones.
Uncounted == {w \in Workers : wpc[w] \in {"call", "count"}}
Counted   == completed + (tail - head) + Cardinality(Uncounted) = Cardinality(accepted)

\* A worker is gone only when there is nothing left and nothing can come.
Ending ==
    /\ \A w \in Workers : wpc[w] = "gone" => NothingLeft
    /\ opc = "submit" => ~shuttingDown
    /\ opc \in {"joined", "destroy", "end"} => AllJoined

Kept == /\ PoolTypeOK /\ MemOK(mem) /\ Unsubmitted /\ Cells /\ Params /\ Locals
        /\ Single /\ Settled /\ Counted /\ Ending

\* A slot belongs to one worker, and the counter has passed it.
Claimed(k) == {w \in Workers : mySlot[w][k] # -1}

SlotsOK ==
    /\ mySlot \in [Workers -> [Kinds -> Int]]
    /\ nextSlot \in [Kinds -> Nat]
    /\ \A k \in Kinds :
           /\ nextSlot[k] = Cardinality(Claimed(k))
           /\ \A w \in Claimed(k) : mySlot[w][k] \in Nat /\ mySlot[w][k] < nextSlot[k]
           /\ \A v, w \in Claimed(k) : mySlot[v][k] = mySlot[w][k] => v = w

-----------------------------------------------------------------------------
(* Places                                                                  *)

\* Quotient and remainder are unique.
LEMMA RemainderUnique ==
    \A c \in Nat \ {0}, p, a, r \in Int :
        p = c * a + r /\ 0 <= r /\ r < c => r = p % c
  OBVIOUS

\* Two positions of one window of the ring have two cells.
LEMMA CellsDiffer ==
    ASSUME NEW p \in Nat, NEW q \in Nat, p % Capacity = q % Capacity, p <= q, q < p + Capacity
    PROVE  p = q
<1> DEFINE a == p \div Capacity
           b == q \div Capacity
           r == p % Capacity
           k == b - a
<1>1. /\ Capacity \in Nat \ {0}
      /\ a \in Int /\ b \in Int /\ r \in Int
      /\ p = Capacity * a + r
      /\ q = Capacity * b + r
  BY PoolAssumption
<1> HIDE DEF a, b, r
<1>2. Capacity * k = Capacity * b - Capacity * a
  BY <1>1
<1>3. k \in Int /\ q - p = Capacity * k
  BY <1>1, <1>2
<1> HIDE DEF k
<1>4. k < 0 => Capacity * k < 0
  BY <1>1, <1>3
<1>5. k >= 1 => Capacity * k >= Capacity
  BY <1>1, <1>3
<1>6. k = 0
  BY <1>1, <1>3, <1>4, <1>5
<1>7. Capacity * k = 0
  BY <1>1, <1>6
<1> QED
  BY <1>3, <1>7

\* Every cell has a position in the window that starts at p.
LEMMA CellInWindow ==
    ASSUME NEW p \in Nat, NEW c \in 0 .. Capacity - 1
    PROVE  \E q \in Nat : p <= q /\ q < p + Capacity /\ q % Capacity = c
<1> DEFINE a == p \div Capacity
           r == p % Capacity
<1>1. /\ Capacity \in Nat \ {0}
      /\ a \in Nat /\ r \in 0 .. Capacity - 1
      /\ p = Capacity * a + r
  BY PoolAssumption
<1> HIDE DEF a, r
<1>2. Capacity * (a + 1) = Capacity * a + Capacity /\ Capacity * a \in Nat
  BY <1>1
<1>3. CASE r <= c
  <2> DEFINE q == Capacity * a + c
  <2>1. q \in Nat /\ p <= q /\ q < p + Capacity
    BY <1>1, <1>2, <1>3
  <2>2. c = q % Capacity
    BY <1>1, <2>1, RemainderUnique
  <2> QED
    BY <2>1, <2>2
<1>4. CASE c < r
  <2> DEFINE q == Capacity * (a + 1) + c
  <2>1. q \in Nat /\ p <= q /\ q < p + Capacity
    BY <1>1, <1>2, <1>4
  <2>2. c = q % Capacity
    BY <1>1, <2>1, RemainderUnique
  <2> QED
    BY <2>1, <2>2
<1> QED
  BY <1>1, <1>3, <1>4

\* Two cells are one only if their positions agree.
LEMMA CellsApart ==
    ASSUME NEW p \in Nat, NEW q \in Nat, NEW b \in Nat,
           b <= p, p < b + Capacity, b <= q, q < b + Capacity, Cell(p) = Cell(q)
    PROVE  p = q
<1>1. p % Capacity = q % Capacity
  BY DEF Cell
<1>2. Capacity \in Nat
  BY PoolAssumption
<1>3. CASE p <= q
  BY <1>1, <1>2, <1>3, CellsDiffer
<1>4. CASE q <= p
  BY <1>1, <1>2, <1>4, CellsDiffer
<1> QED
  BY <1>3, <1>4

\* A position of the ring has a cell.
LEMMA CellPlace == ASSUME NEW p \in Nat PROVE Cell(p) \in Places
<1>1. p % Capacity \in 0 .. Capacity - 1
  BY PoolAssumption
<1>2. (p % Capacity) % Capacity = p % Capacity
  BY PoolAssumption, <1>1
<1> QED
  BY <1>1, <1>2 DEF Cell, Places

\* So have the parameters and the workers' locals their objects.
LEMMA OtherPlaces ==
    /\ \A s \in Submitters : Param(s) \in Places
    /\ \A w \in Workers : Item(w) \in Places /\ Job(w) \in Places
  BY DEF Places

\* The objects are all different.
LEMMA PlacesApart ==
    /\ \A s, t : Param(s) = Param(t) => s = t
    /\ \A v, w : Item(v) = Item(w) => v = w
    /\ \A v, w : Job(v) = Job(w) => v = w
    /\ \A x, y : /\ Param(x) # Cell(y) /\ Param(x) # Item(y) /\ Param(x) # Job(y)
                 /\ Cell(x) # Item(y) /\ Cell(x) # Job(y) /\ Item(x) # Job(y)
  BY DEF Param, Cell, Item, Job

\* A place is a parameter, a cell of the window, or a local of a worker.
LEMMA PlaceCases ==
    ASSUME NEW b \in Nat, NEW p \in Places
    PROVE  \/ \E s \in Submitters : p = Param(s)
           \/ \E i \in Nat : b <= i /\ i < b + Capacity /\ p = Cell(i)
           \/ \E w \in Workers : p = Item(w) \/ p = Job(w)
<1>1. ASSUME NEW c \in 0 .. Capacity - 1, p = Cell(c)
      PROVE  \E i \in Nat : b <= i /\ i < b + Capacity /\ p = Cell(i)
  <2>1. c % Capacity = c
    BY PoolAssumption
  <2>2. PICK i \in Nat : b <= i /\ i < b + Capacity /\ i % Capacity = c
    BY CellInWindow
  <2> QED
    BY <1>1, <2>1, <2>2 DEF Cell
<1> QED
  BY <1>1 DEF Places

-----------------------------------------------------------------------------
(* The operations on InlineJob objects                                     *)

\* What the objects hold after p has been set.
Put(m, p, j) == [m.buf EXCEPT ![p] = j]

\* Constructing puts the callable there and destroys nothing.
LEMMA ConstructDoes ==
    ASSUME NEW m, MemOK(m), NEW p \in Places, NEW j \in Jobs
    PROVE  /\ MemOK(Construct(m, p, j))
           /\ Construct(m, p, j).buf = Put(m, p, j)
           /\ Construct(m, p, j).destroyed = m.destroyed
  BY DEF MemOK, Construct, Put, Some

\* Destroying an object destroys what it holds, once.
LEMMA ResetDoes ==
    ASSUME NEW m, MemOK(m), NEW p \in Places
    PROVE  /\ MemOK(Reset(m, p))
           /\ Reset(m, p).buf = Put(m, p, NoJob)
           /\ Reset(m, p).destroyed = IF m.buf[p] = NoJob THEN m.destroyed
                                      ELSE [m.destroyed EXCEPT ![m.buf[p]] = @ + 1]
<1> USE DEF MemOK, Some
<1>1. CASE m.buf[p] = NoJob
  <2>1. Reset(m, p) = m
    BY <1>1 DEF Reset
  <2>2. Put(m, p, NoJob) = m.buf
    BY <1>1 DEF Put
  <2> QED
    BY <1>1, <2>1, <2>2
<1>2. CASE m.buf[p] # NoJob
  <2> DEFINE n == [m EXCEPT !.destroyed[m.buf[p]] = @ + 1, !.buf[p] = NoJob, !.ops[p] = NoJob]
  <2>1. Reset(m, p) = n
    BY <1>2 DEF Reset
  <2>2. n.buf = Put(m, p, NoJob) /\ n.ops = n.buf /\ n.buf \in [Places -> Some]
    BY DEF Put
  <2>3. n.destroyed = [m.destroyed EXCEPT ![m.buf[p]] = @ + 1]
    OBVIOUS
  <2>4. n.destroyed \in [Some -> Nat]
    BY <2>3
  <2>5. n \in [ops : [Places -> Some], buf : [Places -> Some], destroyed : [Some -> Nat]]
    BY <2>2, <2>4
  <2> QED
    BY <1>2, <2>1, <2>2, <2>3, <2>5
<1> QED
  BY <1>1, <1>2

\* Moving into an object that holds nothing destroys nothing.
LEMMA MoveFromDoes ==
    ASSUME NEW m, MemOK(m), NEW p \in Places, NEW q \in Places, p # q, m.buf[p] = NoJob
    PROVE  /\ MemOK(MoveFrom(m, p, q))
           /\ MoveFrom(m, p, q).buf = [Put(m, p, m.buf[q]) EXCEPT ![q] = NoJob]
           /\ MoveFrom(m, p, q).destroyed = m.destroyed
  BY DEF MemOK, MoveFrom, Put, Some

\* The assignment into an object that holds nothing is the move alone.
LEMMA MoveAssignDoes ==
    ASSUME NEW m, MemOK(m), NEW p \in Places, NEW q \in Places, p # q, m.buf[p] = NoJob
    PROVE  /\ MemOK(MoveAssign(m, p, q))
           /\ MoveAssign(m, p, q).buf = [Put(m, p, m.buf[q]) EXCEPT ![q] = NoJob]
           /\ MoveAssign(m, p, q).destroyed = m.destroyed
<1>1. Reset(m, p) = m
  BY DEF MemOK, Reset
<1>2. MoveAssign(m, p, q) = MoveFrom(m, p, q)
  BY <1>1 DEF MoveAssign
<1>3. /\ MemOK(MoveFrom(m, p, q))
      /\ MoveFrom(m, p, q).buf = [Put(m, p, m.buf[q]) EXCEPT ![q] = NoJob]
      /\ MoveFrom(m, p, q).destroyed = m.destroyed
  BY MoveFromDoes
<1> QED
  BY <1>2, <1>3

-----------------------------------------------------------------------------
(* What is still to be submitted                                           *)

\* The jobs of a list are its elements.
LEMMA JobsOfMember ==
    ASSUME NEW list, NEW j
    PROVE  j \in JobsOf(list) <=> \E s \in Submitters : \E i \in DOMAIN list[s] : list[s][i] = j
  BY DEF JobsOf

\* The jobs of the chosen program are jobs.
LEMMA MineJobs == ASSUME program \in Programs PROVE Mine \subseteq Jobs
  BY DEF Mine, Jobs

\* Submitting takes the job off the list, and nothing else.
LEMMA ListShrinks ==
    ASSUME NEW list \in [Submitters -> Seq(Jobs)], Distinct(list),
           NEW s \in Submitters, list[s] # << >>
    PROVE  LET rest == [list EXCEPT ![s] = Tail(@)]
           IN  /\ rest \in [Submitters -> Seq(Jobs)]
               /\ Distinct(rest)
               /\ Head(list[s]) \in JobsOf(list)
               /\ JobsOf(rest) = JobsOf(list) \ {Head(list[s])}
<1> DEFINE rest == [list EXCEPT ![s] = Tail(@)]
           n == Len(list[s])
<1>1. /\ list[s] \in Seq(Jobs) /\ n \in Nat \ {0} /\ DOMAIN list[s] = 1 .. n
      /\ Head(list[s]) = list[s][1]
      /\ rest[s] \in Seq(Jobs) /\ DOMAIN rest[s] = 1 .. n - 1
      /\ \A i \in 1 .. n - 1 : rest[s][i] = list[s][i + 1]
  OBVIOUS
<1>2. /\ rest \in [Submitters -> Seq(Jobs)]
      /\ \A t \in Submitters : t # s => rest[t] = list[t]
  BY <1>1
<1> HIDE DEF rest, n
\* Every job of the rest is a job of the list, one place further on.
<1>3. ASSUME NEW t \in Submitters, NEW i \in DOMAIN rest[t]
      PROVE  LET k == IF t = s THEN i + 1 ELSE i
             IN  k \in DOMAIN list[t] /\ rest[t][i] = list[t][k] /\ ~(t = s /\ k = 1)
  BY <1>1, <1>2
<1>4. Distinct(rest)
  <2> SUFFICES ASSUME NEW t \in Submitters, NEW u \in Submitters,
                      NEW i \in DOMAIN rest[t], NEW k \in DOMAIN rest[u],
                      rest[t][i] = rest[u][k]
               PROVE  t = u /\ i = k
    BY DEF Distinct
  <2> DEFINE I == IF t = s THEN i + 1 ELSE i
             K == IF u = s THEN k + 1 ELSE k
  <2>1. I \in DOMAIN list[t] /\ K \in DOMAIN list[u] /\ list[t][I] = list[u][K]
    BY <1>3
  <2>2. t = u /\ I = K
    BY <2>1 DEF Distinct
  <2>3. CASE t = s
    BY <1>1, <2>2, <2>3
  <2>4. CASE t # s
    BY <2>2, <2>4
  <2> QED
    BY <2>3, <2>4
<1>5. Head(list[s]) \in JobsOf(list)
  BY <1>1, JobsOfMember
<1>6. ASSUME NEW j \in JobsOf(rest) PROVE j \in JobsOf(list) /\ j # Head(list[s])
  <2>1. PICK t \in Submitters : \E i \in DOMAIN rest[t] : rest[t][i] = j
    BY JobsOfMember
  <2>2. PICK i \in DOMAIN rest[t] : rest[t][i] = j
    BY <2>1
  <2> DEFINE I == IF t = s THEN i + 1 ELSE i
  <2>3. I \in DOMAIN list[t] /\ list[t][I] = j /\ ~(t = s /\ I = 1)
    BY <1>3, <2>2
  <2> HIDE DEF I
  <2>4. j \in JobsOf(list)
    BY <2>3, JobsOfMember
  <2>5. 1 \in DOMAIN list[s]
    BY <1>1
  <2> QED
    BY <1>1, <2>3, <2>4, <2>5 DEF Distinct
<1>7. ASSUME NEW j \in JobsOf(list), j # Head(list[s]) PROVE j \in JobsOf(rest)
  <2>1. PICK t \in Submitters : \E i \in DOMAIN list[t] : list[t][i] = j
    BY JobsOfMember
  <2>2. PICK i \in DOMAIN list[t] : list[t][i] = j
    BY <2>1
  <2>3. CASE t = s
    <3>1. i - 1 \in 1 .. n - 1 /\ (i - 1) + 1 = i
      BY <1>1, <1>7, <2>2, <2>3
    <3>2. i - 1 \in DOMAIN rest[s] /\ rest[s][i - 1] = j
      BY <1>1, <2>2, <2>3, <3>1
    <3> QED
      BY <3>2, JobsOfMember
  <2>4. CASE t # s
    BY <1>2, <2>2, <2>4, JobsOfMember
  <2> QED
    BY <2>3, <2>4
<1> QED
  BY <1>2, <1>4, <1>5, <1>6, <1>7 DEF rest

-----------------------------------------------------------------------------
(* What the steps do to the objects                                        *)

\* The callable in q is moved to p.
Moved(p, q) ==
    /\ p \in Places /\ q \in Places /\ p # q
    /\ mem.buf[p] = NoJob
    /\ mem'.buf = [mem.buf EXCEPT ![p] = mem.buf[q], ![q] = NoJob]
    /\ mem'.destroyed = mem.destroyed

\* What p holds is destroyed.
Emptied(p) ==
    /\ p \in Places
    /\ mem'.buf = [mem.buf EXCEPT ![p] = NoJob]
    /\ mem'.destroyed = IF mem.buf[p] = NoJob THEN mem.destroyed
                        ELSE [mem.destroyed EXCEPT ![mem.buf[p]] = @ + 1]

\* j is constructed in p.
Constructed(p, j) ==
    /\ p \in Places /\ mem.buf[p] = NoJob
    /\ mem'.buf = [mem.buf EXCEPT ![p] = j]
    /\ mem'.destroyed = mem.destroyed

\* submit() constructs its next job, a new one, in push()'s parameter.
LEMMA SubmitDoes ==
    ASSUME Kept, NEW s \in Submitters, Submit(s)
    PROVE  /\ MemOK(mem)' /\ Constructed(Param(s), Head(todo[s]))
           /\ Head(todo[s]) \in JobsOf(todo)
           /\ todo' \in [Submitters -> Seq(Jobs)] /\ Distinct(todo)'
           /\ JobsOf(todo)' = JobsOf(todo) \ {Head(todo[s])}
<1> DEFINE j == Head(todo[s])
           rest == [todo EXCEPT ![s] = Tail(@)]
<1>1. /\ todo \in [Submitters -> Seq(Jobs)] /\ Distinct(todo) /\ todo[s] # << >>
      /\ todo' = rest /\ mem' = Construct(mem, Param(s), j)
      /\ MemOK(mem) /\ mem.buf[Param(s)] = NoJob
  BY DEF Kept, PoolTypeOK, Unsubmitted, Params, Submit
<1>2. /\ rest \in [Submitters -> Seq(Jobs)] /\ Distinct(rest)
      /\ j \in JobsOf(todo) /\ JobsOf(rest) = JobsOf(todo) \ {j}
  BY <1>1, ListShrinks
<1>3. j \in Jobs /\ Param(s) \in Places
  BY <1>1, OtherPlaces
<1> HIDE DEF j, rest
<1>4. /\ MemOK(Construct(mem, Param(s), j))
      /\ Construct(mem, Param(s), j).buf = Put(mem, Param(s), j)
      /\ Construct(mem, Param(s), j).destroyed = mem.destroyed
  BY <1>1, <1>3, ConstructDoes
<1>5. MemOK(mem') /\ Constructed(Param(s), j)
  BY <1>1, <1>3, <1>4 DEF Constructed, Put
<1>6. Distinct(todo') /\ JobsOf(todo') = JobsOf(todo) \ {j} /\ todo' \in [Submitters -> Seq(Jobs)]
  BY <1>1, <1>2
<1> QED
  BY <1>2, <1>5, <1>6 DEF j

\* try_push() moves it into the cell at tail, which holds nothing.
LEMMA PushDoes ==
    ASSUME Kept, NEW s \in Submitters, Push(s)
    PROVE  MemOK(mem)' /\ Moved(Cell(tail), Param(s))
<1>1. /\ tail \in Nat /\ head \in Nat /\ tail < head + Capacity
      /\ MemOK(mem) /\ mem' = MoveAssign(mem, Cell(tail), Param(s))
      /\ Capacity \in Nat
  BY PoolAssumption DEF Kept, PoolTypeOK, Push, Room
<1>2. mem.buf[Cell(tail)] = NoJob
  BY <1>1 DEF Kept, Cells
<1>3. Cell(tail) \in Places /\ Param(s) \in Places /\ Cell(tail) # Param(s)
  BY <1>1, CellPlace, OtherPlaces, PlacesApart
<1> DEFINE m == MoveAssign(mem, Cell(tail), Param(s))
<1>4. /\ MemOK(m)
      /\ m.buf = [Put(mem, Cell(tail), mem.buf[Param(s)]) EXCEPT ![Param(s)] = NoJob]
      /\ m.destroyed = mem.destroyed
  BY <1>1, <1>2, <1>3, MoveAssignDoes
<1> QED
  BY <1>1, <1>2, <1>3, <1>4 DEF Moved, Put

\* The end of push() destroys what its parameter still holds.
LEMMA ReturnDoes ==
    ASSUME Kept, NEW s \in Submitters, Return(s)
    PROVE  MemOK(mem)' /\ Emptied(Param(s))
<1>1. MemOK(mem) /\ mem' = Reset(mem, Param(s)) /\ Param(s) \in Places
  BY OtherPlaces DEF Kept, Return
<1> QED
  BY <1>1, ResetDoes DEF Emptied, Put

\* The end of the loop's body destroys the job.
LEMMA DropDoes ==
    ASSUME Kept, NEW w \in Workers, Drop(w)
    PROVE  MemOK(mem)' /\ Emptied(Job(w))
<1>1. MemOK(mem) /\ mem' = Reset(mem, Job(w)) /\ Job(w) \in Places
  BY OtherPlaces DEF Kept, Drop
<1> QED
  BY <1>1, ResetDoes DEF Emptied, Put

\* pop() moves twice and destroys twice, but what it destroys holds nothing.
LEMMA PopDoes ==
    ASSUME Kept, NEW w \in Workers, Pop(w)
    PROVE  MemOK(mem)' /\ Moved(Job(w), Cell(head))
<1> DEFINE c == Cell(head)
           i == Item(w)
           j == Job(w)
           m1 == MoveAssign(mem, i, c)
           m2 == Reset(m1, c)
           m3 == MoveFrom(m2, j, i)
           m4 == Reset(m3, i)
<1>1. MemOK(mem) /\ mem' = m4 /\ mem.buf[i] = NoJob /\ mem.buf[j] = NoJob
  BY DEF Kept, Pop, Locals, Holding
<1>2. /\ c \in Places /\ i \in Places /\ j \in Places
      /\ c # i /\ i # j /\ c # j
  BY CellPlace, OtherPlaces, PlacesApart DEF Kept, PoolTypeOK
<1> HIDE DEF c, i, j
<1>3. /\ MemOK(m1) /\ m1.destroyed = mem.destroyed
      /\ m1.buf = [mem.buf EXCEPT ![i] = mem.buf[c], ![c] = NoJob]
  BY <1>1, <1>2, MoveAssignDoes DEF Put
<1>4. m1.buf[c] = NoJob /\ m1.buf[j] = NoJob /\ m1.buf[i] = mem.buf[c]
  BY <1>1, <1>2, <1>3 DEF MemOK
<1> HIDE DEF m1
<1>5. MemOK(m2) /\ m2.destroyed = m1.destroyed /\ m2.buf = m1.buf
  BY <1>2, <1>3, <1>4 DEF MemOK, Reset
<1>6. m2.buf[j] = NoJob
  BY <1>4, <1>5
<1> HIDE DEF m2
<1>7. /\ MemOK(m3) /\ m3.destroyed = m2.destroyed
      /\ m3.buf = [m2.buf EXCEPT ![j] = m2.buf[i], ![i] = NoJob]
  <2>1. /\ MemOK(MoveFrom(m2, j, i))
        /\ MoveFrom(m2, j, i).buf = [Put(m2, j, m2.buf[i]) EXCEPT ![i] = NoJob]
        /\ MoveFrom(m2, j, i).destroyed = m2.destroyed
    BY <1>2, <1>5, <1>6, MoveFromDoes
  <2> QED
    BY <2>1 DEF Put
<1> HIDE DEF m3
<1>8. m3.buf[i] = NoJob
  BY <1>2, <1>5, <1>7 DEF MemOK
<1>9. MemOK(m4) /\ m4.destroyed = m3.destroyed /\ m4.buf = m3.buf
  BY <1>2, <1>7, <1>8 DEF MemOK, Reset
<1> HIDE DEF m4
<1>10. m3.buf = [mem.buf EXCEPT ![j] = mem.buf[c], ![c] = NoJob]
  BY <1>1, <1>2, <1>3, <1>4, <1>5, <1>7 DEF MemOK
<1> QED
  BY <1>1, <1>2, <1>3, <1>5, <1>7, <1>9, <1>10 DEF Moved, c, j

-----------------------------------------------------------------------------
(* Ownership under the three effects                                       *)

\* A move leaves every callable in one object.
LEMMA MovedSingle ==
    ASSUME Kept, NEW p, NEW q, Moved(p, q), MemOK(mem)', UNCHANGED <<todo, program>>
    PROVE  Single'
<1>1. /\ mem.buf \in [Places -> Some] /\ mem'.buf \in [Places -> Some]
      /\ mem'.buf[p] = mem.buf[q] /\ mem'.buf[q] = NoJob
      /\ \A r \in Places : r # p /\ r # q => mem'.buf[r] = mem.buf[r]
      /\ p \in Places /\ q \in Places /\ mem.buf[p] = NoJob
      /\ mem'.destroyed = mem.destroyed
  BY DEF Kept, MemOK, Moved
<1>2. Mine' = Mine /\ JobsOf(todo)' = JobsOf(todo)
  BY DEF Mine
<1> QED
  BY <1>1, <1>2 DEF Kept, Single

\* So does a destructor.
LEMMA EmptiedSingle ==
    ASSUME Kept, NEW p, Emptied(p), MemOK(mem)', UNCHANGED <<todo, program>>
    PROVE  Single'
<1>1. /\ mem.buf \in [Places -> Some] /\ mem'.buf \in [Places -> Some]
      /\ mem'.buf[p] = NoJob
      /\ \A r \in Places : r # p => mem'.buf[r] = mem.buf[r]
      /\ p \in Places
      /\ \A j \in Some : j # mem.buf[p] => mem'.destroyed[j] = mem.destroyed[j]
  BY DEF Kept, MemOK, Emptied
<1>2. Mine' = Mine /\ JobsOf(todo)' = JobsOf(todo)
  BY DEF Mine
<1>3. \A r \in Places : r # p /\ mem.buf[r] # NoJob => mem.buf[r] # mem.buf[p]
  BY <1>1 DEF Kept, Single
<1> QED
  BY <1>1, <1>2, <1>3 DEF Kept, Single

\* So does a constructor, for a job that was not submitted before.
LEMMA ConstructedSingle ==
    ASSUME Kept, NEW p, NEW j \in JobsOf(todo), Constructed(p, j), MemOK(mem)',
           JobsOf(todo)' = JobsOf(todo) \ {j}, program' = program
    PROVE  Single'
<1>1. /\ mem.buf \in [Places -> Some] /\ mem'.buf \in [Places -> Some]
      /\ mem'.buf[p] = j
      /\ \A r \in Places : r # p => mem'.buf[r] = mem.buf[r]
      /\ p \in Places
      /\ mem'.destroyed = mem.destroyed
  BY DEF Kept, MemOK, Constructed
<1>2. Mine' = Mine /\ j \in Mine /\ mem.destroyed[j] = 0
  BY DEF Mine, Kept, Unsubmitted
<1>3. \A r \in Places : mem.buf[r] = j => mem.buf[r] = NoJob
  BY DEF Kept, Single
<1>4. j # NoJob
  BY <1>2, PoolAssumption, MineJobs DEF Kept, PoolTypeOK
<1> QED
  BY <1>1, <1>2, <1>3, <1>4 DEF Kept, Single

\* A callable that is in one object is in no other.
LEMMA Elsewhere ==
    ASSUME Kept, NEW p \in Places, NEW q \in Places, p # q, mem.buf[p] # NoJob
    PROVE  mem.buf[p] # mem.buf[q]
  BY DEF Kept, Single

\* The workers with a job to be counted are finitely many.
LEMMA UncountedIs ==
    ASSUME NEW f
    PROVE  LET U == {w \in Workers : f[w] \in {"call", "count"}}
           IN  IsFiniteSet(U) /\ Cardinality(U) \in Nat
  BY PoolAssumption, FS_Subset, FS_CardinalityType

\* A worker that has popped is one more to be counted ...
LEMMA OneMore ==
    ASSUME NEW w \in Workers, wpc[w] \notin {"call", "count"}, wpc'[w] \in {"call", "count"},
           \A v \in Workers : v # w => wpc'[v] = wpc[v]
    PROVE  Cardinality(Uncounted)' = Cardinality(Uncounted) + 1
<1>1. Uncounted' = Uncounted \cup {w} /\ w \notin Uncounted
  BY DEF Uncounted
<1>2. IsFiniteSet(Uncounted)
  BY UncountedIs DEF Uncounted
<1> QED
  BY <1>1, <1>2, FS_AddElement

\* ... and one that has counted is one less.
LEMMA OneLess ==
    ASSUME NEW w \in Workers, wpc[w] \in {"call", "count"}, wpc'[w] \notin {"call", "count"},
           \A v \in Workers : v # w => wpc'[v] = wpc[v]
    PROVE  Cardinality(Uncounted)' = Cardinality(Uncounted) - 1
<1>1. Uncounted' = Uncounted \ {w} /\ w \in Uncounted
  BY DEF Uncounted
<1>2. IsFiniteSet(Uncounted)
  BY UncountedIs DEF Uncounted
<1> QED
  BY <1>1, <1>2, FS_RemoveElement

\* Other moves of the workers do not matter.
LEMMA AsMany ==
    ASSUME \A w \in Workers : wpc'[w] \in {"call", "count"} <=> wpc[w] \in {"call", "count"}
    PROVE  Cardinality(Uncounted)' = Cardinality(Uncounted)
<1>1. Uncounted' = Uncounted
  BY DEF Uncounted
<1> QED
  BY <1>1

-----------------------------------------------------------------------------
(* The steps, one by one                                                   *)

\* A new job enters by a parameter.
LEMMA SubmitKept ==
    ASSUME Kept, NEW s \in Submitters, Submit(s)
    PROVE  Kept'
<1> DEFINE j == Head(todo[s])
<1>1. /\ MemOK(mem)' /\ Constructed(Param(s), j) /\ j \in JobsOf(todo)
      /\ todo' \in [Submitters -> Seq(Jobs)] /\ Distinct(todo)'
      /\ JobsOf(todo)' = JobsOf(todo) \ {j}
  BY SubmitDoes
<1>2. /\ spc[s] = "idle" /\ spc' = [spc EXCEPT ![s] = IF closed THEN "return" ELSE "push"]
      /\ UNCHANGED <<program, head, tail, closed, shuttingDown, opc, completed,
                     wpc, accepted, calls>>
  BY DEF Submit, queueVars, ownerVars
<1> HIDE DEF j
<1>3. Mine' = Mine
  BY <1>2 DEF Mine
<1>4. /\ j \in Mine /\ j \in Jobs /\ j # NoJob
      /\ j \notin accepted /\ calls[j] = 0 /\ mem.destroyed[j] = 0
  BY <1>1, PoolAssumption, MineJobs DEF Kept, PoolTypeOK, Unsubmitted
<1>5. /\ mem.buf \in [Places -> Some] /\ mem'.buf \in [Places -> Some]
      /\ mem'.buf[Param(s)] = j /\ mem.buf[Param(s)] = NoJob
      /\ \A r \in Places : r # Param(s) => mem'.buf[r] = mem.buf[r]
      /\ mem'.destroyed = mem.destroyed
  BY <1>1 DEF Kept, MemOK, Constructed
<1>6. PoolTypeOK'
  BY <1>1, <1>2, <1>3 DEF Kept, PoolTypeOK
<1>7. Unsubmitted'
  BY <1>1, <1>2, <1>3, <1>5 DEF Kept, Unsubmitted
<1>8. Cells'
  <2>1. \A i \in Nat : mem'.buf[Cell(i)] = mem.buf[Cell(i)]
    BY <1>5, CellPlace, PlacesApart
  <2> QED
    BY <1>2, <2>1 DEF Kept, Cells
<1>9. Params'
  <2>1. \A t \in Submitters : t # s => mem'.buf[Param(t)] = mem.buf[Param(t)] /\ spc'[t] = spc[t]
    BY <1>2, <1>5, OtherPlaces, PlacesApart DEF Kept, PoolTypeOK
  <2>2. spc'[s] \in {"return", "push"}
    BY <1>2 DEF Kept, PoolTypeOK
  <2> QED
    BY <1>2, <1>4, <1>5, <2>1, <2>2 DEF Kept, Params
<1>10. Locals'
  <2>1. \A w \in Workers : /\ mem'.buf[Job(w)] = mem.buf[Job(w)]
                           /\ mem'.buf[Item(w)] = mem.buf[Item(w)]
    BY <1>5, OtherPlaces, PlacesApart
  <2> QED
    BY <1>2, <2>1 DEF Kept, Locals
<1>11. Single'
  BY <1>1, <1>2, ConstructedSingle
<1>12. Settled'
  <2>1. Param(s) \in Places
    BY OtherPlaces
  <2>2. ASSUME NEW k \in Mine \ JobsOf(todo), NEW r \in Places, mem.buf[r] = k
        PROVE  mem'.buf[r] = k
    BY <1>4, <1>5, <2>2, PoolAssumption, MineJobs DEF Kept, PoolTypeOK
  <2> QED
    BY <1>1, <1>2, <1>3, <1>5, <2>1, <2>2 DEF Kept, Settled
<1>13. Counted'
  BY <1>2, AsMany DEF Kept, Counted
<1>14. Ending'
  BY <1>2 DEF Kept, PoolTypeOK, Ending, NothingLeft, InFlight, AllJoined
<1> QED
  BY <1>1, <1>6, <1>7, <1>8, <1>9, <1>10, <1>11, <1>12, <1>13, <1>14 DEF Kept

\* The ring takes it over, and with that it is accepted.
LEMMA PushKept ==
    ASSUME Kept, NEW s \in Submitters, Push(s)
    PROVE  Kept'
<1> DEFINE j == mem.buf[Param(s)]
<1>1. MemOK(mem)' /\ Moved(Cell(tail), Param(s))
  BY PushDoes
<1>2. /\ spc[s] = "push" /\ spc' = [spc EXCEPT ![s] = "return"]
      /\ accepted' = accepted \cup {j} /\ tail' = tail + 1 /\ tail < head + Capacity
      /\ UNCHANGED <<todo, program, head, closed, shuttingDown, opc, completed, wpc, calls>>
      /\ Capacity \in Nat /\ head \in Nat /\ tail \in Nat /\ head <= tail
  BY PoolAssumption DEF Push, Room, ownerVars, Kept, PoolTypeOK, Cells
<1>3. j # NoJob /\ j \notin accepted /\ calls[j] = 0
  BY <1>2 DEF Kept, Params
<1>4. j \in Mine \ JobsOf(todo) /\ mem.destroyed[j] = 0
  BY <1>3, OtherPlaces DEF Kept, Single
<1>5. Mine' = Mine /\ JobsOf(todo)' = JobsOf(todo)
  BY <1>2 DEF Mine
<1>6. /\ mem'.buf[Cell(tail)] = j /\ mem'.buf[Param(s)] = NoJob
      /\ \A r \in Places : r # Cell(tail) /\ r # Param(s) => mem'.buf[r] = mem.buf[r]
      /\ mem'.destroyed = mem.destroyed
  BY <1>1 DEF Kept, MemOK, Moved
<1>7. \A r \in Places : r # Param(s) => mem.buf[r] # j
  BY <1>3, Elsewhere, OtherPlaces
<1> HIDE DEF j
<1>8. PoolTypeOK'
  <2>1. accepted' \subseteq Mine' /\ IsFiniteSet(accepted')
    BY <1>2, <1>4, <1>5, FS_AddElement DEF Kept, PoolTypeOK
  <2> QED
    BY <1>2, <2>1 DEF Kept, PoolTypeOK
<1>9. Unsubmitted'
  BY <1>2, <1>4, <1>5, <1>6 DEF Kept, Unsubmitted
<1>10. Cells'
  <2>1. \A i \in Nat : Cell(i) # Cell(tail) => mem'.buf[Cell(i)] = mem.buf[Cell(i)]
    BY <1>6, CellPlace, PlacesApart
  <2>2. \A i \in Nat : head <= i /\ i < head + Capacity /\ i # tail => Cell(i) # Cell(tail)
    BY <1>2, CellsApart
  <2>3. \A i \in Nat : head <= i /\ i < tail' => mem'.buf[Cell(i)] # NoJob
    BY <1>2, <1>3, <1>6, <2>1, <2>2 DEF Kept, Cells
  <2>4. \A i \in Nat : tail' <= i /\ i < head + Capacity => mem'.buf[Cell(i)] = NoJob
    BY <1>2, <2>1, <2>2 DEF Kept, Cells
  <2>5. \A i \in Nat : mem'.buf[Cell(i)] # NoJob =>
            mem'.buf[Cell(i)] \in accepted' /\ calls[mem'.buf[Cell(i)]] = 0
    BY <1>2, <1>3, <1>6, <2>1 DEF Kept, Cells
  <2> QED
    BY <1>2, <2>3, <2>4, <2>5 DEF Cells
<1>11. Params'
  <2>1. \A t \in Submitters : t # s => mem'.buf[Param(t)] = mem.buf[Param(t)] /\ spc'[t] = spc[t]
    BY <1>2, <1>6, OtherPlaces, PlacesApart DEF Kept, PoolTypeOK
  <2>2. \A t \in Submitters : t # s => mem.buf[Param(t)] # j
    BY <1>7, OtherPlaces, PlacesApart
  <2>3. spc'[s] = "return"
    BY <1>2 DEF Kept, PoolTypeOK
  <2> QED
    BY <1>2, <1>6, <2>1, <2>2, <2>3 DEF Kept, Params
<1>12. Locals'
  <2>1. \A w \in Workers : /\ mem'.buf[Job(w)] = mem.buf[Job(w)]
                           /\ mem'.buf[Item(w)] = mem.buf[Item(w)]
    BY <1>6, OtherPlaces, PlacesApart
  <2> QED
    BY <1>2, <2>1 DEF Kept, Locals
<1>13. Single'
  BY <1>1, <1>2, MovedSingle
<1>14. Settled'
  <2>1. Cell(tail) \in Places /\ mem.buf[Cell(tail)] = NoJob
    BY <1>1 DEF Moved
  <2>2. ASSUME NEW k \in Mine \ JobsOf(todo), NEW r \in Places, mem.buf[r] = k
        PROVE  \E q \in Places : mem'.buf[q] = k
    <3>1. k # NoJob
      BY PoolAssumption, MineJobs DEF Kept, PoolTypeOK
    <3>2. CASE r = Param(s)
      BY <1>6, <2>1, <2>2, <3>2 DEF j
    <3>3. CASE r # Param(s)
      BY <1>6, <2>1, <2>2, <3>1, <3>3
    <3> QED
      BY <3>2, <3>3
  <2>3. ASSUME NEW k \in Mine, mem.destroyed[k] = 1 PROVE k \in accepted' <=> k \in accepted
    BY <1>2, <1>4, <2>3
  <2> QED
    BY <1>2, <1>5, <1>6, <2>2, <2>3 DEF Kept, Settled
<1>15. Counted'
  <2>1. Cardinality(Uncounted)' = Cardinality(Uncounted)
    BY <1>2, AsMany
  <2>2. Cardinality(accepted') = Cardinality(accepted) + 1
    BY <1>2, <1>3, FS_AddElement DEF Kept, PoolTypeOK
  <2>3. Cardinality(Uncounted) \in Nat
    BY UncountedIs DEF Uncounted
  <2> QED
    BY <1>2, <2>1, <2>2, <2>3 DEF Kept, PoolTypeOK, Counted
<1>16. Ending'
  BY <1>2 DEF Kept, PoolTypeOK, Ending, NothingLeft, InFlight, AllJoined
<1> QED
  BY <1>1, <1>8, <1>9, <1>10, <1>11, <1>12, <1>13, <1>14, <1>15, <1>16 DEF Kept

\* A job that was refused is destroyed uncalled.
LEMMA ReturnKept ==
    ASSUME Kept, NEW s \in Submitters, Return(s)
    PROVE  Kept'
<1> DEFINE j == mem.buf[Param(s)]
<1>1. MemOK(mem)' /\ Emptied(Param(s))
  BY ReturnDoes
<1>2. /\ spc[s] = "return" /\ spc' = [spc EXCEPT ![s] = "idle"]
      /\ UNCHANGED <<todo, program, head, tail, closed, shuttingDown, opc, completed,
                     wpc, accepted, calls>>
  BY DEF Return, queueVars, ownerVars
<1>3. Mine' = Mine /\ JobsOf(todo)' = JobsOf(todo)
  BY <1>2 DEF Mine
<1>4. j # NoJob => j \notin accepted /\ calls[j] = 0
  BY DEF Kept, Params
<1>5. j # NoJob => j \in Mine \ JobsOf(todo) /\ mem.destroyed[j] = 0
  BY OtherPlaces DEF Kept, Single
<1>6. /\ mem'.buf[Param(s)] = NoJob
      /\ \A r \in Places : r # Param(s) => mem'.buf[r] = mem.buf[r]
      /\ \A k \in Some : k # j \/ j = NoJob => mem'.destroyed[k] = mem.destroyed[k]
      /\ j # NoJob => mem'.destroyed[j] = 1
  <2>1. j \in Some /\ mem.destroyed \in [Some -> Nat]
    BY OtherPlaces DEF Kept, MemOK
  <2> QED
    BY <1>1, <1>5, <2>1 DEF Kept, MemOK, Emptied
<1> HIDE DEF j
<1>7. PoolTypeOK'
  BY <1>2, <1>3 DEF Kept, PoolTypeOK
<1>8. Unsubmitted'
  <2>1. \A k \in JobsOf(todo) : mem'.destroyed[k] = mem.destroyed[k]
    BY <1>5, <1>6, MineJobs DEF Kept, PoolTypeOK, Unsubmitted, Some
  <2> QED
    BY <1>2, <1>3, <2>1 DEF Kept, Unsubmitted
<1>9. Cells'
  <2>1. \A i \in Nat : mem'.buf[Cell(i)] = mem.buf[Cell(i)]
    BY <1>6, CellPlace, PlacesApart
  <2> QED
    BY <1>2, <2>1 DEF Kept, Cells
<1>10. Params'
  <2>1. \A t \in Submitters : t # s => mem'.buf[Param(t)] = mem.buf[Param(t)] /\ spc'[t] = spc[t]
    BY <1>2, <1>6, OtherPlaces, PlacesApart DEF Kept, PoolTypeOK
  <2>2. spc'[s] = "idle"
    BY <1>2 DEF Kept, PoolTypeOK
  <2> QED
    BY <1>2, <1>6, <2>1, <2>2 DEF Kept, Params
<1>11. Locals'
  <2>1. \A w \in Workers : /\ mem'.buf[Job(w)] = mem.buf[Job(w)]
                           /\ mem'.buf[Item(w)] = mem.buf[Item(w)]
    BY <1>6, OtherPlaces, PlacesApart
  <2> QED
    BY <1>2, <2>1 DEF Kept, Locals
<1>12. Single'
  BY <1>1, <1>2, EmptiedSingle
<1>13. Settled'
  <2>1. ASSUME NEW k \in Mine \ JobsOf(todo), k # j
        PROVE  /\ mem'.destroyed[k] = mem.destroyed[k]
               /\ \A r \in Places : mem.buf[r] = k => mem'.buf[r] = k
    BY <1>6, <2>1, MineJobs DEF Kept, PoolTypeOK, Some, j
  <2>2. mem'.destroyed[NoJob] = mem.destroyed[NoJob]
    BY <1>6 DEF Some
  <2>3. NoJob \notin Mine
    BY PoolAssumption, MineJobs DEF Kept, PoolTypeOK
  <2> QED
    BY <1>2, <1>3, <1>4, <1>6, <2>1, <2>2, <2>3 DEF Kept, Settled
<1>14. Counted'
  BY <1>2, AsMany DEF Kept, Counted
<1>15. Ending'
  BY <1>2 DEF Kept, PoolTypeOK, Ending, NothingLeft, InFlight, AllJoined
<1> QED
  BY <1>1, <1>7, <1>8, <1>9, <1>10, <1>11, <1>12, <1>13, <1>14, <1>15 DEF Kept

\* The oldest job goes to the worker, and its cell is free again.
LEMMA PopKept ==
    ASSUME Kept, NEW w \in Workers, Pop(w)
    PROVE  Kept'
<1> DEFINE j == mem.buf[Cell(head)]
<1>1. MemOK(mem)' /\ Moved(Job(w), Cell(head))
  BY PopDoes
<1>2. /\ wpc[w] = "pop" /\ wpc' = [wpc EXCEPT ![w] = "call"]
      /\ head' = head + 1 /\ head < tail /\ tail <= head + Capacity
      /\ UNCHANGED <<todo, program, tail, closed, shuttingDown, opc, completed,
                     spc, accepted, calls>>
      /\ Capacity \in Nat \ {0} /\ head \in Nat /\ tail \in Nat
  BY PoolAssumption DEF Pop, ownerVars, Kept, PoolTypeOK, Cells
<1>3. j # NoJob /\ j \in accepted /\ calls[j] = 0
  BY <1>2 DEF Kept, Cells
<1>4. Mine' = Mine /\ JobsOf(todo)' = JobsOf(todo)
  BY <1>2 DEF Mine
<1>5. /\ mem'.buf[Job(w)] = j /\ mem'.buf[Cell(head)] = NoJob
      /\ \A r \in Places : r # Job(w) /\ r # Cell(head) => mem'.buf[r] = mem.buf[r]
      /\ mem'.destroyed = mem.destroyed
  BY <1>1 DEF Kept, MemOK, Moved
<1>6. /\ wpc'[w] = "call"
      /\ \A v \in Workers : v # w => wpc'[v] = wpc[v]
  BY <1>2 DEF Kept, PoolTypeOK
<1> HIDE DEF j
<1>7. PoolTypeOK'
  BY <1>2, <1>4 DEF Kept, PoolTypeOK
<1>8. Unsubmitted'
  BY <1>2, <1>4, <1>5 DEF Kept, Unsubmitted
<1>9. Cells'
  <2>1. \A i \in Nat : Cell(i) # Cell(head) => mem'.buf[Cell(i)] = mem.buf[Cell(i)]
    BY <1>5, CellPlace, PlacesApart
  <2>2. \A i \in Nat : head < i /\ i < head + Capacity => Cell(i) # Cell(head)
    BY <1>2, CellsApart
  <2>3. \A i \in Nat : head' <= i /\ i < tail => mem'.buf[Cell(i)] # NoJob
    BY <1>2, <2>1, <2>2 DEF Kept, Cells
  <2>4. Cell(head + Capacity) = Cell(head)
    <3>1. PICK q \in Nat : head + 1 <= q /\ q < head + 1 + Capacity /\ Cell(q) = Cell(head)
      <4>1. head + 1 \in Nat /\ head % Capacity \in 0 .. Capacity - 1
        BY <1>2
      <4> QED
        BY <4>1, CellInWindow DEF Cell
    <3>2. q = head + Capacity
      BY <1>2, <2>2, <3>1
    <3> QED
      BY <3>1, <3>2
  <2>5. \A i \in Nat : tail <= i /\ i < head' + Capacity => mem'.buf[Cell(i)] = NoJob
    <3> SUFFICES ASSUME NEW i \in Nat, tail <= i, i < head' + Capacity
                 PROVE  mem'.buf[Cell(i)] = NoJob
      OBVIOUS
    <3>1. CASE i = head + Capacity
      BY <1>5, <2>4, <3>1
    <3>2. CASE i < head + Capacity
      BY <1>2, <2>1, <2>2, <3>2 DEF Kept, Cells
    <3> QED
      BY <1>2, <3>1, <3>2
  <2>6. \A i \in Nat : mem'.buf[Cell(i)] # NoJob =>
            mem'.buf[Cell(i)] \in accepted /\ calls[mem'.buf[Cell(i)]] = 0
    BY <1>5, <2>1 DEF Kept, Cells
  <2> QED
    BY <1>2, <2>3, <2>5, <2>6 DEF Cells
<1>10. Params'
  <2>1. \A s \in Submitters : mem'.buf[Param(s)] = mem.buf[Param(s)]
    BY <1>5, OtherPlaces, PlacesApart
  <2> QED
    BY <1>2, <2>1 DEF Kept, Params
<1>11. Locals'
  <2>1. \A v \in Workers : mem'.buf[Item(v)] = mem.buf[Item(v)]
    BY <1>5, OtherPlaces, PlacesApart
  <2>2. \A v \in Workers : v # w => mem'.buf[Job(v)] = mem.buf[Job(v)]
    BY <1>5, OtherPlaces, PlacesApart
  <2> QED
    BY <1>2, <1>3, <1>5, <1>6, <2>1, <2>2 DEF Kept, Locals, Holding
<1>12. Single'
  BY <1>1, <1>2, MovedSingle
<1>13. Settled'
  <2>1. Job(w) \in Places /\ mem.buf[Job(w)] = NoJob
    BY <1>1 DEF Moved
  <2>2. ASSUME NEW k \in Mine \ JobsOf(todo), NEW r \in Places, mem.buf[r] = k
        PROVE  \E q \in Places : mem'.buf[q] = k
    <3>1. k # NoJob
      BY PoolAssumption, MineJobs DEF Kept, PoolTypeOK
    <3>2. CASE r = Cell(head)
      BY <1>5, <2>1, <2>2, <3>2 DEF j
    <3>3. CASE r # Cell(head)
      BY <1>5, <2>1, <2>2, <3>1, <3>3
    <3> QED
      BY <3>2, <3>3
  <2> QED
    BY <1>2, <1>4, <1>5, <2>2 DEF Kept, Settled
<1>14. Counted'
  <2>1. Cardinality(Uncounted)' = Cardinality(Uncounted) + 1
    BY <1>2, <1>6, OneMore
  <2>2. Cardinality(Uncounted) \in Nat
    BY UncountedIs DEF Uncounted
  <2> QED
    BY <1>2, <2>1, <2>2 DEF Kept, PoolTypeOK, Counted
<1>15. Ending'
  BY <1>2, <1>6 DEF Kept, PoolTypeOK, Ending, NothingLeft, InFlight, AllJoined
<1> QED
  BY <1>1, <1>7, <1>8, <1>9, <1>10, <1>11, <1>12, <1>13, <1>14, <1>15 DEF Kept

\* A job that was called is destroyed.
LEMMA DropKept ==
    ASSUME Kept, NEW w \in Workers, Drop(w)
    PROVE  Kept'
<1> DEFINE j == mem.buf[Job(w)]
<1>1. MemOK(mem)' /\ Emptied(Job(w))
  BY DropDoes
<1>2. /\ wpc[w] = "drop" /\ wpc' = [wpc EXCEPT ![w] = "pop"]
      /\ UNCHANGED <<todo, program, head, tail, closed, shuttingDown, opc, completed,
                     spc, accepted, calls>>
  BY DEF Drop, queueVars, ownerVars
<1>3. j # NoJob /\ j \in accepted /\ calls[j] = 1
  BY <1>2 DEF Kept, Locals, Holding
<1>4. Mine' = Mine /\ JobsOf(todo)' = JobsOf(todo)
  BY <1>2 DEF Mine
<1>5. j \in Mine \ JobsOf(todo) /\ mem.destroyed[j] = 0
  BY <1>3, OtherPlaces DEF Kept, Single
<1>6. /\ mem'.buf[Job(w)] = NoJob
      /\ \A r \in Places : r # Job(w) => mem'.buf[r] = mem.buf[r]
      /\ \A k \in Some : k # j => mem'.destroyed[k] = mem.destroyed[k]
      /\ mem'.destroyed[j] = 1
  <2>1. j \in Some /\ mem.destroyed \in [Some -> Nat]
    BY OtherPlaces DEF Kept, MemOK
  <2> QED
    BY <1>1, <1>3, <1>5, <2>1 DEF Kept, MemOK, Emptied
<1>7. /\ wpc'[w] = "pop"
      /\ \A v \in Workers : v # w => wpc'[v] = wpc[v]
  BY <1>2 DEF Kept, PoolTypeOK
<1> HIDE DEF j
<1>8. PoolTypeOK'
  BY <1>2, <1>4 DEF Kept, PoolTypeOK
<1>9. Unsubmitted'
  <2>1. \A k \in JobsOf(todo) : mem'.destroyed[k] = mem.destroyed[k]
    BY <1>5, <1>6, MineJobs DEF Kept, PoolTypeOK, Unsubmitted, Some
  <2> QED
    BY <1>2, <1>4, <2>1 DEF Kept, Unsubmitted
<1>10. Cells'
  <2>1. \A i \in Nat : mem'.buf[Cell(i)] = mem.buf[Cell(i)]
    BY <1>6, CellPlace, PlacesApart
  <2> QED
    BY <1>2, <2>1 DEF Kept, Cells
<1>11. Params'
  <2>1. \A s \in Submitters : mem'.buf[Param(s)] = mem.buf[Param(s)]
    BY <1>6, OtherPlaces, PlacesApart
  <2> QED
    BY <1>2, <2>1 DEF Kept, Params
<1>12. Locals'
  <2>1. \A v \in Workers : mem'.buf[Item(v)] = mem.buf[Item(v)]
    <3>1. \A v \in Workers : Item(v) \in Places /\ Item(v) # Job(w)
      BY OtherPlaces, PlacesApart
    <3> QED
      BY <1>6, <3>1
  <2>2. \A v \in Workers : v # w => mem'.buf[Job(v)] = mem.buf[Job(v)]
    BY <1>6, OtherPlaces, PlacesApart
  <2>3. wpc'[w] \notin Holding
    BY <1>7 DEF Holding
  <2> QED
    BY <1>2, <1>6, <1>7, <2>1, <2>2, <2>3 DEF Kept, Locals
<1>13. Single'
  BY <1>1, <1>2, EmptiedSingle
<1>14. Settled'
  <2>1. ASSUME NEW k \in Mine \ JobsOf(todo), k # j
        PROVE  /\ mem'.destroyed[k] = mem.destroyed[k]
               /\ \A r \in Places : mem.buf[r] = k => mem'.buf[r] = k
    BY <1>6, <2>1, MineJobs DEF Kept, PoolTypeOK, Some, j
  <2>2. mem'.destroyed[NoJob] = mem.destroyed[NoJob]
    BY <1>3, <1>6 DEF Some
  <2> QED
    BY <1>2, <1>3, <1>4, <1>6, <2>1, <2>2 DEF Kept, Settled
<1>15. Counted'
  BY <1>2, <1>7, AsMany DEF Kept, Counted
<1>16. Ending'
  BY <1>2, <1>7 DEF Kept, PoolTypeOK, Ending, NothingLeft, InFlight, AllJoined
<1> QED
  BY <1>1, <1>8, <1>9, <1>10, <1>11, <1>12, <1>13, <1>14, <1>15, <1>16 DEF Kept

\* A call changes how often one job was called, and that job is the worker's.
LEMMA CallKept ==
    ASSUME Kept, NEW w \in Workers, Call(w)
    PROVE  Kept'
<1> DEFINE j == mem.buf[Job(w)]
<1>1. /\ wpc[w] = "call" /\ wpc' = [wpc EXCEPT ![w] = "count"]
      /\ calls' = [calls EXCEPT ![j] = @ + 1]
      /\ UNCHANGED <<todo, program, mem, head, tail, closed, shuttingDown, opc, completed,
                     spc, accepted>>
  BY DEF Call, queueVars, ownerVars
<1>2. j # NoJob /\ j \in accepted /\ calls[j] = 0
  BY <1>1 DEF Kept, Locals, Holding
<1>3. Mine' = Mine /\ JobsOf(todo)' = JobsOf(todo)
  BY <1>1 DEF Mine
<1>4. j \in Mine \ JobsOf(todo) /\ mem.destroyed[j] = 0
  BY <1>2, OtherPlaces DEF Kept, Single
<1>5. calls'[j] = 1 /\ \A k \in Jobs : k # j => calls'[k] = calls[k]
  BY <1>1, <1>2, <1>4, MineJobs DEF Kept, PoolTypeOK
<1>6. \A r \in Places : r # Job(w) => mem.buf[r] # j
  BY <1>2, Elsewhere, OtherPlaces
<1>7. ASSUME NEW r \in Places, r # Job(w), mem.buf[r] # NoJob
      PROVE  calls'[mem.buf[r]] = calls[mem.buf[r]]
  <2>1. mem.buf[r] \in Jobs
    BY <1>7 DEF Kept, MemOK, Some
  <2> QED
    BY <1>5, <1>6, <1>7, <2>1
<1>8. /\ wpc'[w] = "count"
      /\ \A v \in Workers : v # w => wpc'[v] = wpc[v]
  BY <1>1 DEF Kept, PoolTypeOK
<1>9. PoolTypeOK'
  <2>1. calls' \in [Jobs -> Nat]
    <3>1. calls \in [Jobs -> Nat]
      BY DEF Kept, PoolTypeOK
    <3> HIDE DEF j
    <3>2. calls' = [calls EXCEPT ![j] = 1]
      BY <1>1, <1>2
    <3> QED
      BY <3>1, <3>2
  <2> QED
    BY <1>1, <1>3, <2>1 DEF Kept, PoolTypeOK
<1>10. MemOK(mem)'
  BY <1>1 DEF Kept
<1> HIDE DEF j
<1>11. Unsubmitted'
  <2>1. \A k \in JobsOf(todo) : calls'[k] = calls[k]
    BY <1>4, <1>5, MineJobs DEF Kept, PoolTypeOK, Unsubmitted
  <2>2. Distinct(todo)'
    BY <1>1 DEF Kept, Unsubmitted, Distinct
  <2> QED
    BY <1>1, <1>3, <2>1, <2>2 DEF Kept, Unsubmitted
<1>12. Cells'
  <2>1. \A i \in Nat : mem.buf[Cell(i)] # NoJob => calls'[mem.buf[Cell(i)]] = calls[mem.buf[Cell(i)]]
    BY <1>7, CellPlace, PlacesApart
  <2> QED
    BY <1>1, <2>1 DEF Kept, Cells
<1>13. Params'
  <2>1. \A s \in Submitters : mem.buf[Param(s)] # NoJob =>
            calls'[mem.buf[Param(s)]] = calls[mem.buf[Param(s)]]
    BY <1>7, OtherPlaces, PlacesApart
  <2> QED
    BY <1>1, <2>1 DEF Kept, Params
<1>14. Locals'
  <2>1. \A v \in Workers : v # w /\ mem.buf[Job(v)] # NoJob =>
            calls'[mem.buf[Job(v)]] = calls[mem.buf[Job(v)]]
    BY <1>7, OtherPlaces, PlacesApart
  <2>2. mem'.buf[Job(w)] = j
    BY <1>1 DEF j
  <2> QED
    BY <1>1, <1>2, <1>5, <1>8, <2>1, <2>2 DEF Kept, Locals, Holding
<1>15. Single'
  BY <1>1, <1>3 DEF Kept, Single
<1>16. Settled'
  <2>1. \A k \in Jobs : k \notin Mine => calls'[k] = calls[k]
    BY <1>4, <1>5
  <2>2. mem.buf[Job(w)] = j /\ Job(w) \in Places
    BY OtherPlaces DEF j
  <2>3. \A k \in Mine : k # j => calls'[k] = calls[k]
    BY <1>5, MineJobs DEF Kept, PoolTypeOK
  <2> QED
    BY <1>1, <1>3, <2>1, <2>2, <2>3 DEF Kept, Settled
<1>17. Counted'
  BY <1>1, <1>8, AsMany DEF Kept, Counted
<1>18. Ending'
  BY <1>1, <1>8 DEF Kept, PoolTypeOK, Ending, NothingLeft, InFlight, AllJoined
<1> QED
  BY <1>9, <1>10, <1>11, <1>12, <1>13, <1>14, <1>15, <1>16, <1>17, <1>18 DEF Kept

\* The objects, the jobs and their histories are left alone.
Aside == UNCHANGED <<todo, program, mem, head, tail, accepted, calls>>

\* Then what is said of them alone still holds.
LEMMA AsideKept ==
    ASSUME Kept, Aside
    PROVE  MemOK(mem)' /\ Unsubmitted' /\ Cells' /\ Single' /\ Settled'
<1>1. UNCHANGED <<todo, program, mem, head, tail, accepted, calls>>
  BY DEF Aside
<1>2. Mine' = Mine /\ JobsOf(todo)' = JobsOf(todo) /\ Distinct(todo)' = Distinct(todo)
  BY <1>1 DEF Mine, Distinct
<1>3. MemOK(mem)'
  BY <1>1 DEF Kept
<1>4. Unsubmitted'
  BY <1>1, <1>2 DEF Kept, Unsubmitted
<1>5. Cells'
  BY <1>1 DEF Kept, Cells
<1>6. Single' /\ Settled'
  BY <1>1, <1>2 DEF Kept, Single, Settled
<1> QED
  BY <1>3, <1>4, <1>5, <1>6

\* A push that finds the ring full, and one that looks at shutdown_ again.
LEMMA PushWaitKept ==
    ASSUME Kept, NEW s \in Submitters, PushFull(s) \/ PushAgain(s)
    PROVE  Kept'
<1>1. /\ Aside /\ UNCHANGED <<closed, shuttingDown, opc, completed, wpc>>
      /\ \/ spc[s] = "push" /\ spc' = [spc EXCEPT ![s] = "full"]
         \/ spc[s] = "full" /\ spc' = [spc EXCEPT ![s] = IF closed THEN "return" ELSE "push"]
  BY DEF PushFull, PushAgain, Aside, queueVars, ownerVars
<1>2. MemOK(mem)' /\ Unsubmitted' /\ Cells' /\ Single' /\ Settled'
  BY <1>1, AsideKept
<1>3. PoolTypeOK'
  BY <1>1 DEF Kept, PoolTypeOK, Aside, Mine
<1>4. Params'
  <2>1. \A t \in Submitters : t # s => spc'[t] = spc[t]
    BY <1>1 DEF Kept, PoolTypeOK
  <2>2. spc[s] \in {"push", "full"} /\ spc'[s] \in {"push", "full", "return"}
    BY <1>1 DEF Kept, PoolTypeOK
  <2> QED
    BY <1>1, <2>1, <2>2 DEF Kept, Params, Aside
<1>5. Locals'
  BY <1>1 DEF Kept, Locals, Aside
<1>6. Counted'
  BY <1>1, AsMany DEF Kept, Counted, Aside
<1>7. Ending'
  BY <1>1 DEF Kept, PoolTypeOK, Ending, NothingLeft, InFlight, AllJoined, Aside
<1> QED
  BY <1>2, <1>3, <1>4, <1>5, <1>6, <1>7 DEF Kept

\* A worker goes home: nothing is left, and nothing can come.
LEMMA PopNothingKept ==
    ASSUME Kept, NEW w \in Workers, PopNothing(w)
    PROVE  Kept'
<1>1. /\ Aside /\ UNCHANGED <<closed, shuttingDown, opc, completed, spc>>
      /\ NothingLeft /\ wpc[w] = "pop" /\ wpc' = [wpc EXCEPT ![w] = "gone"]
  BY DEF PopNothing, Aside, queueVars, ownerVars
<1>2. MemOK(mem)' /\ Unsubmitted' /\ Cells' /\ Single' /\ Settled'
  BY <1>1, AsideKept
<1>3. PoolTypeOK'
  BY <1>1 DEF Kept, PoolTypeOK, Aside, Mine
<1>4. /\ wpc'[w] = "gone"
      /\ \A v \in Workers : v # w => wpc'[v] = wpc[v]
  BY <1>1 DEF Kept, PoolTypeOK
<1>5. Params'
  BY <1>1 DEF Kept, Params, Aside
<1>6. Locals'
  BY <1>1, <1>4 DEF Kept, Locals, Holding, Aside
<1>7. Counted'
  BY <1>1, <1>4, AsMany DEF Kept, Counted, Aside
<1>8. Ending'
  BY <1>1, <1>4 DEF Kept, Ending, NothingLeft, InFlight, AllJoined, Aside
<1> QED
  BY <1>2, <1>3, <1>5, <1>6, <1>7, <1>8 DEF Kept

\* ++completed_ takes a job over into the counter.
LEMMA CountKept ==
    ASSUME Kept, NEW w \in Workers, Count(w)
    PROVE  Kept'
<1>1. /\ Aside /\ UNCHANGED <<closed, shuttingDown, opc, spc>>
      /\ completed' = completed + 1
      /\ wpc[w] = "count" /\ wpc' = [wpc EXCEPT ![w] = "drop"]
  BY DEF Count, Aside, queueVars, ownerVars
<1>2. MemOK(mem)' /\ Unsubmitted' /\ Cells' /\ Single' /\ Settled'
  BY <1>1, AsideKept
<1>3. PoolTypeOK'
  BY <1>1 DEF Kept, PoolTypeOK, Aside, Mine
<1>4. /\ wpc'[w] = "drop"
      /\ \A v \in Workers : v # w => wpc'[v] = wpc[v]
  BY <1>1 DEF Kept, PoolTypeOK
<1>5. Params'
  BY <1>1 DEF Kept, Params, Aside
<1>6. Locals'
  BY <1>1, <1>4 DEF Kept, Locals, Holding, Aside
<1>7. Counted'
  <2>1. Cardinality(Uncounted)' = Cardinality(Uncounted) - 1
    BY <1>1, <1>4, OneLess
  <2>2. Cardinality(Uncounted) \in Nat
    BY UncountedIs DEF Uncounted
  <2> QED
    BY <1>1, <2>1, <2>2 DEF Kept, PoolTypeOK, Counted, Aside
<1>8. Ending'
  BY <1>1, <1>4 DEF Kept, Ending, NothingLeft, InFlight, AllJoined, Aside
<1> QED
  BY <1>2, <1>3, <1>5, <1>6, <1>7, <1>8 DEF Kept

\* shutdown() moves nothing; it only closes and waits.
LEMMA OwnerKept ==
    ASSUME Kept, ShutdownBegin \/ CloseQueue \/ Join \/ Leave \/ UNCHANGED poolVars
    PROVE  Kept'
<1>1. /\ Aside /\ UNCHANGED <<completed, spc, wpc>>
      /\ closed' \in {closed, TRUE} /\ shuttingDown' \in {shuttingDown, TRUE}
  BY DEF ShutdownBegin, CloseQueue, Join, Leave, poolVars, Aside, queueVars, ownerVars
<1>2. MemOK(mem)' /\ Unsubmitted' /\ Cells' /\ Single' /\ Settled'
  BY <1>1, AsideKept
<1>3. PoolTypeOK'
  BY <1>1 DEF Kept, PoolTypeOK, Aside, Mine
<1>4. Params' /\ Locals'
  BY <1>1 DEF Kept, Params, Locals, Aside
<1>5. Counted'
  BY <1>1, AsMany DEF Kept, Counted, Aside
<1>6. Ending'
  <2>1. \A w \in Workers : wpc'[w] = "gone" => NothingLeft'
    <3>1. InFlight' = InFlight /\ head' = head /\ tail' = tail
      BY <1>1 DEF InFlight, Aside
    <3>2. NothingLeft => NothingLeft'
      BY <1>1, <3>1 DEF NothingLeft
    <3> QED
      BY <1>1, <3>2 DEF Kept, Ending
  <2>2. AllJoined' = AllJoined
    BY <1>1 DEF AllJoined
  <2>3. (opc' = "submit" => ~shuttingDown') /\ (opc' \in {"joined", "destroy", "end"} => AllJoined')
    <3>1. /\ opc = "submit" => ~shuttingDown
          /\ opc \in {"joined", "destroy", "end"} => AllJoined
      BY DEF Kept, Ending
    <3>2. CASE ShutdownBegin
      BY <2>2, <3>1, <3>2 DEF ShutdownBegin
    <3>3. CASE CloseQueue
      BY <3>3 DEF CloseQueue
    <3>4. CASE Join
      BY <2>2, <3>4 DEF Join
    <3>5. CASE Leave
      BY <2>2, <3>1, <3>5 DEF Leave
    <3>6. CASE UNCHANGED poolVars
      BY <2>2, <3>1, <3>6 DEF poolVars, ownerVars
    <3> QED
      BY <3>2, <3>3, <3>4, <3>5, <3>6
  <2> QED
    BY <2>1, <2>3 DEF Ending
<1> QED
  BY <1>2, <1>3, <1>4, <1>5, <1>6 DEF Kept

-----------------------------------------------------------------------------
(* The invariant holds                                                     *)

\* A new pool satisfies the invariant.
LEMMA InitKept == ASSUME BenchInit PROVE Kept
<1>1. /\ PoolInit /\ program \in Programs /\ todo = program.todo
      /\ accepted = {} /\ head = 0 /\ tail = 0 /\ completed = 0
      /\ mem = NewMemory(Places, Jobs)
  BY DEF BenchInit, PoolInit
<1>2. Mine = JobsOf(todo) /\ todo \in [Submitters -> Seq(Jobs)] /\ Distinct(todo)
  BY <1>1, PoolAssumption DEF Mine, Distinct
<1>3. /\ mem.buf = [p \in Places |-> NoJob] /\ mem.ops = mem.buf
      /\ mem.destroyed = [j \in Some |-> 0]
      /\ mem \in [ops : [Places -> Some], buf : [Places -> Some], destroyed : [Some -> Nat]]
  BY <1>1 DEF NewMemory, Some
<1>4. MemOK(mem)
  BY <1>3 DEF MemOK
<1>5. PoolTypeOK
  <2>1. accepted \subseteq Mine /\ IsFiniteSet(accepted)
    BY <1>1, FS_EmptySet
  <2>2. closed \in BOOLEAN /\ shuttingDown \in BOOLEAN
    BY <1>1, Zenon DEF PoolInit
  <2> QED
    BY <1>1, <1>2, <2>1, <2>2 DEF PoolInit, PoolTypeOK
<1>6. Unsubmitted
  BY <1>1, <1>2, <1>3, MineJobs DEF PoolInit, Unsubmitted, Some
<1>7. Cells
  <2>1. \A i \in Nat : mem.buf[Cell(i)] = NoJob
    BY <1>3, CellPlace
  <2> QED
    BY <1>1, <2>1, PoolAssumption DEF Cells
<1>8. Params
  BY <1>1, <1>3, OtherPlaces DEF PoolInit, Params
<1>9. Locals
  BY <1>1, <1>3, OtherPlaces DEF PoolInit, Locals, Holding
<1>10. Single
  BY <1>3 DEF Single
<1>11. Settled
  BY <1>1, <1>2, <1>3 DEF PoolInit, Settled, Some
<1>12. Counted
  <2>1. Uncounted = {}
    BY <1>1 DEF PoolInit, Uncounted
  <2> QED
    BY <1>1, <2>1, FS_EmptySet DEF Counted
<1>13. Ending
  BY <1>1 DEF PoolInit, Ending
<1> QED
  BY <1>4, <1>5, <1>6, <1>7, <1>8, <1>9, <1>10, <1>11, <1>12, <1>13 DEF Kept

\* A step of the benchmark is a step of the pool, or leaves the pool alone.
PoolStep ==
    \/ \E s \in Submitters : Submit(s) \/ Push(s) \/ PushFull(s) \/ PushAgain(s) \/ Return(s)
    \/ \E w \in Workers : Pop(w) \/ PopNothing(w) \/ Call(w) \/ Count(w) \/ Drop(w)
    \/ ShutdownBegin \/ CloseQueue \/ Join \/ Leave \/ UNCHANGED poolVars

\* By cases on who moves.
LEMMA BenchIsPool == ASSUME [BenchNext]_benchVars PROVE PoolStep
<1>1. CASE OwnerMove
  BY <1>1 DEF OwnerMove, OwnerStep, ReadSamples, LeaveScope, PoolStep
<1>2. ASSUME NEW s \in Submitters, SubmitMove(s) PROVE PoolStep
  BY <1>2 DEF SubmitMove, SubmitStep, PoolStep
<1>3. ASSUME NEW w \in Workers, WorkerStep(w) PROVE PoolStep
  <2>1. CASE ClaimSlot(w)
    BY <2>1 DEF ClaimSlot, PoolStep
  <2>2. CASE Record(w) \/ CallPlain(w)
    BY <2>2 DEF Record, CallPlain, PoolStep
  <2> QED
    BY <1>3, <2>1, <2>2 DEF WorkerStep, PoolStep
<1>4. CASE UNCHANGED benchVars
  BY <1>4 DEF benchVars, PoolStep
<1> QED
  BY <1>1, <1>2, <1>3, <1>4 DEF BenchNext

\* Every step keeps the invariant.
LEMMA NextKept == ASSUME Kept, [BenchNext]_benchVars PROVE Kept'
  BY BenchIsPool, SubmitKept, PushKept, PushWaitKept, ReturnKept, PopKept, PopNothingKept,
     CallKept, CountKept, DropKept, OwnerKept DEF PoolStep

\* It holds in every state.
LEMMA AlwaysKept == BenchSpec => []Kept
<1>1. BenchInit => Kept
  BY InitKept
<1>2. Kept /\ [BenchNext]_benchVars => Kept'
  BY NextKept
<1> QED
  BY <1>1, <1>2, PTL DEF BenchSpec

-----------------------------------------------------------------------------
(* Ownership and draining                                                  *)

\* However submit(), the workers and shutdown() interleave, a submitted callable
\* is in exactly one InlineJob or was destroyed exactly once, and no destructor
\* runs on raw bytes.
THEOREM PoolOwnsJobsOnce == BenchSpec => []JobsOwnedOnce
<1>1. ASSUME Kept PROVE JobsOwnedOnce
  <2>1. mem.destroyed[NoJob] = 0
    BY <1>1 DEF Kept, Settled
  <2>2. ASSUME NEW j \in Submitted
        PROVE  Cardinality({p \in Places : mem.ops[p] # NoJob /\ mem.buf[p] = j})
                   + mem.destroyed[j] = 1
    <3> DEFINE At == {p \in Places : mem.ops[p] # NoJob /\ mem.buf[p] = j}
    <3>1. j \in Mine \ JobsOf(todo)
      BY DEF Submitted, Mine
    <3>2. j # NoJob
      BY <1>1, <3>1, PoolAssumption, MineJobs DEF Kept, PoolTypeOK
    <3>3. At = {p \in Places : mem.buf[p] = j}
      BY <1>1, <3>2 DEF Kept, MemOK
    <3>4. ASSUME NEW p \in Places, mem.buf[p] = j
          PROVE  Cardinality(At) = 1 /\ mem.destroyed[j] = 0
      <4>1. At = {p}
        BY <1>1, <3>2, <3>3, <3>4 DEF Kept, Single
      <4> QED
        BY <1>1, <3>2, <3>4, <4>1, FS_Singleton DEF Kept, Single
    <3>5. ASSUME \A p \in Places : mem.buf[p] # j
          PROVE  Cardinality(At) = 0 /\ mem.destroyed[j] = 1
      <4>1. At = {}
        BY <3>3, <3>5
      <4> QED
        BY <1>1, <3>1, <3>5, <4>1, FS_EmptySet DEF Kept, Settled
    <3> HIDE DEF At
    <3>6. Cardinality(At) + mem.destroyed[j] = 1
      BY <3>4, <3>5
    <3> QED
      BY <3>6 DEF At
  <2> QED
    BY <2>1, <2>2 DEF JobsOwnedOnce
<1> QED
  BY <1>1, AlwaysKept, PTL

\* What the invariant says once shutdown() has joined.
LEMMA Drained ==
    ASSUME Kept, opc \in {"joined", "destroy", "end"}
    PROVE  /\ \A j \in Jobs : calls[j] = (IF j \in accepted THEN 1 ELSE 0)
           /\ \A j \in accepted : mem.destroyed[j] = 1
           /\ completed = Cardinality(accepted)
           /\ \A w \in Workers : wpc[w] = "gone"
<1>1. (\A w \in Workers : wpc[w] = "gone") /\ head = tail /\ head \in Nat
  <2>1. AllJoined
    BY DEF Kept, Ending
  <2>2. NothingLeft
    BY <2>1, PoolAssumption DEF Kept, Ending, AllJoined
  <2> QED
    BY <2>1, <2>2 DEF AllJoined, NothingLeft, Kept, PoolTypeOK
<1>2. ASSUME NEW p \in Places, mem.buf[p] # NoJob PROVE \E s \in Submitters : p = Param(s)
  <2>1. \A i \in Nat : head <= i /\ i < head + Capacity => mem.buf[Cell(i)] = NoJob
    BY <1>1 DEF Kept, Cells
  <2>2. \A w \in Workers : mem.buf[Item(w)] = NoJob /\ mem.buf[Job(w)] = NoJob
    BY <1>1 DEF Kept, Locals, Holding
  <2> QED
    BY <1>1, <1>2, <2>1, <2>2, PlaceCases
<1>3. ASSUME NEW j \in Jobs, j \notin Mine
      PROVE  calls[j] = 0 /\ j \notin accepted
  BY <1>3 DEF Kept, PoolTypeOK, Settled
<1>4. ASSUME NEW j \in JobsOf(todo) PROVE calls[j] = 0 /\ j \notin accepted
  BY DEF Kept, Unsubmitted
<1>5. ASSUME NEW p \in Places, mem.buf[p] # NoJob
      PROVE  calls[mem.buf[p]] = 0 /\ mem.buf[p] \notin accepted
  BY <1>2, <1>5 DEF Kept, Params
<1>6. ASSUME NEW j \in Mine \ JobsOf(todo), \A p \in Places : mem.buf[p] # j
      PROVE  mem.destroyed[j] = 1 /\ calls[j] = (IF j \in accepted THEN 1 ELSE 0)
  BY <1>6 DEF Kept, Settled
<1>7. NoJob \notin Mine /\ accepted \subseteq Mine
  BY PoolAssumption, MineJobs DEF Kept, PoolTypeOK
<1>8. \A j \in Jobs : calls[j] = (IF j \in accepted THEN 1 ELSE 0)
  BY <1>3, <1>4, <1>5, <1>6, <1>7
<1>9. \A j \in accepted : mem.destroyed[j] = 1
  BY <1>4, <1>5, <1>6, <1>7
<1>10. completed = Cardinality(accepted)
  <2>1. Uncounted = {}
    BY <1>1 DEF Uncounted
  <2> QED
    BY <1>1, <2>1, FS_EmptySet DEF Kept, PoolTypeOK, Counted
<1> QED
  BY <1>1, <1>8, <1>9, <1>10

\* shutdown() drains: once it has joined, whatever was being submitted meanwhile,
\* every accepted job was called and destroyed exactly once, no other was
\* called, and completedCount() says how many there were.
THEOREM PoolDrains == BenchSpec => []DrainedOnReturn
<1>1. Kept => DrainedOnReturn
  BY Drained DEF DrainedOnReturn
<1> QED
  BY <1>1, AlwaysKept, PTL

-----------------------------------------------------------------------------
(* The pool is the job queue                                               *)

Queued  == [i \in 1 .. tail - head |-> mem.buf[Cell(head + i - 1)]]
Running == [w \in Workers |-> mem.buf[Job(w)]]
Home    == {w \in Workers : wpc[w] = "gone"}

\* Queued is a sequence of jobs: what the cells from head to tail hold.
QueuedRight ==
    /\ Queued \in Seq(Jobs) /\ Len(Queued) = tail - head
    /\ \A i \in 1 .. tail - head : Queued[i] = mem.buf[Cell(head + i - 1)]

\* Queued lists the cells of the ring from head to tail, in that order.
LEMMA QueuedIs == ASSUME Kept PROVE QueuedRight
<1>1. head \in Nat /\ tail \in Nat /\ tail - head \in Nat
  BY DEF Kept, PoolTypeOK, Cells
<1>2. ASSUME NEW i \in 1 .. tail - head PROVE mem.buf[Cell(head + i - 1)] \in Jobs
  <2>1. head + i - 1 \in Nat /\ head <= head + i - 1 /\ head + i - 1 < tail
    BY <1>1
  <2>2. Cell(head + i - 1) \in Places /\ mem.buf[Cell(head + i - 1)] # NoJob
    BY <2>1, CellPlace DEF Kept, Cells
  <2> QED
    BY <2>2 DEF Kept, MemOK, Some
<1>3. Queued \in [1 .. tail - head -> Jobs]
  BY <1>2 DEF Queued
<1> QED
  BY <1>1, <1>3 DEF Queued, QueuedRight

\* The same for the next state.
LEMMA QueuedNext == Kept' => QueuedRight'
<1>1. Kept => QueuedRight
  BY QueuedIs
<1> QED
  BY <1>1, PTL

\* What makes two sequences one longer and one shorter.
LEMMA AppendIs ==
    ASSUME NEW S, NEW q \in Seq(S), NEW x \in S, NEW r \in Seq(S), Len(r) = Len(q) + 1,
           r[Len(q) + 1] = x, \A i \in 1 .. Len(q) : r[i] = q[i]
    PROVE  r = Append(q, x)
<1>1. Append(q, x) \in Seq(S) /\ Len(Append(q, x)) = Len(q) + 1 /\ Len(q) \in Nat
  OBVIOUS
<1>2. \A i \in 1 .. Len(q) + 1 : r[i] = Append(q, x)[i]
  OBVIOUS
<1> QED
  BY <1>1, <1>2, SeqEqual

\* A sequence one shorter and shifted by one is the tail.
LEMMA TailIs ==
    ASSUME NEW S, NEW q \in Seq(S), NEW r \in Seq(S), q # << >>, Len(r) = Len(q) - 1,
           \A i \in 1 .. Len(r) : r[i] = q[i + 1]
    PROVE  r = Tail(q)
<1>1. Tail(q) \in Seq(S) /\ Len(Tail(q)) = Len(q) - 1 /\ Len(q) \in Nat \ {0}
  OBVIOUS
<1>2. \A i \in 1 .. Len(r) : r[i] = Tail(q)[i]
  BY <1>1
<1> QED
  BY <1>1, <1>2, SeqEqual

\* A new pool is a new queue.
LEMMA InitMaps == ASSUME BenchInit PROVE Q!Init
<1>1. /\ head = 0 /\ tail = 0 /\ closed = FALSE /\ wpc = [w \in Workers |-> "pop"]
      /\ mem.buf = [p \in Places |-> NoJob]
  BY DEF BenchInit, PoolInit, NewMemory
<1>2. [i \in 1 .. tail - head |-> mem.buf[Cell(head + i - 1)]] = << >>
  BY <1>1
<1>3. [w \in Workers |-> mem.buf[Job(w)]] = [w \in Workers |-> NoJob]
  BY <1>1, OtherPlaces
<1>4. {w \in Workers : wpc[w] = "gone"} = {}
  BY <1>1
<1> QED
  BY <1>1, <1>2, <1>3, <1>4 DEF Q!Init

\* A job is accepted where its push finds room.
LEMMA PushAccepts ==
    ASSUME Kept, NEW s \in Submitters, Push(s)
    PROVE  mem.buf[Param(s)] \in Jobs /\ Q!Accept(mem.buf[Param(s)])
<1> DEFINE j == mem.buf[Param(s)]
<1>1. Moved(Cell(tail), Param(s)) /\ Kept'
  BY PushDoes, PushKept
<1>2. /\ spc[s] = "push" /\ tail' = tail + 1 /\ head' = head /\ closed' = closed /\ wpc' = wpc
      /\ tail - head < Capacity
      /\ head \in Nat /\ tail \in Nat /\ head <= tail /\ Capacity \in Nat
  BY PoolAssumption DEF Push, Room, Kept, PoolTypeOK, Cells
<1>3. j \in Jobs
  BY <1>2, OtherPlaces DEF Kept, Params, MemOK, Some
<1>4. /\ mem'.buf[Cell(tail)] = j
      /\ \A r \in Places : r # Cell(tail) /\ r # Param(s) => mem'.buf[r] = mem.buf[r]
  BY <1>1 DEF Kept, MemOK, Moved
<1> HIDE DEF j
<1>5. Queued' = Append(Queued, j)
  <2>1. /\ Queued \in Seq(Jobs) /\ Len(Queued) = tail - head
        /\ \A i \in 1 .. tail - head : Queued[i] = mem.buf[Cell(head + i - 1)]
    BY QueuedIs DEF QueuedRight
  <2>2. /\ Queued' \in Seq(Jobs) /\ Len(Queued') = tail' - head'
        /\ \A i \in 1 .. tail' - head' : Queued'[i] = mem'.buf[Cell(head' + i - 1)]
    BY <1>1, QueuedNext DEF QueuedRight
  <2>3. ASSUME NEW i \in 1 .. tail - head PROVE Queued'[i] = Queued[i]
    <3>1. /\ head + i - 1 \in Nat /\ head <= head + i - 1 /\ head + i - 1 < head + Capacity
          /\ head + i - 1 # tail /\ tail < head + Capacity
      BY <1>2
    <3>2. Cell(head + i - 1) # Cell(tail)
      BY <1>2, <3>1, CellsApart
    <3>3. mem'.buf[Cell(head + i - 1)] = mem.buf[Cell(head + i - 1)]
      BY <1>4, <3>1, <3>2, CellPlace, PlacesApart
    <3> QED
      BY <1>2, <2>1, <2>2, <3>3
  <2>4. Queued'[tail - head + 1] = j
    <3>1. head + (tail - head + 1) - 1 = tail /\ tail - head + 1 \in 1 .. tail' - head'
      BY <1>2
    <3> QED
      BY <1>2, <1>4, <2>2, <3>1
  <2> HIDE DEF Queued
  <2>5. Len(Queued') = Len(Queued) + 1
    BY <1>2, <2>1, <2>2
  <2> QED
    BY <1>2, <1>3, <2>1, <2>2, <2>3, <2>4, <2>5, AppendIs
<1>6. Len(Queued) < Capacity
  BY <1>2, QueuedIs DEF QueuedRight
<1>7. Running' = Running
  <2>1. \A w \in Workers : mem'.buf[Job(w)] = mem.buf[Job(w)]
    BY <1>4, OtherPlaces, PlacesApart
  <2> QED
    BY <2>1 DEF Running
<1>8. Home = {} /\ Home' = Home
  BY <1>2 DEF Kept, Ending, NothingLeft, InFlight, Home
<1> QED
  BY <1>2, <1>3, <1>5, <1>6, <1>7, <1>8 DEF Q!Accept, Queued, Running, Home, j

\* It is taken, oldest first, by the worker whose pop() finds it.
LEMMA PopTakes ==
    ASSUME Kept, NEW w \in Workers, Pop(w)
    PROVE  Q!Take(w)
<1> DEFINE j == mem.buf[Cell(head)]
<1>1. Moved(Job(w), Cell(head)) /\ Kept'
  BY PopDoes, PopKept
<1>2. /\ wpc[w] = "pop" /\ wpc' = [wpc EXCEPT ![w] = "call"]
      /\ head' = head + 1 /\ tail' = tail /\ closed' = closed /\ head < tail
      /\ tail <= head + Capacity
      /\ head \in Nat /\ tail \in Nat /\ Capacity \in Nat
  BY PoolAssumption DEF Pop, Kept, PoolTypeOK, Cells
<1>3. /\ mem'.buf[Job(w)] = j
      /\ \A r \in Places : r # Job(w) /\ r # Cell(head) => mem'.buf[r] = mem.buf[r]
  BY <1>1 DEF Kept, MemOK, Moved
<1>4. /\ Queued \in Seq(Jobs) /\ Len(Queued) = tail - head
      /\ \A i \in 1 .. tail - head : Queued[i] = mem.buf[Cell(head + i - 1)]
  BY QueuedIs DEF QueuedRight
<1>5. Queued # << >> /\ Head(Queued) = j
  <2>1. 1 \in 1 .. tail - head /\ head + 1 - 1 = head
    BY <1>2
  <2>2. Queued[1] = j /\ Len(Queued) > 0
    BY <1>2, <1>4, <2>1
  <2> HIDE DEF Queued, j
  <2> QED
    BY <1>4, <2>2
<1> HIDE DEF j
<1>6. Queued' = Tail(Queued)
  <2>1. /\ Queued' \in Seq(Jobs) /\ Len(Queued') = tail' - head'
        /\ \A i \in 1 .. tail' - head' : Queued'[i] = mem'.buf[Cell(head' + i - 1)]
    BY <1>1, QueuedNext DEF QueuedRight
  <2>2. ASSUME NEW i \in 1 .. tail' - head' PROVE Queued'[i] = Queued[i + 1]
    <3>1. /\ head + i \in Nat /\ head <= head + i /\ head + i < head + Capacity /\ head + i # head
          /\ head' + i - 1 = head + i /\ head + (i + 1) - 1 = head + i
          /\ i + 1 \in 1 .. tail - head /\ head < head + Capacity
      BY <1>2
    <3>2. Cell(head + i) # Cell(head)
      BY <1>2, <3>1, CellsApart
    <3>3. mem'.buf[Cell(head + i)] = mem.buf[Cell(head + i)]
      BY <1>3, <3>1, <3>2, CellPlace, PlacesApart
    <3> QED
      BY <1>4, <2>1, <3>1, <3>3
  <2> HIDE DEF Queued
  <2>3. Len(Queued') = Len(Queued) - 1
    BY <1>2, <1>4, <2>1
  <2> QED
    BY <1>4, <1>5, <2>1, <2>2, <2>3, TailIs
<1>7. Running[w] = NoJob /\ Running' = [Running EXCEPT ![w] = j]
  <2>1. mem.buf[Job(w)] = NoJob
    BY <1>1 DEF Moved
  <2>2. \A v \in Workers : v # w => mem'.buf[Job(v)] = mem.buf[Job(v)]
    BY <1>3, OtherPlaces, PlacesApart
  <2> QED
    BY <1>3, <2>1, <2>2 DEF Running
<1>8. w \notin Home /\ Home' = Home
  BY <1>2 DEF Kept, PoolTypeOK, Home
<1> QED
  BY <1>2, <1>5, <1>6, <1>7, <1>8 DEF Q!Take, Queued, Running, Home

\* A worker has finished where it drops its job.
LEMMA DropFinishes ==
    ASSUME Kept, NEW w \in Workers, Drop(w)
    PROVE  Q!Finish(w)
<1>1. Emptied(Job(w))
  BY DropDoes
<1>2. /\ wpc[w] = "drop" /\ wpc' = [wpc EXCEPT ![w] = "pop"]
      /\ UNCHANGED <<head, tail, closed>>
  BY DEF Drop, queueVars
<1>3. mem'.buf[Job(w)] = NoJob /\ \A r \in Places : r # Job(w) => mem'.buf[r] = mem.buf[r]
  BY <1>1 DEF Kept, MemOK, Emptied
<1>4. Queued' = Queued
  <2>1. \A i \in Nat : mem'.buf[Cell(i)] = mem.buf[Cell(i)]
    BY <1>3, CellPlace, PlacesApart
  <2>2. \A i \in 1 .. tail - head : head + i - 1 \in Nat
    BY DEF Kept, PoolTypeOK
  <2> QED
    BY <1>2, <2>1, <2>2 DEF Queued
<1>5. Running[w] # NoJob /\ Running' = [Running EXCEPT ![w] = NoJob]
  <2>1. mem.buf[Job(w)] # NoJob
    BY <1>2 DEF Kept, Locals, Holding
  <2>2. \A v \in Workers : v # w => mem'.buf[Job(v)] = mem.buf[Job(v)]
    BY <1>3, OtherPlaces, PlacesApart
  <2> QED
    BY <1>3, <2>1, <2>2 DEF Running
<1>6. Home' = Home
  BY <1>2 DEF Kept, PoolTypeOK, Home
<1> QED
  BY <1>2, <1>4, <1>5, <1>6 DEF Q!Finish, Queued, Running, Home

\* It goes home when it finds nothing after the shutdown.
LEMMA PopNothingGoesHome ==
    ASSUME Kept, NEW w \in Workers, PopNothing(w)
    PROVE  Q!GoHome(w)
<1>1. /\ wpc[w] = "pop" /\ wpc' = [wpc EXCEPT ![w] = "gone"]
      /\ closed /\ head = tail /\ UNCHANGED <<head, tail, closed, mem>>
  BY DEF PopNothing, queueVars, NothingLeft
<1>2. Queued = << >> /\ Queued' = Queued /\ Running' = Running
  <2>1. Len(Queued) = 0 /\ Queued \in Seq(Jobs)
    BY <1>1, QueuedIs DEF QueuedRight, Kept, PoolTypeOK
  <2>2. Queued' = Queued /\ Running' = Running
    BY <1>1 DEF Queued, Running
  <2> HIDE DEF Queued
  <2> QED
    BY <2>1, <2>2
<1>3. Running[w] = NoJob
  BY <1>1 DEF Kept, Locals, Holding, Running
<1>4. Home' = Home \cup {w}
  BY <1>1 DEF Kept, PoolTypeOK, Home
<1> QED
  BY <1>1, <1>2, <1>3, <1>4 DEF Q!GoHome, Queued, Running, Home

\* Constructing and destroying a parameter is nothing to the queue.
LEMMA ParamStutters ==
    ASSUME Kept, NEW s \in Submitters, UNCHANGED <<head, tail, closed, wpc>>,
           \A r \in Places : r # Param(s) => mem'.buf[r] = mem.buf[r]
    PROVE  UNCHANGED Q!vars
<1>1. Queued' = Queued
  <2>1. \A i \in Nat : mem'.buf[Cell(i)] = mem.buf[Cell(i)]
    BY CellPlace, PlacesApart
  <2>2. \A i \in 1 .. tail - head : head + i - 1 \in Nat
    BY DEF Kept, PoolTypeOK
  <2> QED
    BY <2>1, <2>2 DEF Queued
<1>2. Running' = Running
  <2>1. \A w \in Workers : mem'.buf[Job(w)] = mem.buf[Job(w)]
    BY OtherPlaces, PlacesApart
  <2> QED
    BY <2>1 DEF Running
<1>3. Home' = Home
  BY DEF Home
<1> QED
  BY <1>1, <1>2, <1>3 DEF Q!vars, Queued, Running, Home

\* Every step of the pool is a step of the job queue, or none.
LEMMA NextMaps ==
    ASSUME Kept, [BenchNext]_benchVars
    PROVE  [Q!Next]_(Q!vars)
<1>1. ASSUME NEW s \in Submitters, Submit(s) PROVE UNCHANGED Q!vars
  <2>1. \A r \in Places : r # Param(s) => mem'.buf[r] = mem.buf[r]
    BY <1>1, SubmitDoes DEF Constructed, Kept, MemOK
  <2> QED
    BY <1>1, <2>1, ParamStutters DEF Submit, queueVars
<1>2. ASSUME NEW s \in Submitters, Return(s) PROVE UNCHANGED Q!vars
  <2>1. \A r \in Places : r # Param(s) => mem'.buf[r] = mem.buf[r]
    BY <1>2, ReturnDoes DEF Emptied, Kept, MemOK
  <2> QED
    BY <1>2, <2>1, ParamStutters DEF Return, queueVars
<1>3. ASSUME NEW s \in Submitters, PushFull(s) \/ PushAgain(s) PROVE UNCHANGED Q!vars
  BY <1>3, ParamStutters DEF PushFull, PushAgain, queueVars
<1>4. ASSUME NEW s \in Submitters, Push(s) PROVE Q!Next
  BY <1>4, PushAccepts DEF Q!Next
<1>5. ASSUME NEW w \in Workers, Pop(w) PROVE Q!Next
  BY <1>5, PopTakes DEF Q!Next
<1>6. ASSUME NEW w \in Workers, PopNothing(w) PROVE Q!Next
  BY <1>6, PopNothingGoesHome DEF Q!Next
<1>7. ASSUME NEW w \in Workers, Drop(w) PROVE Q!Next
  BY <1>7, DropFinishes DEF Q!Next
<1>8. ASSUME NEW w \in Workers, Call(w) \/ Count(w) PROVE UNCHANGED Q!vars
  <2>1. /\ UNCHANGED <<head, tail, closed, mem>>
        /\ wpc[w] # "gone" /\ \E l \in {"count", "drop"} : wpc' = [wpc EXCEPT ![w] = l]
    BY <1>8 DEF Call, Count, queueVars
  <2>2. Home' = Home
    BY <2>1 DEF Kept, PoolTypeOK, Home
  <2> QED
    BY <2>1, <2>2 DEF Q!vars, Home
<1>9. CASE CloseQueue
  <2>1. UNCHANGED <<head, tail, mem, wpc>> /\ closed' = TRUE
    BY <1>9 DEF CloseQueue, queueVars
  <2> QED
    BY <2>1 DEF Q!Next, Q!Close
<1>10. CASE ShutdownBegin \/ Join \/ Leave \/ UNCHANGED poolVars
  <2>1. UNCHANGED <<head, tail, mem, wpc, closed>>
    BY <1>10 DEF ShutdownBegin, Join, Leave, poolVars, queueVars
  <2> QED
    BY <2>1 DEF Q!vars
<1> QED
  BY <1>1, <1>2, <1>3, <1>4, <1>5, <1>6, <1>7, <1>8, <1>9, <1>10, BenchIsPool DEF PoolStep

\* The pool as its users see it is a bounded first-in first-out queue of jobs: it
\* hands every accepted job to one worker, in order, and sends a worker home only
\* when nothing is left and nothing more can be accepted.
THEOREM PoolIsJobQueue == BenchSpec => IsJobQueue
<1>1. BenchInit => Q!Init
  BY InitMaps
<1>2. Kept /\ [BenchNext]_benchVars => [Q!Next]_(Q!vars)
  BY NextMaps
<1> QED
  BY <1>1, <1>2, AlwaysKept, PTL DEF BenchSpec, IsJobQueue, Q!Spec

-----------------------------------------------------------------------------
(* The benchmarks' slots                                                   *)

\* The slot fetch_add() returns is new, and the counter passes it.
LEMMA ClaimKeepsSlots ==
    ASSUME SlotsOK, NEW w \in Workers, ClaimSlot(w)
    PROVE  SlotsOK'
<1> DEFINE n == nextSlot[KindOf(w)]
<1>1. PICK c \in Kinds :
          /\ c = KindOf(w) /\ mySlot[w][c] = -1
          /\ mySlot' = [mySlot EXCEPT ![w][c] = n]
          /\ nextSlot' = [nextSlot EXCEPT ![c] = n + 1]
  BY DEF ClaimSlot, Counter
<1>2. /\ mySlot \in [Workers -> [Kinds -> Int]] /\ nextSlot \in [Kinds -> Nat] /\ n \in Nat
      /\ \A k \in Kinds : nextSlot[k] = Cardinality(Claimed(k))
  BY <1>1 DEF SlotsOK
<1> HIDE DEF n
<1>3. mySlot' \in [Workers -> [Kinds -> Int]] /\ nextSlot' \in [Kinds -> Nat]
  BY <1>1, <1>2
<1>4. /\ mySlot'[w][c] = n /\ nextSlot'[c] = n + 1
      /\ \A v \in Workers : v # w => mySlot'[v][c] = mySlot[v][c]
      /\ \A k \in Kinds : k # c => nextSlot'[k] = nextSlot[k]
      /\ \A v \in Workers, k \in Kinds : k # c => mySlot'[v][k] = mySlot[v][k]
  BY <1>1, <1>2
<1>5. ASSUME NEW k \in Kinds, k # c
      PROVE  /\ nextSlot'[k] = Cardinality(Claimed(k)')
             /\ \A v \in Claimed(k)' : mySlot'[v][k] \in Nat /\ mySlot'[v][k] < nextSlot'[k]
             /\ \A u, v \in Claimed(k)' : mySlot'[u][k] = mySlot'[v][k] => u = v
  <2>1. Claimed(k)' = Claimed(k)
    BY <1>4, <1>5 DEF Claimed
  <2>2. \A v \in Claimed(k) : mySlot'[v][k] = mySlot[v][k]
    BY <1>4, <1>5 DEF Claimed
  <2> QED
    BY <1>2, <1>4, <1>5, <2>1, <2>2 DEF SlotsOK
<1>6. /\ nextSlot'[c] = Cardinality(Claimed(c)')
      /\ \A v \in Claimed(c)' : mySlot'[v][c] \in Nat /\ mySlot'[v][c] < nextSlot'[c]
      /\ \A u, v \in Claimed(c)' : mySlot'[u][c] = mySlot'[v][c] => u = v
  <2>1. Claimed(c)' = Claimed(c) \cup {w} /\ w \notin Claimed(c)
    BY <1>1, <1>2, <1>4 DEF Claimed
  <2>2. Cardinality(Claimed(c)') = n + 1
    <3>1. IsFiniteSet(Claimed(c))
      BY PoolAssumption, FS_Subset DEF Claimed
    <3>2. n = Cardinality(Claimed(c))
      BY <1>1, <1>2 DEF n
    <3> QED
      BY <2>1, <3>1, <3>2, FS_AddElement
  <2>3. /\ \A v \in Claimed(c) : mySlot[v][c] \in Nat /\ mySlot[v][c] < n
        /\ \A u, v \in Claimed(c) : mySlot[u][c] = mySlot[v][c] => u = v
    BY <1>1 DEF SlotsOK, n
  <2>4. \A v \in Claimed(c) : mySlot'[v][c] = mySlot[v][c]
    BY <1>4, <2>1 DEF Claimed
  <2>5. \A v \in Claimed(c)' : v = w \/ v \in Claimed(c)
    BY <2>1
  <2>6. \A v \in Claimed(c) : mySlot'[v][c] \in Nat /\ mySlot'[v][c] < n
    BY <2>3, <2>4
  <2>7. \A v \in Claimed(c)' : mySlot'[v][c] \in Nat /\ mySlot'[v][c] < nextSlot'[c]
    BY <1>2, <1>4, <2>5, <2>6
  <2>8. ASSUME NEW u \in Claimed(c)', NEW v \in Claimed(c)', mySlot'[u][c] = mySlot'[v][c]
        PROVE  u = v
    <3>1. CASE u = w
      BY <1>2, <1>4, <2>5, <2>6, <2>8, <3>1
    <3>2. CASE v = w
      BY <1>2, <1>4, <2>5, <2>6, <2>8, <3>2
    <3>3. CASE u # w /\ v # w
      BY <2>3, <2>4, <2>5, <2>8, <3>3
    <3> QED
      BY <3>1, <3>2, <3>3
  <2> QED
    BY <1>4, <2>2, <2>7, <2>8
<1> QED
  BY <1>3, <1>5, <1>6 DEF SlotsOK

\* No other step touches the slots' owners.
LEMMA NextSlots == ASSUME SlotsOK, [BenchNext]_benchVars PROVE SlotsOK'
<1>1. CASE UNCHANGED <<mySlot, nextSlot>>
  BY <1>1 DEF SlotsOK, Claimed
<1>2. ASSUME NEW w \in Workers, WorkerStep(w)
      PROVE  ClaimSlot(w) \/ UNCHANGED <<mySlot, nextSlot>>
  BY <1>2 DEF WorkerStep, Record, CallPlain
<1>3. CASE OwnerMove
  BY <1>1, <1>3 DEF OwnerMove, ReadSamples, LeaveScope
<1>4. ASSUME NEW s \in Submitters, SubmitMove(s) PROVE UNCHANGED <<mySlot, nextSlot>>
  BY <1>4 DEF SubmitMove
<1>5. CASE UNCHANGED benchVars
  BY <1>1, <1>5 DEF benchVars
<1>6. ASSUME NEW w \in Workers, ClaimSlot(w) PROVE SlotsOK'
  BY <1>6, ClaimKeepsSlots
<1> QED
  BY <1>1, <1>2, <1>3, <1>4, <1>5, <1>6 DEF BenchNext

\* The fetch_add on the counter gives every worker a slot of its own, and never
\* one past the end of the vector: however many workers claim at once, no two of
\* them write into one buffer.
THEOREM BenchmarkSlotsExclusive == BenchSpec => []SlotsExclusive
<1>1. ASSUME BenchInit PROVE SlotsOK
  <2>1. \A k \in Kinds : Claimed(k) = {}
    BY <1>1 DEF BenchInit, Claimed
  <2>2. mySlot \in [Workers -> [Kinds -> Int]] /\ nextSlot \in [Kinds -> Nat]
    BY <1>1 DEF BenchInit
  <2>3. \A k \in Kinds : nextSlot[k] = 0
    BY <1>1 DEF BenchInit
  <2> QED
    BY <2>1, <2>2, <2>3, FS_EmptySet DEF SlotsOK
<1>2. SlotsOK /\ [BenchNext]_benchVars => SlotsOK'
  BY NextSlots
<1>3. ASSUME SlotsOK PROVE SlotsExclusive
  <2> SUFFICES ASSUME NEW k \in Kinds, NEW w \in Workers
               PROVE  /\ mySlot[w][k] < NumThreads
                      /\ mySlot[w][k] # -1 =>
                             \A v \in Workers \ {w} : mySlot[v][k] # mySlot[w][k]
    BY DEF SlotsExclusive
  <2>1. NumThreads \in Nat /\ Cardinality(Claimed(k)) <= NumThreads
    BY PoolAssumption, FS_CardinalityType, FS_Subset DEF NumThreads, Claimed
  <2>2. CASE mySlot[w][k] = -1
    BY <2>1, <2>2
  <2>3. CASE mySlot[w][k] # -1
    <3>1. w \in Claimed(k) /\ nextSlot[k] = Cardinality(Claimed(k)) /\ nextSlot[k] \in Nat
      BY <1>3, <2>3 DEF SlotsOK, Claimed
    <3>2. mySlot[w][k] \in Nat /\ mySlot[w][k] < nextSlot[k]
      BY <1>3, <3>1 DEF SlotsOK
    <3>3. \A v \in Workers \ {w} : mySlot[v][k] # mySlot[w][k]
      BY <1>3, <2>3, <3>1 DEF SlotsOK, Claimed
    <3> QED
      BY <2>1, <3>1, <3>2, <3>3
  <2> QED
    BY <2>2, <2>3
<1> QED
  BY <1>1, <1>2, <1>3, PTL DEF BenchSpec

-----------------------------------------------------------------------------
(* The benchmarks' samples                                                 *)

\* The jobs of the owner.
Given(list) == {list[Owner][i] : i \in DOMAIN list[Owner]}

\* No push of the owner is ever refused: it shuts the pool down after the last.
Served ==
    /\ opc = "submit" => ~closed
    /\ opc # "submit" => shuttingDown /\ todo[Owner] = << >> /\ spc[Owner] = "idle"
    /\ \A j \in Given(program.todo) :
           \/ j \in Given(todo)
           \/ j \in accepted
           \/ spc[Owner] \in {"push", "full"} /\ mem.buf[Param(Owner)] = j

SlotNumbers == 0 .. NumThreads - 1

\* A called job that records its latency is in one slot of its kind.
Tallied ==
    /\ slots \in [Kinds -> [SlotNumbers -> SUBSET Jobs]]
    /\ \A k \in Kinds :
           /\ \A j \in Jobs : (\E i \in SlotNumbers : j \in slots[k][i])
                              <=> calls[j] > 0 /\ j.kind = k
           /\ \A i, l \in SlotNumbers : i # l => slots[k][i] \cap slots[k][l] = {}

OfKind(k) == {j \in Mine : j.kind = k}

\* What the owner has read is complete.
Reported ==
    ~locals => /\ opc \in {"joined", "destroy", "end"}
               /\ \A k \in Kinds : samples[k] = Cardinality(OfKind(k))

\* A step that is not the owner's leaves its jobs where they are.
LEMMA ServedStays ==
    ASSUME Served, UNCHANGED <<program, closed, shuttingDown, opc>>,
           todo'[Owner] = todo[Owner], spc'[Owner] = spc[Owner],
           mem'.buf[Param(Owner)] = mem.buf[Param(Owner)], accepted \subseteq accepted'
    PROVE  Served'
  BY DEF Served, Given

\* submit() of the owner finds the queue open.
LEMMA SubmitServed ==
    ASSUME Kept, Served, NEW s \in Submitters, Submit(s)
    PROVE  Served'
<1>1. /\ todo' = [todo EXCEPT ![s] = Tail(@)] /\ todo[s] # << >> /\ spc[s] = "idle"
      /\ spc' = [spc EXCEPT ![s] = IF closed THEN "return" ELSE "push"]
      /\ UNCHANGED <<program, closed, shuttingDown, opc, accepted>>
      /\ todo \in [Submitters -> Seq(Jobs)] /\ DOMAIN spc = Submitters
  BY DEF Submit, ownerVars, Kept, PoolTypeOK
<1>2. Owner \in Submitters
  BY PoolAssumption
<1>3. mem'.buf = [mem.buf EXCEPT ![Param(s)] = Head(todo[s])] /\ DOMAIN mem.buf = Places
  BY SubmitDoes DEF Constructed, Kept, MemOK
<1>4. CASE s # Owner
  <2>1. mem'.buf[Param(Owner)] = mem.buf[Param(Owner)]
    BY <1>2, <1>3, <1>4, PlacesApart, OtherPlaces
  <2> QED
    BY <1>1, <1>2, <1>4, <2>1, ServedStays
<1>5. CASE s = Owner
  <2>1. opc = "submit" /\ ~closed
    BY <1>1, <1>5 DEF Served
  <2>2. mem'.buf[Param(Owner)] = Head(todo[Owner]) /\ spc'[Owner] = "push"
    BY <1>1, <1>2, <1>3, <1>5, <2>1, OtherPlaces
  <2>3. ASSUME NEW j \in Given(todo), j # Head(todo[Owner]) PROVE j \in Given(todo')
    <3>1. PICK i \in DOMAIN todo[Owner] : j = todo[Owner][i]
      BY DEF Given
    <3>2. i \in 2 .. Len(todo[Owner]) /\ todo[Owner] \in Seq(Jobs)
      BY <1>1, <1>2, <2>3, <3>1
    <3>3. todo'[Owner] = Tail(todo[Owner])
      BY <1>1, <1>2, <1>5
    <3>4. i - 1 \in DOMAIN todo'[Owner] /\ todo'[Owner][i - 1] = j
      BY <3>1, <3>2, <3>3
    <3> QED
      BY <3>4 DEF Given
  <2>4. ASSUME NEW j \in Given(program.todo)
        PROVE  j \in Given(todo') \/ j \in accepted \/ j = Head(todo[Owner])
    BY <1>1, <1>5, <2>3 DEF Served
  <2> QED
    BY <1>1, <2>1, <2>2, <2>4 DEF Served
<1> QED
  BY <1>4, <1>5

\* push() of the owner ends with the job in the ring.
LEMMA PushServed ==
    ASSUME Kept, Served, NEW s \in Submitters,
           Push(s) \/ PushFull(s) \/ PushAgain(s) \/ Return(s)
    PROVE  Served'
<1>1. /\ UNCHANGED <<program, todo, closed, shuttingDown, opc>> /\ accepted \subseteq accepted'
      /\ spc[s] # "idle" /\ \E l \in {"return", "full", "push", "idle"} : spc' = [spc EXCEPT ![s] = l]
      /\ DOMAIN spc = Submitters /\ Owner \in Submitters
  BY PoolAssumption DEF Push, PushFull, PushAgain, Return, ownerVars, Kept, PoolTypeOK
<1>2. \A t \in Submitters : t # s => mem'.buf[Param(t)] = mem.buf[Param(t)]
  <2>1. CASE Push(s)
    <3>1. /\ mem'.buf = [mem.buf EXCEPT ![Cell(tail)] = mem.buf[Param(s)], ![Param(s)] = NoJob]
          /\ DOMAIN mem.buf = Places /\ tail \in Nat
      BY <2>1, PushDoes DEF Moved, Kept, MemOK, PoolTypeOK
    <3> QED
      BY <3>1, PlacesApart, OtherPlaces
  <2>2. CASE PushFull(s) \/ PushAgain(s)
    BY <2>2 DEF PushFull, PushAgain
  <2>3. CASE Return(s)
    <3>1. mem'.buf = [mem.buf EXCEPT ![Param(s)] = NoJob] /\ DOMAIN mem.buf = Places
      BY <2>3, ReturnDoes DEF Emptied, Kept, MemOK
    <3> QED
      BY <3>1, PlacesApart, OtherPlaces
  <2> QED
    BY <2>1, <2>2, <2>3
<1>3. CASE s # Owner
  BY <1>1, <1>2, <1>3, ServedStays
<1>4. CASE s = Owner
  <2>1. opc = "submit" /\ ~closed
    BY <1>1, <1>4 DEF Served
  <2>2. CASE Push(s)
    <3>1. accepted' = accepted \cup {mem.buf[Param(Owner)]}
      BY <1>4, <2>2 DEF Push
    <3> QED
      BY <1>1, <2>1, <3>1 DEF Served, Given
  <2>3. CASE PushFull(s) \/ PushAgain(s)
    <3>1. spc'[Owner] \in {"push", "full"} /\ UNCHANGED <<mem, accepted>>
      BY <1>1, <1>4, <2>1, <2>3 DEF PushFull, PushAgain
    <3> QED
      BY <1>1, <2>1, <3>1 DEF Served, Given
  <2>4. CASE Return(s)
    <3>1. spc[Owner] = "return" /\ accepted' = accepted
      BY <1>4, <2>4 DEF Return
    <3> QED
      BY <1>1, <2>1, <3>1 DEF Served, Given
  <2> QED
    BY <2>2, <2>3, <2>4
<1> QED
  BY <1>3, <1>4

\* The workers never touch a parameter of push().
LEMMA WorkServed ==
    ASSUME Kept, Served, NEW w \in Workers,
           Pop(w) \/ PopNothing(w) \/ Call(w) \/ Count(w) \/ Drop(w)
    PROVE  Served'
<1>1. UNCHANGED <<program, todo, closed, shuttingDown, opc, accepted, spc>> /\ Owner \in Submitters
  BY PoolAssumption DEF Pop, PopNothing, Call, Count, Drop, ownerVars
<1>2. mem'.buf[Param(Owner)] = mem.buf[Param(Owner)]
  <2>1. CASE Pop(w)
    <3>1. /\ mem'.buf = [mem.buf EXCEPT ![Job(w)] = mem.buf[Cell(head)], ![Cell(head)] = NoJob]
          /\ DOMAIN mem.buf = Places /\ head \in Nat
      BY <2>1, PopDoes DEF Moved, Kept, MemOK, PoolTypeOK
    <3> QED
      BY <1>1, <3>1, PlacesApart, OtherPlaces
  <2>2. CASE Drop(w)
    <3>1. mem'.buf = [mem.buf EXCEPT ![Job(w)] = NoJob] /\ DOMAIN mem.buf = Places
      BY <2>2, DropDoes DEF Emptied, Kept, MemOK
    <3> QED
      BY <1>1, <3>1, PlacesApart, OtherPlaces
  <2>3. CASE PopNothing(w) \/ Call(w) \/ Count(w)
    BY <2>3 DEF PopNothing, Call, Count
  <2> QED
    BY <2>1, <2>2, <2>3
<1> QED
  BY <1>1, <1>2, ServedStays

\* The owner shuts the pool down when it has nothing more to submit.
LEMMA NextServed == ASSUME Kept, Served, PoolStep PROVE Served'
<1>1. CASE ShutdownBegin
  <2>1. /\ UNCHANGED <<program, todo, mem, spc, accepted, closed>>
        /\ opc \in {"submit", "destroy"} /\ opc' \in {"end", "close"} /\ shuttingDown'
        /\ todo[Owner] = << >> /\ spc[Owner] = "idle"
    BY <1>1, PoolAssumption DEF ShutdownBegin, queueVars
  <2> QED
    BY <2>1 DEF Served, Given
<1>2. CASE CloseQueue \/ Join \/ Leave
  <2>1. /\ UNCHANGED <<program, todo, mem, spc, accepted, shuttingDown>>
        /\ opc # "submit" /\ opc' # "submit"
    BY <1>2 DEF CloseQueue, Join, Leave, queueVars
  <2> QED
    BY <2>1 DEF Served, Given
<1>3. CASE UNCHANGED poolVars
  BY <1>3, ServedStays DEF poolVars, ownerVars
<1> QED
  BY <1>1, <1>2, <1>3, SubmitServed, PushServed, WorkServed DEF PoolStep

\* A job records its latency when it is called, in one slot, and is called once.
LEMMA RecordTallied ==
    ASSUME Kept, Tallied, NEW w \in Workers, Record(w)
    PROVE  Tallied'
<1> DEFINE j == mem.buf[Job(w)]
           n == mySlot[w][j.kind]
<1>1. /\ wpc[w] = "call" /\ j.kind \in Kinds /\ n \in SlotNumbers
      /\ slots' = [slots EXCEPT ![j.kind][n] = @ \cup {j}]
      /\ calls' = [calls EXCEPT ![j] = @ + 1]
  BY DEF Record, KindOf, Call, SlotNumbers
<1>2. j \in Jobs /\ calls[j] = 0 /\ calls \in [Jobs -> Nat]
  <2>1. j \in accepted /\ calls[j] = 0
    BY <1>1 DEF Kept, Locals, Holding
  <2> QED
    BY <2>1, MineJobs DEF Kept, PoolTypeOK
<1> HIDE DEF j, n
<1>3. PICK c \in Kinds : c = j.kind
  BY <1>1
<1>4. slots \in [Kinds -> [SlotNumbers -> SUBSET Jobs]]
  BY DEF Tallied
<1>5. slots' \in [Kinds -> [SlotNumbers -> SUBSET Jobs]]
  BY <1>1, <1>2, <1>3, <1>4
<1>6. /\ slots'[c][n] = slots[c][n] \cup {j}
      /\ \A i \in SlotNumbers : i # n => slots'[c][i] = slots[c][i]
      /\ \A k \in Kinds : k # c => slots'[k] = slots[k]
  BY <1>1, <1>3, <1>4
<1>7. calls'[j] > 0 /\ \A i \in Jobs : i # j => calls'[i] = calls[i]
  BY <1>1, <1>2
<1>8. \A i \in SlotNumbers : j \notin slots[c][i]
  BY <1>2 DEF Tallied
<1>9. ASSUME NEW k \in Kinds
      PROVE  /\ \A y \in Jobs : (\E i \in SlotNumbers : y \in slots'[k][i])
                                <=> calls'[y] > 0 /\ y.kind = k
             /\ \A i, l \in SlotNumbers : i # l => slots'[k][i] \cap slots'[k][l] = {}
  <2>1. /\ \A y \in Jobs : (\E i \in SlotNumbers : y \in slots[k][i]) <=> calls[y] > 0 /\ y.kind = k
        /\ \A i, l \in SlotNumbers : i # l => slots[k][i] \cap slots[k][l] = {}
    BY DEF Tallied
  <2>2. CASE k # c
    <3>1. slots'[k] = slots[k] /\ j.kind # k
      BY <1>3, <1>6, <2>2
    <3> QED
      BY <1>2, <1>7, <2>1, <3>1
  <2>3. CASE k = c
    <3>1. ASSUME NEW y \in Jobs, y # j
          PROVE  (\E i \in SlotNumbers : y \in slots'[k][i]) <=> (\E i \in SlotNumbers : y \in slots[k][i])
      BY <1>6, <2>3, <3>1
    <3>2. \E i \in SlotNumbers : j \in slots'[k][i]
      BY <1>1, <1>6, <2>3
    <3>3. \A y \in Jobs : (\E i \in SlotNumbers : y \in slots'[k][i]) <=> calls'[y] > 0 /\ y.kind = k
      BY <1>3, <1>7, <2>1, <2>3, <3>1, <3>2
    <3>4. ASSUME NEW i \in SlotNumbers, NEW l \in SlotNumbers, i # l
          PROVE  slots'[k][i] \cap slots'[k][l] = {}
      BY <1>6, <1>8, <2>1, <2>3, <3>4
    <3> QED
      BY <3>3, <3>4
  <2> QED
    BY <2>2, <2>3
<1> QED
  BY <1>5, <1>9 DEF Tallied

\* No other step calls a job that records anything.
LEMMA NextTallied == ASSUME Kept, Tallied, [BenchNext]_benchVars PROVE Tallied'
<1>1. ASSUME UNCHANGED <<slots, calls>> PROVE Tallied'
  BY <1>1 DEF Tallied
<1>2. ASSUME NEW w \in Workers, CallPlain(w) PROVE Tallied'
  <2> DEFINE j == mem.buf[Job(w)]
  <2>1. j.kind \notin Kinds /\ calls' = [calls EXCEPT ![j] = @ + 1] /\ slots' = slots
    BY <1>2 DEF CallPlain, KindOf, Call
  <2>2. calls \in [Jobs -> Nat]
    BY DEF Kept, PoolTypeOK
  <2> HIDE DEF j
  <2>3. \A i \in Jobs : i # j => calls'[i] = calls[i]
    BY <2>1, <2>2
  <2>4. ASSUME NEW k \in Kinds, NEW i \in Jobs
        PROVE  calls'[i] > 0 /\ i.kind = k <=> calls[i] > 0 /\ i.kind = k
    BY <2>1, <2>3
  <2> QED
    BY <2>1, <2>4 DEF Tallied
<1>3. ASSUME NEW w \in Workers, WorkerStep(w)
      PROVE  Record(w) \/ CallPlain(w) \/ UNCHANGED <<slots, calls>>
  BY <1>3 DEF WorkerStep, ClaimSlot, poolVars, Pop, PopNothing, Count, Drop
<1>4. ASSUME NEW s \in Submitters, SubmitMove(s) PROVE UNCHANGED <<slots, calls>>
  BY <1>4 DEF SubmitMove, SubmitStep, Submit, Push, PushFull, PushAgain, Return
<1>5. ASSUME OwnerMove PROVE UNCHANGED <<slots, calls>>
  BY <1>5 DEF OwnerMove, ReadSamples, LeaveScope, Leave, OwnerStep, ShutdownBegin, CloseQueue, Join,
              poolVars
<1>6. ASSUME UNCHANGED benchVars PROVE UNCHANGED <<slots, calls>>
  BY <1>6 DEF benchVars, poolVars
<1> QED
  BY <1>1, <1>2, <1>3, <1>4, <1>5, <1>6, RecordTallied DEF BenchNext

\* The jobs of a kind are all the owner's, and all accepted once it is done.
LEMMA KindAccepted ==
    ASSUME Kept, Served, opc # "submit", NEW k \in Kinds
    PROVE  OfKind(k) \subseteq accepted
<1> SUFFICES ASSUME NEW j \in Mine, j.kind = k PROVE j \in accepted
  BY DEF OfKind
<1>1. PICK s \in Submitters : \E i \in DOMAIN program.todo[s] : program.todo[s][i] = j
  BY JobsOfMember DEF Mine
<1>2. s = Owner
  BY <1>1, BenchAssumption DEF Kept, PoolTypeOK
<1>3. j \in Given(program.todo)
  BY <1>1, <1>2 DEF Given
<1>4. Given(todo) = {} /\ spc[Owner] = "idle"
  BY DEF Served, Given
<1> QED
  BY <1>3, <1>4 DEF Served

\* After the join, the slots hold every job of the kind, and nothing else.
LEMMA SlotsFull ==
    ASSUME Kept, Served, Tallied, opc = "joined", NEW k \in Kinds
    PROVE  MapThenSumSet(LAMBDA i : Cardinality(slots[k][i]), SlotNumbers) = Cardinality(OfKind(k))
<1>1. /\ \A j \in Jobs : calls[j] = (IF j \in accepted THEN 1 ELSE 0)
      /\ accepted \subseteq Mine /\ IsFiniteSet(accepted) /\ Mine \subseteq Jobs
      /\ program \in Programs
  BY Drained, MineJobs DEF Kept, PoolTypeOK
<1>2. OfKind(k) \subseteq accepted
  BY KindAccepted
<1>3. UNION {slots[k][i] : i \in SlotNumbers} = OfKind(k)
  <2>1. ASSUME NEW j \in OfKind(k) PROVE j \in UNION {slots[k][i] : i \in SlotNumbers}
    <3>1. j \in Jobs /\ j.kind = k /\ calls[j] > 0
      BY <1>1, <1>2 DEF OfKind
    <3> QED
      BY <3>1 DEF Tallied
  <2>2. ASSUME NEW i \in SlotNumbers, NEW j \in slots[k][i] PROVE j \in OfKind(k)
    <3>1. j \in Jobs
      BY DEF Tallied
    <3>2. calls[j] > 0 /\ j.kind = k
      BY <3>1 DEF Tallied
    <3> QED
      BY <1>1, <3>1, <3>2 DEF OfKind
  <2> QED
    BY <2>1, <2>2
<1>4. \A i \in SlotNumbers : IsFiniteSet(slots[k][i])
  <2>1. \A i \in SlotNumbers : slots[k][i] \subseteq accepted
    BY <1>2, <1>3
  <2> QED
    BY <1>1, <2>1, FS_Subset
<1>5. IsFiniteSet(SlotNumbers)
  <2>1. NumThreads \in Nat
    BY PoolAssumption, FS_CardinalityType DEF NumThreads
  <2>2. 0 \in Int /\ NumThreads - 1 \in Int
    BY <2>1
  <2> QED
    BY <2>2, FS_Interval DEF SlotNumbers
<1>6. \A i, l \in SlotNumbers : i # l => slots[k][i] \cap slots[k][l] = {}
  BY DEF Tallied
<1>7. SizeTotal(slots[k], SlotNumbers) = Cardinality(UNION {slots[k][i] : i \in SlotNumbers})
  BY <1>4, <1>5, <1>6, SizeSum
<1>8. SizeTotal(slots[k], SlotNumbers) = Cardinality(OfKind(k))
  BY <1>3, <1>7
<1> QED
  BY <1>8 DEF SizeTotal

\* What the owner reads it reads after the join, and nothing comes back to life.
LEMMA NextReported ==
    ASSUME Kept, Served, Tallied, Reported, [BenchNext]_benchVars
    PROVE  Reported'
<1>1. CASE ReadSamples
  <2>1. /\ opc = "joined" /\ UNCHANGED <<opc, program>>
        /\ samples' = [k \in Kinds |->
               MapThenSumSet(LAMBDA i : Cardinality(slots[k][i]), SlotNumbers)]
    BY <1>1 DEF ReadSamples, ResultsReady, poolVars, ownerVars, SlotNumbers
  <2>2. \A k \in Kinds : samples'[k] = Cardinality(OfKind(k))
    BY <2>1, SlotsFull
  <2>3. \A k \in Kinds : OfKind(k)' = OfKind(k)
    BY <2>1 DEF OfKind, Mine
  <2> QED
    BY <2>1, <2>2, <2>3 DEF Reported
<1>2. ASSUME ~ReadSamples PROVE UNCHANGED <<locals, samples>>
  BY <1>2 DEF BenchNext, OwnerMove, LeaveScope, SubmitMove, WorkerStep, ClaimSlot, Record,
              CallPlain, benchVars
<1>3. /\ program' = program
      /\ opc \in {"joined", "destroy", "end"} => opc' \in {"joined", "destroy", "end"}
  <2>1. CASE ShutdownBegin
    BY <2>1 DEF ShutdownBegin, Served
  <2>2. CASE CloseQueue \/ Join \/ Leave \/ UNCHANGED poolVars
    BY <2>2 DEF CloseQueue, Join, Leave, poolVars, ownerVars
  <2>3. ASSUME NEW s \in Submitters, Submit(s) \/ Push(s) \/ PushFull(s) \/ PushAgain(s) \/ Return(s)
        PROVE  UNCHANGED <<program, opc>>
    BY <2>3 DEF Submit, Push, PushFull, PushAgain, Return, ownerVars
  <2>4. ASSUME NEW w \in Workers, Pop(w) \/ PopNothing(w) \/ Call(w) \/ Count(w) \/ Drop(w)
        PROVE  UNCHANGED <<program, opc>>
    BY <2>4 DEF Pop, PopNothing, Call, Count, Drop, ownerVars
  <2> QED
    BY <2>1, <2>2, <2>3, <2>4, BenchIsPool DEF PoolStep
<1>4. CASE ~ReadSamples
  <2>1. \A k \in Kinds : OfKind(k)' = OfKind(k)
    BY <1>3 DEF OfKind, Mine
  <2> QED
    BY <1>2, <1>3, <1>4, <2>1 DEF Reported
<1> QED
  BY <1>1, <1>4

\* The three hold to begin with.
LEMMA InitReported == ASSUME BenchInit PROVE Served /\ Tallied /\ Reported
<1>1. /\ PoolInit /\ locals = TRUE /\ slots = [k \in Kinds |-> [i \in SlotNumbers |-> {}]]
      /\ opc = "submit" /\ closed = FALSE /\ todo = program.todo /\ calls = [j \in Jobs |-> 0]
  BY DEF BenchInit, PoolInit, SlotNumbers
<1>2. Served
  BY <1>1 DEF Served
<1>3. Tallied
  BY <1>1 DEF Tallied
<1> QED
  BY <1>1, <1>2, <1>3 DEF Reported

\* Every percentile is looked for inside the samples.
LEMMA PercentileInside ==
    ASSUME NEW n \in Nat, n > 0
    PROVE  \A p \in {500, 990, 999} : PctIndex(p, n) \in 0 .. n - 1
  BY DEF PctIndex

\* The statistics of both benchmarks are over one latency per order: the owner
\* reads the slots when no job runs any more, and every order it submitted was
\* accepted, called and recorded in exactly one of them.
THEOREM BenchmarkSamplesComplete == BenchSpec => []SamplesComplete
<1>1. BenchInit => Served /\ Tallied /\ Reported
  BY InitReported
<1>2. Kept /\ Served /\ Tallied /\ Reported /\ [BenchNext]_benchVars
         => Served' /\ Tallied' /\ Reported'
  BY BenchIsPool, NextServed, NextTallied, NextReported
<1>3. ASSUME Kept, Served, Reported, ~locals
      PROVE  /\ \A w \in Workers : wpc[w] # "call"
             /\ \A k \in Kinds :
                    LET n == Cardinality({j \in JobsOf(program.todo) : j.kind = k})
                    IN  /\ samples[k] = n
                        /\ n > 0 => \A p \in {500, 990, 999} : PctIndex(p, samples[k]) \in 0 .. n - 1
  <2>1. /\ opc \in {"joined", "destroy", "end"}
        /\ \A k \in Kinds : samples[k] = Cardinality(OfKind(k))
    BY <1>3 DEF Reported
  <2>2. \A w \in Workers : wpc[w] = "gone"
    BY <1>3, <2>1, Drained
  <2>3. ASSUME NEW k \in Kinds PROVE Cardinality(OfKind(k)) \in Nat
    <3>1. OfKind(k) \subseteq accepted
      BY <1>3, <2>1, KindAccepted
    <3> QED
      BY <1>3, <3>1, FS_Subset, FS_CardinalityType DEF Kept, PoolTypeOK
  <2>4. ASSUME NEW k \in Kinds
        PROVE  Cardinality(OfKind(k)) > 0 =>
                   \A p \in {500, 990, 999} : PctIndex(p, samples[k]) \in 0 .. Cardinality(OfKind(k)) - 1
    BY <2>1, <2>3, PercentileInside
  <2> QED
    BY <2>1, <2>2, <2>4 DEF OfKind, Mine
<1>4. Kept /\ Served /\ Reported => SamplesComplete
  BY <1>3 DEF SamplesComplete
<1> QED
  BY <1>1, <1>2, <1>4, AlwaysKept, PTL DEF BenchSpec
=============================================================================
