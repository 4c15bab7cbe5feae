---------------------------- MODULE TaskQueueProofs ----------------------------
(***************************************************************************)
(* The mutex queue is a job queue and loses no wake-up, for any (finite)   *)
(* number of producers and workers and any capacity.                       *)
(***************************************************************************)
EXTENDS TaskQueue, FiniteSetTheorems, TLAPS

Labels == {"idle", "entered", "waiting", "woken", "notify", "busy", "gone"}

TypeOK ==
    /\ queue    \in Seq(Items)
    /\ shutdown \in BOOLEAN
    /\ pc       \in [Threads -> Labels]
    /\ item     \in [Threads -> Items \cup {NoItem}]
    /\ accepted \in Nat

\* Who holds an item: a producer until it is enqueued, a worker from the
\* dequeue until the job is done.
Holds ==
    /\ \A p \in Producers : pc[p] \in {"entered", "waiting", "woken"} => item[p] \in Items
    /\ \A w \in Workers : pc[w] \in {"notify", "busy"} <=> item[w] # NoItem

\* A worker has gone home only from a queue that is shut down and drained.
GoneAtEnd == \A w \in Workers : pc[w] = "gone" => shutdown /\ queue = << >>

Orderly == TypeOK /\ Holds /\ GoneAtEnd

-----------------------------------------------------------------------------
(* The queue keeps its items, and is a job queue                           *)

\* notify_one() moves the caller to its next label and at most one waiting
\* thread of the other side to "woken".
LEMMA NotifyOneStep ==
    ASSUME TypeOK, NEW t \in Threads, NEW S \in SUBSET Threads, NEW label \in Labels,
           pc[t] = "notify", NotifyOne(t, S, label)
    PROVE  /\ pc' \in [Threads -> Labels]
           /\ pc'[t] = label
           /\ \A u \in Threads : u # t =>
                 pc'[u] = pc[u] \/ (pc[u] = "waiting" /\ pc'[u] = "woken")
  BY DEF TypeOK, Labels, NotifyOne, Waiting, Goto

\* Every step of the queue keeps the items where they belong.
LEMMA NextOrderly == Orderly /\ [Next]_vars => Orderly'
<1> SUFFICES ASSUME Orderly, [Next]_vars PROVE Orderly'
  OBVIOUS
<1> USE TaskQueueAssumption DEF Orderly, TypeOK, Holds, GoneAtEnd, Labels, Threads
<1>1. ASSUME NEW p \in Producers, NEW x \in Items, Push(p, x) PROVE Orderly'
  BY <1>1 DEF Push, Goto
<1>2. ASSUME NEW p \in Producers, PushWait(p) \/ PushRefused(p) PROVE Orderly'
  BY <1>2 DEF PushWait, PushRefused, Goto, Ready
<1>3. ASSUME NEW p \in Producers, PushEnqueue(p) PROVE Orderly'
  BY <1>3 DEF PushEnqueue, Enqueue, Goto, Ready
<1>4. ASSUME NEW p \in Producers, PushNotify(p) PROVE Orderly'
  BY <1>4, NotifyOneStep DEF PushNotify
<1>5. ASSUME NEW w \in Workers, Pop(w) \/ PopWait(w) \/ PopNothing(w) PROVE Orderly'
  BY <1>5 DEF Pop, PopWait, PopNothing, Goto, Ready
<1>6. ASSUME NEW w \in Workers, PopDequeue(w) PROVE Orderly'
  BY <1>6 DEF PopDequeue, Goto, Ready
<1>7. ASSUME NEW w \in Workers, PopNotify(w) PROVE Orderly'
  BY <1>7, NotifyOneStep DEF PopNotify
<1>8. ASSUME NEW w \in Workers, JobDone(w) PROVE Orderly'
  BY <1>8 DEF JobDone, Goto
<1>9. ASSUME NEW t \in Threads, SpuriousWake(t) PROVE Orderly'
  BY <1>9 DEF SpuriousWake, Goto
<1>10. CASE Shutdown
  BY <1>10 DEF Shutdown
<1>11. CASE Closing
  BY <1>11 DEF Closing, ShutdownNotEmpty, ShutdownNotFull, NotifyAll, Waiting
<1>12. CASE UNCHANGED vars
  BY <1>12 DEF vars
<1> HIDE DEF Orderly, TypeOK, Holds, GoneAtEnd, Labels
<1> QED
  BY <1>1, <1>2, <1>3, <1>4, <1>5, <1>6, <1>7, <1>8, <1>9, <1>10, <1>11, <1>12
     DEF Next, PushOwn, PopOwn

\* The queue is orderly from the start.
LEMMA AlwaysOrderly == Spec => []Orderly
<1>1. Init => Orderly
  <2>1. Init => TypeOK
    <3>1. Init => shutdown \in BOOLEAN
      BY Zenon DEF Init
    <3> QED
      BY <3>1 DEF Init, TypeOK, Labels
  <2>2. Init => Holds /\ GoneAtEnd
    BY DEF Init, Holds, GoneAtEnd, Threads
  <2> QED
    BY <2>1, <2>2 DEF Orderly
<1> QED
  BY <1>1, NextOrderly, PTL DEF Spec

\* An empty, open queue is where the abstract one starts.
LEMMA InitMaps == Init => Jobs!Init
  BY DEF Init, Jobs!Init, Threads

\* A step that leaves the queue, the workers' items and the set of workers gone
\* home alone is no step of the abstract queue.
LEMMA Stutters ==
    ASSUME TypeOK, UNCHANGED <<queue, shutdown>>,
           \A w \in Workers : item'[w] = item[w] /\ (pc'[w] = "gone" <=> pc[w] = "gone")
    PROVE  UNCHANGED Jobs!vars
<1>1. [w \in Workers |-> item[w]]' = [w \in Workers |-> item[w]]
  OBVIOUS
<1>2. {w \in Workers : pc[w] = "gone"}' = {w \in Workers : pc[w] = "gone"}
  OBVIOUS
<1> QED
  BY <1>1, <1>2 DEF Jobs!vars

\* Every step of the mutex queue is one of the job queue, or none: the item is
\* accepted where it is enqueued, taken where it is dequeued.
LEMMA NextMaps ==
    ASSUME Orderly, [Next]_vars
    PROVE  [Jobs!Next]_(Jobs!vars)
<1> USE TaskQueueAssumption DEF Threads
<1>t. /\ TypeOK /\ Holds /\ GoneAtEnd
      /\ Producers \subseteq Threads /\ Workers \subseteq Threads
  BY DEF Orderly
<1>1. ASSUME NEW p \in Producers, NEW x \in Items, Push(p, x)
      PROVE  UNCHANGED Jobs!vars
  <2> SUFFICES \A w \in Workers : item'[w] = item[w] /\ (pc'[w] = "gone" <=> pc[w] = "gone")
    BY <1>t, <1>1, Stutters DEF Push
  <2> QED
    BY <1>t, <1>1 DEF Push, Goto, TypeOK
<1>2. ASSUME NEW p \in Producers, PushWait(p) \/ PushRefused(p)
      PROVE  UNCHANGED Jobs!vars
  <2> SUFFICES \A w \in Workers : item'[w] = item[w] /\ (pc'[w] = "gone" <=> pc[w] = "gone")
    BY <1>t, <1>2, Stutters DEF PushWait, PushRefused
  <2> QED
    BY <1>t, <1>2 DEF PushWait, PushRefused, Goto, TypeOK
<1>3. ASSUME NEW p \in Producers, PushEnqueue(p)
      PROVE  Jobs!Accept(item[p]) /\ item[p] \in Items
  <2>1. item[p] \in Items
    BY <1>t, <1>3 DEF PushEnqueue, Ready, Holds
  <2>2. {w \in Workers : pc[w] = "gone"} = {}
    BY <1>t, <1>3 DEF PushEnqueue, GoneAtEnd
  <2>3. \A w \in Workers : item'[w] = item[w] /\ (pc'[w] = "gone" <=> pc[w] = "gone")
    BY <1>t, <1>3 DEF PushEnqueue, Enqueue, Goto, TypeOK
  <2>4. /\ [w \in Workers |-> item[w]]' = [w \in Workers |-> item[w]]
        /\ {w \in Workers : pc[w] = "gone"}' = {w \in Workers : pc[w] = "gone"}
    BY <2>3
  <2> QED
    BY <1>3, <2>1, <2>2, <2>4 DEF PushEnqueue, Enqueue, Jobs!Accept
<1>4. ASSUME NEW p \in Producers, PushNotify(p)
      PROVE  UNCHANGED Jobs!vars
  <2> SUFFICES \A w \in Workers : item'[w] = item[w] /\ (pc'[w] = "gone" <=> pc[w] = "gone")
    BY <1>t, <1>4, Stutters DEF PushNotify
  <2> QED
    BY <1>t, <1>4, NotifyOneStep DEF PushNotify, Labels
<1>5. ASSUME NEW w \in Workers, Pop(w) \/ PopWait(w)
      PROVE  UNCHANGED Jobs!vars
  <2> SUFFICES \A v \in Workers : item'[v] = item[v] /\ (pc'[v] = "gone" <=> pc[v] = "gone")
    BY <1>t, <1>5, Stutters DEF Pop, PopWait
  <2> QED
    BY <1>t, <1>5 DEF Pop, PopWait, Goto, Ready, TypeOK
<1>6. ASSUME NEW w \in Workers, PopNothing(w)
      PROVE  Jobs!GoHome(w)
  <2>1. item[w] = NoItem
    BY <1>t, <1>6 DEF PopNothing, Ready, Holds
  <2>2. {v \in Workers : pc[v] = "gone"}' = {v \in Workers : pc[v] = "gone"} \cup {w}
    BY <1>t, <1>6 DEF PopNothing, Goto, TypeOK
  <2> QED
    BY <1>6, <2>1, <2>2 DEF PopNothing, Jobs!GoHome
<1>7. ASSUME NEW w \in Workers, PopDequeue(w)
      PROVE  Jobs!Take(w)
  <2>1. item[w] = NoItem /\ pc[w] # "gone"
    BY <1>t, <1>7 DEF PopDequeue, Ready, Holds
  <2>2. {v \in Workers : pc[v] = "gone"}' = {v \in Workers : pc[v] = "gone"}
    BY <1>t, <1>7, <2>1 DEF PopDequeue, Goto, TypeOK
  <2>3. [v \in Workers |-> item[v]]' = [[v \in Workers |-> item[v]] EXCEPT ![w] = Head(queue)]
    BY <1>t, <1>7 DEF PopDequeue, TypeOK
  <2> QED
    BY <1>7, <2>1, <2>2, <2>3 DEF PopDequeue, Jobs!Take
<1>8. ASSUME NEW w \in Workers, PopNotify(w)
      PROVE  UNCHANGED Jobs!vars
  <2> SUFFICES \A v \in Workers : item'[v] = item[v] /\ (pc'[v] = "gone" <=> pc[v] = "gone")
    BY <1>t, <1>8, Stutters DEF PopNotify
  <2> QED
    BY <1>t, <1>8, NotifyOneStep DEF PopNotify, Labels
<1>9. ASSUME NEW w \in Workers, JobDone(w)
      PROVE  Jobs!Finish(w)
  <2>1. item[w] # NoItem
    BY <1>t, <1>9 DEF JobDone, Holds
  <2>2. {v \in Workers : pc[v] = "gone"}' = {v \in Workers : pc[v] = "gone"}
    BY <1>t, <1>9 DEF JobDone, Goto, TypeOK
  <2>3. [v \in Workers |-> item[v]]' = [[v \in Workers |-> item[v]] EXCEPT ![w] = NoItem]
    BY <1>t, <1>9 DEF JobDone, TypeOK
  <2> QED
    BY <1>9, <2>1, <2>2, <2>3 DEF JobDone, Jobs!Finish
<1>10. ASSUME NEW t \in Threads, SpuriousWake(t)
       PROVE  UNCHANGED Jobs!vars
  <2> SUFFICES \A v \in Workers : item'[v] = item[v] /\ (pc'[v] = "gone" <=> pc[v] = "gone")
    BY <1>t, <1>10, Stutters DEF SpuriousWake
  <2> QED
    BY <1>t, <1>10 DEF SpuriousWake, Goto, TypeOK
<1>11. CASE Shutdown
  BY <1>11 DEF Shutdown, Jobs!Next, Jobs!Close
<1>12. CASE Closing
  <2> SUFFICES \A v \in Workers : item'[v] = item[v] /\ (pc'[v] = "gone" <=> pc[v] = "gone")
    BY <1>t, <1>12, Stutters DEF Closing, ShutdownNotEmpty, ShutdownNotFull
  <2> QED
    BY <1>t, <1>12 DEF Closing, ShutdownNotEmpty, ShutdownNotFull, NotifyAll, Waiting
<1>13. CASE UNCHANGED vars
  BY <1>13 DEF vars, Jobs!vars
<1> QED
  BY <1>1, <1>2, <1>3, <1>4, <1>5, <1>6, <1>7, <1>8, <1>9, <1>10, <1>11, <1>12, <1>13
     DEF Next, PushOwn, PopOwn, Jobs!Next

\* TaskQueue is the bounded first-in first-out job queue ThreadPool relies on:
\* pop() hands every accepted item to one worker, in order, and sends a worker
\* home only when the queue is shut down and drained.
THEOREM TaskQueueIsJobQueue == Spec => IsJobQueue
<1>1. Orderly /\ [Next]_vars => [Jobs!Next]_(Jobs!vars)
  BY NextMaps
<1> QED
  BY <1>1, InitMaps, AlwaysOrderly, PTL DEF Spec, IsJobQueue, Jobs!Spec

-----------------------------------------------------------------------------
(* No wake-up is lost                                                      *)

\* The number of threads of S at a label is a natural number.
LEMMA CountTyped ==
    ASSUME NEW S, IsFiniteSet(S), NEW l
    PROVE  /\ IsFiniteSet(At(S, l)) /\ Cardinality(At(S, l)) \in Nat
           /\ Cardinality(At(S, l)') \in Nat
<1>1. IsFiniteSet(At(S, l)) /\ IsFiniteSet(At(S, l)')
  BY FS_Subset DEF At
<1> QED
  BY <1>1, FS_CardinalityType

\* Threads that neither come to a label nor leave it do not change the count.
LEMMA CountSame ==
    ASSUME NEW S, NEW l, \A u \in S : pc'[u] = l <=> pc[u] = l
    PROVE  At(S, l)' = At(S, l)
  BY DEF At

\* A thread that comes to a label counts for one more.
LEMMA CountJoins ==
    ASSUME NEW S, IsFiniteSet(S), NEW l, NEW t \in S, pc[t] # l, pc'[t] = l,
           \A u \in S : u # t => (pc'[u] = l <=> pc[u] = l)
    PROVE  Cardinality(At(S, l)') = Cardinality(At(S, l)) + 1
<1>1. At(S, l)' = At(S, l) \cup {t} /\ t \notin At(S, l)
  BY DEF At
<1> QED
  BY <1>1, CountTyped, FS_AddElement

\* A thread that leaves a label counts for one less.
LEMMA CountLeaves ==
    ASSUME NEW S, IsFiniteSet(S), NEW l, NEW t \in S, pc[t] = l, pc'[t] # l,
           \A u \in S : u # t => (pc'[u] = l <=> pc[u] = l)
    PROVE  Cardinality(At(S, l)') = Cardinality(At(S, l)) - 1
<1>1. At(S, l)' = At(S, l) \ {t} /\ t \in At(S, l)
  BY DEF At
<1> QED
  BY <1>1, CountTyped, FS_RemoveElement

\* The two halves of NobodySleepsInVain.
WorkersWoken ==
    At(Workers, "waiting") # {} =>
        Len(queue) <= Cardinality(At(Producers, "notify")) + Cardinality(At(Workers, "woken"))

ProducersWoken ==
    At(Producers, "waiting") # {} /\ ~shutdown =>
        Capacity - Len(queue) <= Cardinality(At(Workers, "notify"))
                                 + Cardinality(At(Producers, "woken"))

\* The sleeping workers: an item that comes in brings a push that will notify,
\* and a notification that does not find a sleeper leaves none behind.
LEMMA NextWorkersWoken ==
    ASSUME Orderly, WorkersWoken, [Next]_vars
    PROVE  WorkersWoken'
<1> DEFINE n == Cardinality(At(Producers, "notify"))
           k == Cardinality(At(Workers, "woken"))
<1>t. /\ TypeOK /\ IsFiniteSet(Producers) /\ IsFiniteSet(Workers)
      /\ Len(queue) \in Nat /\ n \in Nat /\ k \in Nat /\ n' \in Nat /\ k' \in Nat
      /\ \A p \in Producers : p \in Threads /\ p \notin Workers
      /\ \A w \in Workers : w \in Threads /\ w \notin Producers
  BY TaskQueueAssumption, CountTyped DEF Orderly, TypeOK, Threads
<1> HIDE DEF n, k
<1>w. WorkersWoken <=> (At(Workers, "waiting") # {} => Len(queue) <= n + k)
  BY DEF WorkersWoken, n, k
<1>v. WorkersWoken' <=> (At(Workers, "waiting")' # {} => Len(queue') <= n' + k')
  BY DEF WorkersWoken, n, k
\* Steps that neither come to nor leave the labels that count.
<1>s. ASSUME queue' = queue,
             \A p \in Producers : pc'[p] = "notify" <=> pc[p] = "notify",
             \A w \in Workers : pc'[w] = "waiting" <=> pc[w] = "waiting",
             \A w \in Workers : pc'[w] = "woken" <=> pc[w] = "woken"
      PROVE  WorkersWoken'
  <2>1. n' = n /\ k' = k /\ At(Workers, "waiting")' = At(Workers, "waiting")
    BY <1>s, CountSame DEF n, k
  <2> QED
    BY <1>s, <1>w, <1>v, <2>1
<1>1. ASSUME NEW p \in Producers, NEW x \in Items, Push(p, x) PROVE WorkersWoken'
  BY <1>1, <1>s, <1>t DEF Push, Goto, TypeOK
<1>2. ASSUME NEW p \in Producers, PushWait(p) \/ PushRefused(p) PROVE WorkersWoken'
  BY <1>2, <1>s, <1>t DEF PushWait, PushRefused, Ready, Goto, TypeOK
<1>3. ASSUME NEW p \in Producers, PushEnqueue(p) PROVE WorkersWoken'
  <2>1. n' = n + 1
    BY <1>3, <1>t, CountJoins DEF PushEnqueue, Enqueue, Ready, Goto, TypeOK, n
  <2>2. k' = k /\ At(Workers, "waiting")' = At(Workers, "waiting")
    <3>1. \A w \in Workers : pc'[w] = pc[w]
      BY <1>3, <1>t DEF PushEnqueue, Enqueue, Goto, TypeOK
    <3> QED
      BY <3>1, CountSame DEF k
  <2>3. Len(queue') = Len(queue) + 1
    BY <1>3, <1>t DEF PushEnqueue, Enqueue, Orderly, Holds, Ready, TypeOK
  <2> QED
    BY <1>t, <1>w, <1>v, <2>1, <2>2, <2>3
<1>4. ASSUME NEW p \in Producers, PushNotify(p) PROVE WorkersWoken'
  <2>1. CASE Waiting(Workers) = {}
    <3>1. At(Workers, "waiting")' = {}
      BY <1>4, <1>t, <2>1 DEF PushNotify, NotifyOne, Waiting, Goto, TypeOK, At
    <3> QED
      BY <1>v, <3>1
  <2>2. ASSUME NEW u \in Waiting(Workers), pc' = [pc EXCEPT ![p] = "idle", ![u] = "woken"]
        PROVE  WorkersWoken'
    <3>1. u \in Workers /\ pc[u] = "waiting" /\ u \in At(Workers, "waiting")
      BY <2>2 DEF Waiting, At
    <3>2. n' = n - 1
      BY <1>4, <1>t, <2>2, <3>1, CountLeaves DEF PushNotify, TypeOK, n
    <3>3. k' = k + 1
      BY <1>4, <1>t, <2>2, <3>1, CountJoins DEF PushNotify, TypeOK, k
    <3>4. queue' = queue
      BY <1>4 DEF PushNotify
    <3> QED
      BY <1>t, <1>w, <1>v, <3>1, <3>2, <3>3, <3>4
  <2> QED
    BY <1>4, <2>1, <2>2 DEF PushNotify, NotifyOne
<1>5. ASSUME NEW w \in Workers, Pop(w) \/ JobDone(w) PROVE WorkersWoken'
  BY <1>5, <1>s, <1>t DEF Pop, JobDone, Goto, TypeOK
<1>6. ASSUME NEW w \in Workers, PopWait(w) \/ PopNothing(w) PROVE WorkersWoken'
  <2>1. Len(queue') = 0
    BY <1>6 DEF PopWait, PopNothing
  <2>2. Len(queue') <= n' + k'
    BY <1>t, <2>1 DEF n, k
  <2> QED
    BY <1>v, <2>2
<1>7. ASSUME NEW w \in Workers, PopDequeue(w) PROVE WorkersWoken'
  <2>1. n' = n /\ At(Workers, "waiting")' = At(Workers, "waiting")
    <3>1. \A p \in Producers : pc'[p] = "notify" <=> pc[p] = "notify"
      BY <1>7, <1>t DEF PopDequeue, Goto, TypeOK
    <3>2. \A v \in Workers : pc'[v] = "waiting" <=> pc[v] = "waiting"
      BY <1>7, <1>t DEF PopDequeue, Ready, Goto, TypeOK
    <3> QED
      BY <3>1, <3>2, CountSame DEF n
  <2>2. k' >= k - 1
    <3>1. CASE pc[w] = "woken"
      BY <1>7, <1>t, <3>1, CountLeaves DEF PopDequeue, Goto, TypeOK, k
    <3>2. CASE pc[w] = "entered"
      BY <1>7, <1>t, <3>2, CountSame DEF PopDequeue, Goto, TypeOK, k
    <3> QED
      BY <1>7, <3>1, <3>2 DEF PopDequeue, Ready
  <2>3. Len(queue') = Len(queue) - 1
    BY <1>7, <1>t DEF PopDequeue, TypeOK
  <2> QED
    BY <1>t, <1>w, <1>v, <2>1, <2>2, <2>3
<1>8. ASSUME NEW w \in Workers, PopNotify(w) PROVE WorkersWoken'
  BY <1>8, <1>s, <1>t DEF PopNotify, NotifyOne, Waiting, Goto, TypeOK
<1>9. ASSUME NEW t \in Threads, SpuriousWake(t) PROVE WorkersWoken'
  <2>1. CASE t \in Producers
    BY <1>9, <2>1, <1>s, <1>t DEF SpuriousWake, Goto, TypeOK
  <2>2. CASE t \in Workers
    <3>1. n' = n
      BY <1>9, <1>t, <2>2, CountSame DEF SpuriousWake, Goto, TypeOK, n
    <3>2. k' = k + 1
      BY <1>9, <1>t, <2>2, CountJoins DEF SpuriousWake, Goto, TypeOK, k
    <3>3. At(Workers, "waiting") # {} /\ queue' = queue
      BY <1>9, <2>2 DEF SpuriousWake, At
    <3> QED
      BY <1>t, <1>w, <1>v, <3>1, <3>2, <3>3
  <2> QED
    BY <2>1, <2>2 DEF Threads
<1>10. CASE Shutdown
  BY <1>10, <1>s DEF Shutdown
<1>11. CASE ShutdownNotEmpty
  <2>1. At(Workers, "waiting")' = {}
    BY <1>11, <1>t DEF ShutdownNotEmpty, NotifyAll, Waiting, At
  <2> QED
    BY <1>v, <2>1
<1>12. CASE ShutdownNotFull
  BY <1>12, <1>s, <1>t DEF ShutdownNotFull, NotifyAll, Waiting
<1>13. CASE UNCHANGED vars
  BY <1>13, <1>s DEF vars
<1> QED
  BY <1>1, <1>2, <1>3, <1>4, <1>5, <1>6, <1>7, <1>8, <1>9, <1>10, <1>11, <1>12, <1>13
     DEF Next, PushOwn, PopOwn, Closing

\* The sleeping producers: a slot that comes free brings a pop that will notify.
LEMMA NextProducersWoken ==
    ASSUME Orderly, ProducersWoken, [Next]_vars
    PROVE  ProducersWoken'
<1> DEFINE n == Cardinality(At(Workers, "notify"))
           k == Cardinality(At(Producers, "woken"))
<1>t. /\ TypeOK /\ IsFiniteSet(Producers) /\ IsFiniteSet(Workers)
      /\ Len(queue) \in Nat /\ n \in Nat /\ k \in Nat /\ n' \in Nat /\ k' \in Nat
      /\ Capacity \in Nat
      /\ \A p \in Producers : p \in Threads /\ p \notin Workers
      /\ \A w \in Workers : w \in Threads /\ w \notin Producers
  BY TaskQueueAssumption, CountTyped DEF Orderly, TypeOK, Threads
<1> HIDE DEF n, k
<1>w. ProducersWoken <=>
          (At(Producers, "waiting") # {} /\ ~shutdown => Capacity - Len(queue) <= n + k)
  BY DEF ProducersWoken, n, k
<1>v. ProducersWoken' <=>
          (At(Producers, "waiting")' # {} /\ ~shutdown' => Capacity - Len(queue') <= n' + k')
  BY DEF ProducersWoken, n, k
\* Steps that neither come to nor leave the labels that count.
<1>s. ASSUME UNCHANGED <<queue, shutdown>>,
             \A w \in Workers : pc'[w] = "notify" <=> pc[w] = "notify",
             \A p \in Producers : pc'[p] = "waiting" <=> pc[p] = "waiting",
             \A p \in Producers : pc'[p] = "woken" <=> pc[p] = "woken"
      PROVE  ProducersWoken'
  <2>1. n' = n /\ k' = k /\ At(Producers, "waiting")' = At(Producers, "waiting")
    BY <1>s, CountSame DEF n, k
  <2> QED
    BY <1>s, <1>w, <1>v, <2>1
<1>1. ASSUME NEW p \in Producers, NEW x \in Items, Push(p, x) PROVE ProducersWoken'
  BY <1>1, <1>s, <1>t DEF Push, Goto, TypeOK
<1>2. ASSUME NEW p \in Producers, PushWait(p) PROVE ProducersWoken'
  <2>1. Capacity <= Len(queue') /\ Len(queue') \in Nat
    BY <1>2, <1>t DEF PushWait
  <2>2. Capacity - Len(queue') <= n' + k'
    BY <1>t, <2>1 DEF n, k
  <2> QED
    BY <1>v, <2>2
<1>3. ASSUME NEW p \in Producers, PushRefused(p) PROVE ProducersWoken'
  BY <1>3, <1>v DEF PushRefused
<1>4. ASSUME NEW p \in Producers, PushEnqueue(p) PROVE ProducersWoken'
  <2>1. n' = n /\ At(Producers, "waiting")' = At(Producers, "waiting")
    <3>1. \A w \in Workers : pc'[w] = "notify" <=> pc[w] = "notify"
      BY <1>4, <1>t DEF PushEnqueue, Enqueue, Goto, TypeOK
    <3>2. \A u \in Producers : pc'[u] = "waiting" <=> pc[u] = "waiting"
      BY <1>4, <1>t DEF PushEnqueue, Enqueue, Ready, Goto, TypeOK
    <3> QED
      BY <3>1, <3>2, CountSame DEF n
  <2>2. k' >= k - 1
    <3>1. CASE pc[p] = "woken"
      BY <1>4, <1>t, <3>1, CountLeaves DEF PushEnqueue, Enqueue, Goto, TypeOK, k
    <3>2. CASE pc[p] = "entered"
      BY <1>4, <1>t, <3>2, CountSame DEF PushEnqueue, Enqueue, Goto, TypeOK, k
    <3> QED
      BY <1>4, <3>1, <3>2 DEF PushEnqueue, Ready
  <2>3. Len(queue') = Len(queue) + 1 /\ shutdown' = shutdown
    BY <1>4, <1>t DEF PushEnqueue, Enqueue, Orderly, Holds, Ready, TypeOK
  <2> QED
    BY <1>t, <1>w, <1>v, <2>1, <2>2, <2>3
<1>5. ASSUME NEW p \in Producers, PushNotify(p) PROVE ProducersWoken'
  BY <1>5, <1>s, <1>t DEF PushNotify, NotifyOne, Waiting, Goto, TypeOK
<1>6. ASSUME NEW w \in Workers, Pop(w) \/ PopWait(w) \/ PopNothing(w) \/ JobDone(w)
      PROVE  ProducersWoken'
  BY <1>6, <1>s, <1>t DEF Pop, PopWait, PopNothing, JobDone, Ready, Goto, TypeOK
<1>7. ASSUME NEW w \in Workers, PopDequeue(w) PROVE ProducersWoken'
  <2>1. n' = n + 1
    BY <1>7, <1>t, CountJoins DEF PopDequeue, Ready, Goto, TypeOK, n
  <2>2. k' = k /\ At(Producers, "waiting")' = At(Producers, "waiting")
    <3>1. \A p \in Producers : pc'[p] = pc[p]
      BY <1>7, <1>t DEF PopDequeue, Goto, TypeOK
    <3> QED
      BY <3>1, CountSame DEF k
  <2>3. Len(queue') = Len(queue) - 1 /\ shutdown' = shutdown
    BY <1>7, <1>t DEF PopDequeue, TypeOK
  <2> QED
    BY <1>t, <1>w, <1>v, <2>1, <2>2, <2>3
<1>8. ASSUME NEW w \in Workers, PopNotify(w) PROVE ProducersWoken'
  <2>1. CASE Waiting(Producers) = {}
    <3>1. At(Producers, "waiting")' = {}
      BY <1>8, <1>t, <2>1 DEF PopNotify, NotifyOne, Waiting, Goto, TypeOK, At
    <3> QED
      BY <1>v, <3>1
  <2>2. ASSUME NEW u \in Waiting(Producers), pc' = [pc EXCEPT ![w] = "busy", ![u] = "woken"]
        PROVE  ProducersWoken'
    <3>1. u \in Producers /\ pc[u] = "waiting" /\ u \in At(Producers, "waiting")
      BY <2>2 DEF Waiting, At
    <3>2. n' = n - 1
      BY <1>8, <1>t, <2>2, <3>1, CountLeaves DEF PopNotify, TypeOK, n
    <3>3. k' = k + 1
      BY <1>8, <1>t, <2>2, <3>1, CountJoins DEF PopNotify, TypeOK, k
    <3>4. UNCHANGED <<queue, shutdown>>
      BY <1>8 DEF PopNotify
    <3> QED
      BY <1>t, <1>w, <1>v, <3>1, <3>2, <3>3, <3>4
  <2> QED
    BY <1>8, <2>1, <2>2 DEF PopNotify, NotifyOne
<1>9. ASSUME NEW t \in Threads, SpuriousWake(t) PROVE ProducersWoken'
  <2>1. CASE t \in Workers
    BY <1>9, <2>1, <1>s, <1>t DEF SpuriousWake, Goto, TypeOK
  <2>2. CASE t \in Producers
    <3>1. n' = n
      BY <1>9, <1>t, <2>2, CountSame DEF SpuriousWake, Goto, TypeOK, n
    <3>2. k' = k + 1
      BY <1>9, <1>t, <2>2, CountJoins DEF SpuriousWake, Goto, TypeOK, k
    <3>3. At(Producers, "waiting") # {} /\ UNCHANGED <<queue, shutdown>>
      BY <1>9, <2>2 DEF SpuriousWake, At
    <3> QED
      BY <1>t, <1>w, <1>v, <3>1, <3>2, <3>3
  <2> QED
    BY <2>1, <2>2 DEF Threads
<1>10. CASE Shutdown
  BY <1>10, <1>v DEF Shutdown
<1>11. CASE ShutdownNotEmpty
  BY <1>11, <1>s, <1>t DEF ShutdownNotEmpty, NotifyAll, Waiting
<1>12. CASE ShutdownNotFull
  <2>1. At(Producers, "waiting")' = {}
    BY <1>12, <1>t DEF ShutdownNotFull, NotifyAll, Waiting, At
  <2> QED
    BY <1>v, <2>1
<1>13. CASE UNCHANGED vars
  BY <1>13, <1>s DEF vars
<1> QED
  BY <1>1, <1>2, <1>3, <1>4, <1>5, <1>6, <1>7, <1>8, <1>9, <1>10, <1>11, <1>12, <1>13
     DEF Next, PushOwn, PopOwn, Closing

\* notify_one() after the unlock is enough, for any number of threads: while a
\* worker sleeps in pop() every queued item has a thread on its way to it, and
\* while a producer sleeps in push() so has every free slot.
THEOREM TaskQueueNobodySleepsInVain == Spec => []NobodySleepsInVain
<1>1. Init => WorkersWoken /\ ProducersWoken
  BY DEF Init, WorkersWoken, ProducersWoken, At, Threads
<1>2. Orderly /\ WorkersWoken /\ [Next]_vars => WorkersWoken'
  BY NextWorkersWoken
<1>3. Orderly /\ ProducersWoken /\ [Next]_vars => ProducersWoken'
  BY NextProducersWoken
<1>4. WorkersWoken /\ ProducersWoken => NobodySleepsInVain
  BY DEF NobodySleepsInVain, WorkersWoken, ProducersWoken
<1> QED
  BY <1>1, <1>2, <1>3, <1>4, AlwaysOrderly, PTL DEF Spec
=============================================================================
