------------------------- MODULE LockFreeTaskQueueProofs -------------------------
(***************************************************************************)
(* The blocking queue around the ring keeps its counters exact, loses no   *)
(* wake-up and is the job queue that the pool relies on: for any number of *)
(* producers and workers, items and spins, and any ring of two cells or    *)
(* more.                                                                   *)
(***************************************************************************)
EXTENDS LockFreeTaskQueue, LockFreeRingProofs, FiniteSetTheorems, SequenceTheorems

-----------------------------------------------------------------------------
(* The inductive invariant                                                 *)

PushPlaces == {"idle", "check", "pushing", "abort", "sleepers", "spinners", "lock", "notify"}
PopPlaces  == {"idle", "spin", "unspin", "announce", "recheck", "exitCheck", "leave", "lastTry",
               "park", "relock", "sizeTail", "sizeHead", "shut", "sleep", "waiting", "unpark",
               "busy", "gone"}

\* Where pop() calls try_pop(), and where a thread counts in pushersInFlight_,
\* in spinners_ and in sleepers_.
Trying   == {"spin", "recheck", "lastTry"}
Pushing  == {"check", "pushing", "abort"}
Spinning == {"spin", "unspin"}
Sleepers == {"recheck", "exitCheck", "leave", "park", "sizeTail", "sizeHead", "shut", "sleep",
             "waiting", "relock", "unpark"}

QueueTypeOK ==
    /\ qpc \in [Threads -> PushPlaces \cup PopPlaces]
    /\ \A p \in Producers : qpc[p] \in PushPlaces
    /\ \A c \in Consumers : qpc[c] \in PopPlaces
    /\ snap \in [Consumers -> Nat]
    /\ stopped \in BOOLEAN

\* A thread is inside the ring only where push() and pop() call it.
PushCalls(p) == rpc[p] # "out" => At(p, "pushing") /\ rpc[p] \in PushLabels
PopCalls(c)  == rpc[c] # "out" => qpc[c] \in Trying /\ rpc[c] \in PopLabels

Calls == (\A p \in Producers : PushCalls(p)) /\ (\A c \in Consumers : PopCalls(c))

\* Who has an item: a push until the ring has taken it, a worker from the move
\* out of the cell until the job is done.
PushCarries(p) ==
    At(p, "check") \/ (At(p, "pushing") /\ Returned(p, FALSE)) => item[p] \in Items

PopCarries(c) ==
    item[c] # Empty <=> \/ rpc[c] = "popPublish"
                        \/ At(c, "busy")
                        \/ qpc[c] \in Trying /\ Returned(c, TRUE)

Carries == (\A p \in Producers : PushCarries(p)) /\ (\A c \in Consumers : PopCarries(c))

\* parkMtx_ is held from the lock to the wait or the end of the block.
PopLocks(c) == mtx = c <=> qpc[c] \in {"sizeTail", "sizeHead", "shut", "sleep"}

Locked == \A c \in Consumers : PopLocks(c)

\* No push is between its check of shutdown_ and the end of its try_push().
NoPush == \A p \in Producers : ~At(p, "pushing")

\* What a shutdown means to a worker: it is not left asleep, and it goes home
\* only when nothing is left and nothing can come.
StopsRight(c) ==
    /\ closer \in {"notify", "done"} => ~At(c, "sleep")
    /\ closer = "done" => ~At(c, "waiting")
    /\ qpc[c] \in {"exitCheck", "leave", "lastTry", "gone"} => stopped
    /\ qpc[c] \in {"leave", "lastTry", "gone"} => NoPush
    /\ At(c, "gone") \/ (At(c, "lastTry") /\ Returned(c, FALSE)) => head = tail

Stopping == (stopped <=> closer # "idle") /\ \A c \in Consumers : StopsRight(c)

\* A push that has put its item in and has not passed parkMtx_ yet.
Alarm(p) ==
    \/ At(p, "pushing") /\ (Filling(p) \/ Returned(p, TRUE))
    \/ qpc[p] \in {"sleepers", "spinners", "lock"}

\* A worker that has found the ring empty and will go to sleep.
Tired(c) == qpc[c] \in {"shut", "sleep"} \/ (At(c, "sizeHead") /\ snap[c] <= head)

\* A worker that will look at the ring again.
Awake(c) == qpc[c] \notin {"waiting", "gone"} /\ ~Tired(c)

\* Someone will still look at the ring, or will wake the workers that wait.
Watched == (\E p \in Producers : Alarm(p)) \/ (\E c \in Consumers : Awake(c))

\* While there are items, someone will see to it that they are taken.
Attended ==
    ~stopped /\ head < tail =>
    /\ (\E c \in Consumers : Tired(c)) => Watched
    /\ (\E c \in Consumers : At(c, "waiting")) =>
           Watched \/ (\E p \in Producers : At(p, "notify"))

\* The counters, one by one.
SleepersExact == sleepers = Count(Consumers, Sleepers)
SpinnersExact == spinners = Count(Consumers, Spinning)
InFlightExact == inFlight = Count(Producers, Pushing)

Orderly == /\ Sound /\ Passed /\ Owed
           /\ QueueTypeOK /\ Calls /\ Carries /\ Locked
           /\ SleepersExact /\ SpinnersExact /\ InFlightExact
           /\ Stopping /\ Attended

-----------------------------------------------------------------------------
(* The ring inside the queue                                               *)

\* A caller's item may change while it is not inside the ring.
LEMMA ItemKept ==
    ASSUME Sound, Passed, Owed, NEW t \in Threads, rpc[t] = "out",
           item' \in [Threads -> Items \cup {Empty}],
           \A u \in Threads : u # t => item'[u] = item[u],
           UNCHANGED <<tail, head, seq, data, rpc, pos, rret, hist>>
    PROVE  Sound' /\ Passed' /\ Owed'
<1>1. RingTypeOK' /\ Bounded' /\ (Len(hist) = tail)'
  BY DEF Sound, RingTypeOK, Bounded
<1>2. Positions' /\ Claims' /\ Turns' /\ Reads' /\ ReleasesItems'
  BY DEF Sound, Positions, Claims, Turns, Reads, ReleasesItems, Filling, Emptying, Cell
<1>3. Contents'
  <2>1. \A u \in Threads : rpc[u] # "out" => item'[u] = item[u]
    OBVIOUS
  <2> QED
    BY <2>1 DEF Sound, Contents, PushLabels, Cell
<1>4. Passed' /\ Owed'
  BY DEF Passed, Owed, Filling, Emptying
<1> QED
  BY <1>1, <1>2, <1>3, <1>4 DEF Sound

\* Every step of the queue is a step of the ring, or leaves it alone.
LEMMA NextRing ==
    ASSUME Cap > 1, Orderly, [QueueNext]_allVars
    PROVE  Sound' /\ Passed' /\ Owed'
<1> USE QueueAssumption DEF Orderly
<1>1. ASSUME NEW t \in Threads, LocalStep(t) PROVE Sound' /\ Passed' /\ Owed'
  BY <1>1, LocalSound, LocalOwed
<1>2. CASE UNCHANGED ringVars
  BY <1>2, NextSound, NextOwed
<1>3. ASSUME NEW t \in Threads, RingStep(t) PROVE Sound' /\ Passed' /\ Owed'
  <2>1. RingNext
    BY <1>3 DEF RingStep, RingNext
  <2> QED
    BY <2>1, NextSound, NextOwed
<1>4. ASSUME NEW p \in Producers, NEW x \in Items, Push(p, x) PROVE Sound' /\ Passed' /\ Owed'
  <2>1. rpc[p] = "out" /\ p \in Threads
    BY <1>4 DEF Push, At, Calls, PushCalls, Threads
  <2> QED
    BY <1>4, <2>1, ItemKept DEF Push, Sound, RingTypeOK
<1>5. ASSUME NEW p \in Producers, PushAbort(p) PROVE Sound' /\ Passed' /\ Owed'
  <2>1. rpc[p] = "out" /\ p \in Threads
    BY <1>5 DEF PushAbort, At, Calls, PushCalls, Threads
  <2> QED
    BY <1>5, <2>1, ItemKept DEF PushAbort, DropItem, Sound, RingTypeOK
<1>6. ASSUME NEW c \in Consumers, JobDone(c) PROVE Sound' /\ Passed' /\ Owed'
  <2>1. rpc[c] = "out" /\ c \in Threads
    BY <1>6 DEF JobDone, At, Calls, PopCalls, Threads, Trying
  <2> QED
    BY <1>6, <2>1, ItemKept DEF JobDone, DropItem, Sound, RingTypeOK
<1>7. ASSUME NEW p \in Producers, PushTry(p) PROVE LocalStep(p)
  BY <1>7 DEF PushTry, Carries, PushCarries, LocalStep
<1>8. ASSUME NEW c \in Consumers, PopOwn(c) \/ SpuriousWake(c)
      PROVE  UNCHANGED ringVars \/ LocalStep(c) \/ JobDone(c)
  BY <1>8 DEF PopOwn, SpuriousWake, PopEnter, SpinHit, SpinAgain, Unspin, Announce, RecheckHit,
     RecheckMiss, ExitCheck, PopLeave, PopLast, Park, SizeTail, SizeHead, SizeShut, Sleep,
     Unpark, LocalStep
<1>9. ASSUME NEW p \in Producers, PushOwn(p)
      PROVE  UNCHANGED ringVars \/ PushTry(p) \/ PushAbort(p)
  BY <1>9 DEF PushOwn, PushStopped, PushDone, PushSleepers, PushSpinners, PushLock, PushNotify
<1>10. CASE Shutdown \/ ShutdownLock \/ ShutdownNotify
  BY <1>2, <1>10 DEF Shutdown, ShutdownLock, ShutdownNotify
<1> QED
  BY <1>1, <1>2, <1>3, <1>4, <1>5, <1>6, <1>7, <1>8, <1>9, <1>10 DEF QueueNext, Threads, allVars

-----------------------------------------------------------------------------
(* Counting                                                                *)

\* 1 for a thread that counts, 0 for one that does not.
One(b) == IF b THEN 1 ELSE 0

\* The threads a count is about are finitely many.
LEMMA CountFinite ==
    ASSUME NEW S, IsFiniteSet(S), NEW L
    PROVE  IsFiniteSet({t \in S : qpc[t] \in L})
  BY FS_Subset

\* A count is a natural number.
LEMMA CountTyped ==
    ASSUME NEW S, IsFiniteSet(S), NEW L
    PROVE  Count(S, L) \in Nat
  BY CountFinite, FS_CardinalityType DEF Count

\* Threads that stay on one side of the labels do not change the count.
LEMMA CountSame ==
    ASSUME NEW S, NEW L, \A t \in S : qpc'[t] \in L <=> qpc[t] \in L
    PROVE  Count(S, L)' = Count(S, L)
<1>1. {t \in S : qpc'[t] \in L} = {t \in S : qpc[t] \in L}
  OBVIOUS
<1> QED
  BY <1>1 DEF Count

\* One thread that moves changes the count by what it was and what it becomes.
LEMMA CountMoves ==
    ASSUME NEW S, IsFiniteSet(S), NEW L, NEW t \in S,
           \A u \in S : u # t => qpc'[u] = qpc[u]
    PROVE  Count(S, L)' = Count(S, L) + One(qpc'[t] \in L) - One(qpc[t] \in L)
<1> DEFINE A == {u \in S : qpc[u] \in L}
           B == {u \in S : qpc'[u] \in L}
<1>1. IsFiniteSet(A) /\ Cardinality(A) \in Nat
  BY CountFinite, FS_CardinalityType
<1>2. Count(S, L) = Cardinality(A) /\ Count(S, L)' = Cardinality(B)
  BY DEF Count
<1>3. CASE qpc[t] \in L <=> qpc'[t] \in L
  <2>1. A = B
    BY <1>3
  <2> HIDE DEF A, B
  <2>2. Cardinality(B) = Cardinality(A)
    BY <2>1
  <2>3. CASE qpc[t] \in L
    BY <1>1, <1>2, <1>3, <2>2, <2>3 DEF One
  <2>4. CASE qpc[t] \notin L
    BY <1>1, <1>2, <1>3, <2>2, <2>4 DEF One
  <2> QED
    BY <2>3, <2>4
<1>4. CASE qpc[t] \in L /\ qpc'[t] \notin L
  <2>1. B = A \ {t} /\ t \in A
    BY <1>4
  <2>2. Cardinality(B) = Cardinality(A) - 1
    BY <1>1, <2>1, FS_RemoveElement
  <2> QED
    BY <1>1, <1>2, <1>4, <2>2 DEF One
<1>5. CASE qpc[t] \notin L /\ qpc'[t] \in L
  <2>1. B = A \cup {t} /\ t \notin A
    BY <1>5
  <2>2. Cardinality(B) = Cardinality(A) + 1
    BY <1>1, <2>1, FS_AddElement
  <2> QED
    BY <1>1, <1>2, <1>5, <2>2 DEF One
<1> QED
  BY <1>3, <1>4, <1>5

-----------------------------------------------------------------------------
(* One step of one thread                                                  *)

\* t has stepped, and the other threads have not.
Alone(t) ==
    /\ qpc' = [qpc EXCEPT ![t] = qpc'[t]]
    /\ \A u \in Threads : u # t =>
           rpc'[u] = rpc[u] /\ rret'[u] = rret[u] /\ item'[u] = item[u] /\ pos'[u] = pos[u]

\* What a step of push() outside the ring does to its caller and the counters.
PushMoves(p) ==
    /\ Alone(p)
    /\ qpc'[p] \in PushPlaces
    /\ PushCalls(p)' /\ PushCarries(p)'
    /\ At(p, "pushing")' => At(p, "pushing") \/ ~stopped
    /\ UNCHANGED <<tail, head, data, pos, hist>>
    /\ UNCHANGED <<stopped, sleepers, spinners, snap, mtx, closer>>
    /\ inFlight' = inFlight + One(qpc'[p] \in Pushing) - One(qpc[p] \in Pushing)

\* The same for pop().
PopMoves(c) ==
    /\ Alone(c)
    /\ qpc'[c] \in PopPlaces
    /\ PopCalls(c)' /\ PopCarries(c)'
    /\ PopLocks(c)' /\ (mtx' = mtx \/ {mtx, mtx'} \subseteq {Free, c})
    /\ UNCHANGED <<tail, head, data, pos, hist>>
    /\ UNCHANGED <<stopped, inFlight, closer>>
    /\ sleepers' = sleepers + One(qpc'[c] \in Sleepers) - One(qpc[c] \in Sleepers)
    /\ spinners' = spinners + One(qpc'[c] \in Spinning) - One(qpc[c] \in Spinning)
    /\ snap' \in [Consumers -> Nat]

\* push() keeps to its labels, calls the ring and counts as it should.
LEMMA PushLocal ==
    ASSUME Orderly, NEW p \in Producers,
           \/ \E x \in Items : Push(p, x)
           \/ PushOwn(p) /\ ~PushNotify(p)
    PROVE  PushMoves(p)
<1>1. /\ p \in Threads /\ qpc[p] \in PushPlaces /\ DOMAIN qpc = Threads
      /\ DOMAIN rpc = Threads /\ DOMAIN item = Threads /\ DOMAIN rret = Threads
      /\ rret[p] \in BOOLEAN /\ inFlight \in Int
      /\ PushCalls(p) /\ PushCarries(p)
  <2>1. inFlight \in Int
    BY QueueAssumption, CountTyped DEF Orderly, InFlightExact
  <2> QED
    BY <2>1 DEF Orderly, Sound, RingTypeOK, QueueTypeOK, Calls, Carries, Threads
<1> USE DEF PushMoves, Alone, PushPlaces, PushCalls, PushCarries, Pushing, One,
        At, Step, Returned, ringVars, counters
<1>2. ASSUME NEW x \in Items, Push(p, x) PROVE PushMoves(p)
  BY <1>1, <1>2 DEF Push
<1>3. CASE PushTry(p)
  BY <1>1, <1>3 DEF PushTry, TryPush, Goto, PushLabels
<1>4. CASE PushStopped(p)
  BY <1>1, <1>4 DEF PushStopped
<1>5. CASE PushAbort(p)
  BY <1>1, <1>5 DEF PushAbort, DropItem
<1>6. CASE PushDone(p)
  BY <1>1, <1>6 DEF PushDone
<1>7. CASE PushSleepers(p)
  BY <1>1, <1>7 DEF PushSleepers
<1>8. CASE PushSpinners(p)
  BY <1>1, <1>8 DEF PushSpinners
<1>9. CASE PushLock(p)
  BY <1>1, <1>9 DEF PushLock
<1> QED
  BY <1>2, <1>3, <1>4, <1>5, <1>6, <1>7, <1>8, <1>9 DEF PushOwn

\* So does pop(), on every path.
LEMMA PopLocal ==
    ASSUME Orderly, NEW c \in Consumers, PopOwn(c) \/ SpuriousWake(c)
    PROVE  PopMoves(c)
<1>1. /\ c \in Threads /\ qpc[c] \in PopPlaces /\ DOMAIN qpc = Threads
      /\ DOMAIN rpc = Threads /\ DOMAIN item = Threads /\ DOMAIN rret = Threads
      /\ rret[c] \in BOOLEAN /\ sleepers \in Int /\ spinners \in Int
      /\ snap \in [Consumers -> Nat] /\ tail \in Nat
      /\ PopCalls(c) /\ PopCarries(c) /\ PopLocks(c) /\ c # Free
  <2>1. sleepers \in Int /\ spinners \in Int
    BY QueueAssumption, CountTyped DEF Orderly, SleepersExact, SpinnersExact
  <2> QED
    BY <2>1, QueueAssumption DEF Orderly, Sound, RingTypeOK, QueueTypeOK, Calls, Carries,
       Locked, Threads
<1> USE DEF PopMoves, Alone, PopPlaces, PopCalls, PopCarries, PopLocks, Trying, Sleepers,
        Spinning, One,
        At, Step, Returned, ringVars, counters
<1>2. CASE PopEnter(c)
  BY <1>1, <1>2 DEF PopEnter, TryPop, Goto, PopLabels
<1>3. CASE SpinHit(c)
  BY <1>1, <1>3 DEF SpinHit
<1>4. CASE SpinAgain(c)
  <2>1. qpc = [qpc EXCEPT ![c] = qpc[c]]
    BY DEF Orderly, QueueTypeOK
  <2> QED
    BY <1>1, <1>4, <2>1 DEF SpinAgain, TryPop, Goto, PopLabels
<1>5. CASE Unspin(c)
  BY <1>1, <1>5 DEF Unspin
<1>6. CASE Announce(c)
  BY <1>1, <1>6 DEF Announce, TryPop, Goto, PopLabels
<1>7. CASE RecheckHit(c)
  BY <1>1, <1>7 DEF RecheckHit
<1>8. CASE RecheckMiss(c)
  BY <1>1, <1>8 DEF RecheckMiss
<1>9. CASE ExitCheck(c)
  BY <1>1, <1>9 DEF ExitCheck
<1>10. CASE PopLeave(c)
  BY <1>1, <1>10 DEF PopLeave, TryPop, Goto, PopLabels
<1>11. CASE PopLast(c)
  BY <1>1, <1>11 DEF PopLast
<1>12. CASE Park(c)
  BY <1>1, <1>12 DEF Park
<1>13. CASE SizeTail(c)
  BY <1>1, <1>13 DEF SizeTail
<1>14. CASE SizeHead(c)
  BY <1>1, <1>14 DEF SizeHead
<1>15. CASE SizeShut(c)
  BY <1>1, <1>15 DEF SizeShut
<1>16. CASE Sleep(c)
  BY <1>1, <1>16 DEF Sleep
<1>17. CASE SpuriousWake(c)
  BY <1>1, <1>17 DEF SpuriousWake
<1>18. CASE Unpark(c)
  BY <1>1, <1>18 DEF Unpark
<1>19. CASE JobDone(c)
  BY <1>1, <1>19 DEF JobDone, DropItem, PopLabels
<1> QED
  BY <1>2, <1>3, <1>4, <1>5, <1>6, <1>7, <1>8, <1>9, <1>10, <1>11, <1>12, <1>13, <1>14, <1>15,
     <1>16, <1>17, <1>18, <1>19 DEF PopOwn

\* notify_one() takes a waiting worker out of its wait, if there is one.
LEMMA NotifyMoves ==
    ASSUME Orderly, NEW p \in Producers, PushNotify(p)
    PROVE  /\ UNCHANGED <<ringVars, stopped, sleepers, spinners, inFlight, mtx, snap, closer>>
           /\ qpc' \in [Threads -> PushPlaces \cup PopPlaces]
           /\ At(p, "notify") /\ qpc'[p] = "idle"
           /\ \A u \in Producers : u # p => qpc'[u] = qpc[u]
           /\ \A c \in Consumers :
                  qpc'[c] = qpc[c] \/ (At(c, "waiting") /\ qpc'[c] = "relock")
           /\ (\E c \in Consumers : At(c, "waiting")) => (\E c \in Consumers : qpc'[c] = "relock")
<1>1. /\ p \in Threads /\ p \notin Consumers /\ qpc \in [Threads -> PushPlaces \cup PopPlaces]
      /\ \A u \in Producers : u \notin Consumers /\ u \in Threads
      /\ \A u \in Consumers : u \in Threads
      /\ "idle" \in PushPlaces /\ "relock" \in PopPlaces
  BY QueueAssumption DEF Orderly, QueueTypeOK, Threads, PushPlaces, PopPlaces
<1>2. UNCHANGED <<ringVars, stopped, sleepers, spinners, inFlight, mtx, snap, closer>>
  BY DEF PushNotify, counters
<1>3. ASSUME NEW c \in Consumers, At(c, "waiting"),
             qpc' = [qpc EXCEPT ![p] = "idle", ![c] = "relock"]
      PROVE  /\ qpc' \in [Threads -> PushPlaces \cup PopPlaces]
             /\ qpc'[p] = "idle" /\ qpc'[c] = "relock"
             /\ \A u \in Threads : u # p /\ u # c => qpc'[u] = qpc[u]
  BY <1>1, <1>3
<1>4. CASE (\A c \in Consumers : ~At(c, "waiting")) /\ Step(p, "idle")
  BY <1>1, <1>2, <1>4 DEF PushNotify, Step, At
<1> QED
  BY <1>1, <1>2, <1>3, <1>4 DEF PushNotify, At

\* What a step inside the ring is to the queue: one caller moves on, or is back.
LEMMA RingMoves ==
    ASSUME Orderly, NEW t \in Threads, RingStep(t)
    PROVE  /\ UNCHANGED queueVars
           /\ Alone(t)
           /\ \/ PushStep(t) /\ rpc[t] \in PushLabels /\ rpc'[t] \in PushLabels \cup {"out"}
              \/ PopStep(t) /\ rpc[t] \in PopLabels /\ rpc'[t] \in PopLabels \cup {"out"}
<1> USE DEF Sound, RingTypeOK
<1>1. UNCHANGED queueVars
  BY DEF RingStep
<1>2. qpc' = [qpc EXCEPT ![t] = qpc'[t]]
  BY <1>1 DEF queueVars, Orderly, QueueTypeOK
<1>3. CASE PushStep(t)
  BY <1>1, <1>2, <1>3 DEF Orderly, Alone, PushStep, PushLoad, PushSeq, PushFull, PushClaim,
     PushCasFails, PushMove, PushPublish, Claimed, Goto, Return, RelaxedLoad, PushLabels
<1>4. CASE PopStep(t)
  BY <1>1, <1>2, <1>4 DEF Orderly, Alone, PopStep, PopLoad, PopSeq, PopEmpty, PopClaim,
     PopCasFails, PopMove, PopPublish, Goto, Return, RelaxedLoad, PopLabels
<1> QED
  BY <1>3, <1>4 DEF RingStep

\* try_push() gives the item back when it fails.
LEMMA RingPush ==
    ASSUME Orderly, NEW p \in Producers, RingStep(p)
    PROVE  PushStep(p) /\ PushCalls(p)' /\ PushCarries(p)'
<1>1. /\ p \in Threads /\ PushCalls(p) /\ UNCHANGED queueVars
      /\ rpc \in [Threads -> PushLabels \cup PopLabels \cup {"out"}]
      /\ rret \in [Threads -> BOOLEAN]
      /\ rpc[p] \in PushLabels \ {"pushPublish"} => item[p] \in Items
  BY DEF Orderly, Sound, RingTypeOK, Calls, Threads, Contents, RingStep
<1>2. PushStep(p) /\ rpc[p] \in PushLabels /\ rpc'[p] \in PushLabels \cup {"out"}
  BY <1>1, RingMoves DEF PushCalls, PushLabels, PopLabels
<1>3. PushCalls(p)'
  BY <1>1, <1>2 DEF PushCalls, queueVars, At, PushLabels
<1>4. ASSUME Returned(p, FALSE)' PROVE item'[p] \in Items
  <2>1. PushFull(p)
    BY <1>1, <1>2, <1>4 DEF PushStep, PushLoad, PushSeq, PushFull, PushClaim, PushCasFails,
       PushMove, PushPublish, Claimed, Goto, Return, Returned
  <2> QED
    BY <1>1, <2>1 DEF PushFull, PushLabels
<1>5. ~At(p, "check")'
  BY <1>1, <1>2 DEF PushCalls, queueVars, At, PushLabels
<1> QED
  BY <1>2, <1>3, <1>4, <1>5 DEF PushCarries

\* try_pop() hands out an item exactly when it succeeds.
LEMMA RingPop ==
    ASSUME Orderly, NEW c \in Consumers, RingStep(c)
    PROVE  PopStep(c) /\ PopCalls(c)' /\ PopCarries(c)'
<1>1. /\ c \in Threads /\ PopCalls(c) /\ PopCarries(c) /\ UNCHANGED queueVars
      /\ rpc \in [Threads -> PushLabels \cup PopLabels \cup {"out"}]
      /\ rret \in [Threads -> BOOLEAN] /\ item \in [Threads -> Items \cup {Empty}]
  BY DEF Orderly, Sound, RingTypeOK, Calls, Carries, Threads, RingStep
<1>2. PopStep(c) /\ rpc[c] \in PopLabels /\ rpc'[c] \in PopLabels \cup {"out"}
  BY <1>1, RingMoves DEF PopCalls, PushLabels, PopLabels
<1>3. PopCalls(c)'
  BY <1>1, <1>2 DEF PopCalls, queueVars, At, PopLabels
<1>4. qpc'[c] = qpc[c] /\ qpc[c] \in Trying
  BY <1>1, <1>2 DEF PopCalls, queueVars, PopLabels
<1>5. CASE PopMove(c)
  <2>1. data[Cell(c)] = hist[pos[c] + 1] /\ pos[c] + 1 \in 1 .. Len(hist)
    BY <1>1, <1>5 DEF PopMove, Goto, Orderly, Sound, Contents, Positions, Bounded, RingTypeOK,
       Emptying
  <2>2. data[Cell(c)] \in Items
    BY <2>1 DEF Orderly, Sound, RingTypeOK
  <2> QED
    BY <1>1, <1>2, <1>3, <1>5, <2>2, RingAssumption DEF PopMove, Goto, PopCarries
<1>6. CASE PopPublish(c)
  BY <1>1, <1>2, <1>3, <1>4, <1>6 DEF PopPublish, Return, PopCarries, Returned
<1>7. CASE PopLoad(c) \/ PopSeq(c) \/ PopClaim(c) \/ PopCasFails(c)
  <2>1. /\ rpc[c] \in {"popLoad", "popSeq", "popCas"}
        /\ rpc'[c] \in {"popLoad", "popSeq", "popCas", "popMove"}
        /\ item' = item /\ qpc[c] # "busy"
    BY <1>1, <1>4, <1>7 DEF PopLoad, PopSeq, PopClaim, PopCasFails, Goto, Trying
  <2> QED
    BY <1>1, <1>2, <1>3, <1>4, <2>1 DEF PopCarries, Returned, At
<1>8. CASE PopEmpty(c)
  BY <1>1, <1>2, <1>3, <1>4, <1>8 DEF PopEmpty, Return, PopCarries, Returned, At, Trying
<1> QED
  BY <1>2, <1>5, <1>6, <1>7, <1>8 DEF PopStep

-----------------------------------------------------------------------------
(* Labels, items and counters                                              *)

\* A notification: workers that wait may be woken, and nothing else happens.
Wakes ==
    /\ UNCHANGED <<ringVars, sleepers, spinners, inFlight, mtx, snap>>
    /\ stopped' \in BOOLEAN
    /\ qpc' \in [Threads -> PushPlaces \cup PopPlaces]
    /\ \A p \in Producers : qpc'[p] = qpc[p] \/ (qpc[p] = "notify" /\ qpc'[p] = "idle")
    /\ \A c \in Consumers : qpc'[c] = qpc[c] \/ (qpc[c] = "waiting" /\ qpc'[c] = "relock")

\* push()'s notification is one.
LEMMA NotifyWakes ==
    ASSUME Orderly, NEW p \in Producers, PushNotify(p)
    PROVE  Wakes
  BY NotifyMoves DEF Wakes, Orderly, QueueTypeOK, At

\* shutdown() touches the workers that wait, and no one else.
LEMMA ShutWakes ==
    ASSUME Orderly, Shutdown \/ ShutdownLock \/ ShutdownNotify
    PROVE  Wakes
<1>1. /\ qpc \in [Threads -> PushPlaces \cup PopPlaces] /\ "relock" \in PopPlaces
      /\ \A p \in Producers : p \in Threads /\ ~At(p, "waiting")
      /\ \A c \in Consumers : c \in Threads
      /\ stopped \in BOOLEAN
  BY DEF Orderly, QueueTypeOK, PopPlaces, PushPlaces, Threads, At
<1>2. UNCHANGED <<ringVars, sleepers, spinners, inFlight, mtx, snap>>
  BY DEF Shutdown, ShutdownLock, ShutdownNotify, counters
<1>3. stopped' \in BOOLEAN
  BY <1>1 DEF Shutdown, ShutdownLock, ShutdownNotify, counters
<1>4. CASE ShutdownNotify
  BY <1>1, <1>2, <1>3, <1>4 DEF ShutdownNotify, Wakes, At
<1>5. CASE Shutdown \/ ShutdownLock
  BY <1>1, <1>2, <1>3, <1>5 DEF Shutdown, ShutdownLock, Wakes
<1> QED
  BY <1>4, <1>5

\* Who a step of the queue is a step of.
LEMMA Movers ==
    ASSUME Orderly, [QueueNext]_allVars
    PROVE  \/ \E p \in Producers : PushMoves(p)
           \/ \E c \in Consumers : PopMoves(c)
           \/ \E t \in Threads : RingStep(t)
           \/ Wakes
           \/ UNCHANGED allVars
  BY PushLocal, PopLocal, NotifyWakes, ShutWakes DEF QueueNext

\* Every thread keeps to its labels and its item.
LEMMA NextPlaces ==
    ASSUME Orderly, [QueueNext]_allVars
    PROVE  QueueTypeOK' /\ Calls' /\ Carries'
<1>1. /\ QueueTypeOK /\ Calls /\ Carries
      /\ \A p \in Producers : p \in Threads /\ p \notin Consumers
      /\ \A c \in Consumers : c \in Threads /\ c \notin Producers
  BY QueueAssumption DEF Orderly, Threads
<1>2. ASSUME NEW p \in Producers, PushMoves(p) PROVE QueueTypeOK' /\ Calls' /\ Carries'
  <2>1. QueueTypeOK'
    BY <1>1, <1>2 DEF PushMoves, Alone, QueueTypeOK
  <2>2. \A u \in Threads : u # p =>
           qpc'[u] = qpc[u] /\ rpc'[u] = rpc[u] /\ rret'[u] = rret[u] /\ item'[u] = item[u]
    BY <1>1, <1>2 DEF PushMoves, Alone, QueueTypeOK
  <2>3. Calls'
    BY <1>1, <1>2, <2>2 DEF PushMoves, Calls, PushCalls, PopCalls, At
  <2>4. Carries'
    BY <1>1, <1>2, <2>2 DEF PushMoves, Carries, PushCarries, PopCarries, At, Returned
  <2> QED
    BY <2>1, <2>3, <2>4
<1>3. ASSUME NEW c \in Consumers, PopMoves(c) PROVE QueueTypeOK' /\ Calls' /\ Carries'
  <2>1. QueueTypeOK'
    BY <1>1, <1>3 DEF PopMoves, Alone, QueueTypeOK
  <2>2. \A u \in Threads : u # c =>
           qpc'[u] = qpc[u] /\ rpc'[u] = rpc[u] /\ rret'[u] = rret[u] /\ item'[u] = item[u]
    BY <1>1, <1>3 DEF PopMoves, Alone, QueueTypeOK
  <2>3. Calls'
    BY <1>1, <1>3, <2>2 DEF PopMoves, Calls, PushCalls, PopCalls, At
  <2>4. Carries'
    BY <1>1, <1>3, <2>2 DEF PopMoves, Carries, PushCarries, PopCarries, At, Returned
  <2> QED
    BY <2>1, <2>3, <2>4
<1>4. CASE Wakes
  <2>1. QueueTypeOK'
    BY <1>1, <1>4 DEF QueueTypeOK, Wakes, PushPlaces, PopPlaces
  <2>2. Calls'
    BY <1>1, <1>4 DEF Wakes, Calls, PushCalls, PopCalls, At, Trying, ringVars
  <2>3. Carries'
    BY <1>1, <1>4 DEF Wakes, Carries, PushCarries, PopCarries, At, Returned, Trying, ringVars
  <2> QED
    BY <2>1, <2>2, <2>3
<1>5. ASSUME NEW t \in Threads, RingStep(t) PROVE QueueTypeOK' /\ Calls' /\ Carries'
  <2>1. QueueTypeOK'
    BY <1>1, <1>5, RingMoves DEF QueueTypeOK, queueVars
  <2>2. /\ qpc' = qpc
        /\ \A u \in Threads : u # t =>
              rpc'[u] = rpc[u] /\ rret'[u] = rret[u] /\ item'[u] = item[u]
    BY <1>5, RingMoves DEF queueVars, Alone
  <2>3. /\ t \in Producers => PushCalls(t)' /\ PushCarries(t)'
        /\ t \in Consumers => PopCalls(t)' /\ PopCarries(t)'
    BY <1>5, RingPush, RingPop
  <2>4. Calls'
    BY <1>1, <2>2, <2>3 DEF Calls, PushCalls, PopCalls, At
  <2>5. Carries'
    BY <1>1, <2>2, <2>3 DEF Carries, PushCarries, PopCarries, At, Returned
  <2> QED
    BY <2>1, <2>4, <2>5
<1>6. CASE UNCHANGED allVars
  <2>1. UNCHANGED <<qpc, rpc, rret, item, snap, stopped>>
    BY <1>6 DEF allVars, queueVars, ringVars
  <2> QED
    BY <1>1, <2>1 DEF QueueTypeOK, Calls, Carries, PushCalls, PopCalls, PushCarries, PopCarries,
       At, Returned
<1> QED
  BY <1>2, <1>3, <1>4, <1>5, <1>6, Movers

\* The counters follow the threads.
LEMMA NextCounts ==
    ASSUME Orderly, [QueueNext]_allVars
    PROVE  SleepersExact' /\ SpinnersExact' /\ InFlightExact'
<1>1. /\ SleepersExact /\ SpinnersExact /\ InFlightExact
      /\ IsFiniteSet(Producers) /\ IsFiniteSet(Consumers)
      /\ qpc \in [Threads -> PushPlaces \cup PopPlaces]
      /\ \A p \in Producers : p \in Threads /\ p \notin Consumers
      /\ \A c \in Consumers : c \in Threads /\ c \notin Producers
  BY QueueAssumption DEF Orderly, QueueTypeOK, Threads
<1>2. ASSUME NEW p \in Producers, PushMoves(p)
      PROVE  SleepersExact' /\ SpinnersExact' /\ InFlightExact'
  <2>1. \A u \in Threads : u # p => qpc'[u] = qpc[u]
    BY <1>1, <1>2 DEF PushMoves, Alone
  <2>2. \A u \in Consumers : qpc'[u] = qpc[u]
    BY <1>1, <2>1
  <2>3. Count(Consumers, Sleepers)' = Count(Consumers, Sleepers)
    BY <2>2, CountSame
  <2>4. Count(Consumers, Spinning)' = Count(Consumers, Spinning)
    BY <2>2, CountSame
  <2>5. Count(Producers, Pushing)' =
            Count(Producers, Pushing) + One(qpc'[p] \in Pushing) - One(qpc[p] \in Pushing)
    BY <1>1, <2>1, CountMoves
  <2> QED
    BY <1>1, <1>2, <2>3, <2>4, <2>5 DEF PushMoves, SleepersExact, SpinnersExact, InFlightExact
<1>3. ASSUME NEW c \in Consumers, PopMoves(c)
      PROVE  SleepersExact' /\ SpinnersExact' /\ InFlightExact'
  <2>1. \A u \in Threads : u # c => qpc'[u] = qpc[u]
    BY <1>1, <1>3 DEF PopMoves, Alone
  <2>2. \A u \in Producers : qpc'[u] = qpc[u]
    BY <1>1, <2>1
  <2>3. Count(Producers, Pushing)' = Count(Producers, Pushing)
    BY <2>2, CountSame
  <2>4. Count(Consumers, Spinning)' =
            Count(Consumers, Spinning) + One(qpc'[c] \in Spinning) - One(qpc[c] \in Spinning)
    BY <1>1, <2>1, CountMoves
  <2>5. Count(Consumers, Sleepers)' =
            Count(Consumers, Sleepers) + One(qpc'[c] \in Sleepers) - One(qpc[c] \in Sleepers)
    BY <1>1, <2>1, CountMoves
  <2> QED
    BY <1>1, <1>3, <2>3, <2>4, <2>5 DEF PopMoves, SleepersExact, SpinnersExact, InFlightExact
<1>4. CASE Wakes
  <2>1. \A p \in Producers : qpc'[p] \in Pushing <=> qpc[p] \in Pushing
    BY <1>4 DEF Wakes, Pushing
  <2>2. \A c \in Consumers : /\ qpc'[c] \in Sleepers <=> qpc[c] \in Sleepers
                             /\ qpc'[c] \in Spinning <=> qpc[c] \in Spinning
    BY <1>4 DEF Wakes, Sleepers, Spinning
  <2>3. /\ Count(Producers, Pushing)' = Count(Producers, Pushing)
        /\ Count(Consumers, Sleepers)' = Count(Consumers, Sleepers)
        /\ Count(Consumers, Spinning)' = Count(Consumers, Spinning)
    BY <2>1, <2>2, CountSame
  <2> QED
    BY <1>1, <1>4, <2>3 DEF Wakes, SleepersExact, SpinnersExact, InFlightExact
<1>5. CASE UNCHANGED <<qpc, sleepers, spinners, inFlight>>
  BY <1>1, <1>5 DEF SleepersExact, SpinnersExact, InFlightExact, Count
<1>6. (\E t \in Threads : RingStep(t)) \/ UNCHANGED allVars
          => UNCHANGED <<qpc, sleepers, spinners, inFlight>>
  BY DEF RingStep, allVars, queueVars
<1> QED
  BY <1>2, <1>3, <1>4, <1>5, <1>6, Movers

\* Nobody takes parkMtx_ from its holder.
LEMMA NextLocked ==
    ASSUME Orderly, [QueueNext]_allVars
    PROVE  Locked'
<1>1. /\ Locked
      /\ qpc \in [Threads -> PushPlaces \cup PopPlaces]
      /\ \A p \in Producers : p \in Threads /\ p \notin Consumers
      /\ \A c \in Consumers : c \in Threads /\ c # Free
  BY QueueAssumption DEF Orderly, QueueTypeOK, Threads
<1>2. ASSUME NEW p \in Producers, PushMoves(p) PROVE Locked'
  <2>1. mtx' = mtx /\ \A c \in Consumers : qpc'[c] = qpc[c]
    BY <1>1, <1>2 DEF PushMoves, Alone
  <2> QED
    BY <1>1, <2>1 DEF Locked, PopLocks
<1>3. ASSUME NEW c \in Consumers, PopMoves(c) PROVE Locked'
  <2>1. \A u \in Consumers : u # c => qpc'[u] = qpc[u]
    BY <1>1, <1>3 DEF PopMoves, Alone
  <2>2. \A u \in Consumers : u # c => (mtx' = u <=> mtx = u)
    BY <1>1, <1>3 DEF PopMoves
  <2> QED
    BY <1>1, <1>3, <2>1, <2>2 DEF PopMoves, Locked, PopLocks
<1>4. CASE Wakes
  BY <1>1, <1>4 DEF Wakes, Locked, PopLocks
<1>5. CASE UNCHANGED <<qpc, mtx>>
  BY <1>1, <1>5 DEF Locked, PopLocks
<1>6. (\E t \in Threads : RingStep(t)) \/ UNCHANGED allVars => UNCHANGED <<qpc, mtx>>
  BY DEF RingStep, allVars, queueVars
<1> QED
  BY <1>2, <1>3, <1>4, <1>5, <1>6, Movers

-----------------------------------------------------------------------------
(* Shutting down                                                           *)

\* While pushersInFlight_ is 0, no push is under way.
LEMMA NoneInFlight ==
    ASSUME Orderly, inFlight = 0
    PROVE  NoPush
<1> DEFINE F == {p \in Producers : qpc[p] \in Pushing}
<1>1. IsFiniteSet(F) /\ Cardinality(F) = 0
  BY QueueAssumption, CountFinite DEF Orderly, InFlightExact, Count
<1>2. F = {}
  BY <1>1, FS_EmptySet
<1> QED
  BY <1>2 DEF NoPush, Pushing, At

\* On every path pop() takes, a worker sleeps only before shutdown_ is set and
\* leaves only after it has seen that no push is under way.
LEMMA PopStops ==
    ASSUME Orderly, NEW c \in Consumers, PopOwn(c) \/ SpuriousWake(c)
    PROVE  StopsRight(c)'
<1>1. PopMoves(c)
  BY PopLocal
<1>2. /\ c \in Threads /\ DOMAIN qpc = Threads /\ DOMAIN rpc = Threads
      /\ rret[c] \in BOOLEAN /\ rret'[c] = rret[c]
      /\ stopped <=> closer # "idle"
      /\ StopsRight(c)
      /\ inFlight = 0 => NoPush
      /\ UNCHANGED <<closer, stopped, head, tail>>
  <2>1. rret' = rret
    BY DEF PopOwn, PopEnter, SpinHit, SpinAgain, Unspin, Announce, RecheckHit, RecheckMiss,
       ExitCheck, PopLeave, PopLast, Park, SizeTail, SizeHead, SizeShut, Sleep, SpuriousWake,
       Unpark, JobDone, TryPop, DropItem, ringVars
  <2> QED
    BY <1>1, <2>1, NoneInFlight DEF PopMoves, Orderly, Sound, RingTypeOK, QueueTypeOK, Stopping,
       Threads
<1>3. NoPush' <=> NoPush
  <2>1. \A p \in Producers : qpc'[p] = qpc[p]
    BY <1>1, <1>2, QueueAssumption DEF PopMoves, Alone, Threads
  <2> QED
    BY <2>1 DEF NoPush, At
<1> USE DEF StopsRight, At, Step, Returned, ringVars, counters
<1>4. CASE PopEnter(c)
  BY <1>2, <1>3, <1>4 DEF PopEnter, TryPop, Goto
<1>5. CASE SpinHit(c)
  BY <1>2, <1>3, <1>5 DEF SpinHit
<1>6. CASE SpinAgain(c)
  BY <1>2, <1>3, <1>6 DEF SpinAgain, TryPop, Goto
<1>7. CASE Unspin(c)
  BY <1>2, <1>3, <1>7 DEF Unspin
<1>8. CASE Announce(c)
  BY <1>2, <1>3, <1>8 DEF Announce, TryPop, Goto
<1>9. CASE RecheckHit(c)
  BY <1>2, <1>3, <1>9 DEF RecheckHit
<1>10. CASE RecheckMiss(c)
  BY <1>2, <1>3, <1>10 DEF RecheckMiss
<1>11. CASE ExitCheck(c)
  BY <1>2, <1>3, <1>11 DEF ExitCheck
<1>12. CASE PopLeave(c)
  BY <1>2, <1>3, <1>12 DEF PopLeave, TryPop, Goto
<1>13. CASE PopLast(c)
  BY <1>2, <1>3, <1>13 DEF PopLast
<1>14. CASE Park(c)
  BY <1>2, <1>3, <1>14 DEF Park
<1>15. CASE SizeTail(c)
  BY <1>2, <1>3, <1>15 DEF SizeTail
<1>16. CASE SizeHead(c)
  BY <1>2, <1>3, <1>16 DEF SizeHead
<1>17. CASE SizeShut(c)
  BY <1>2, <1>3, <1>17 DEF SizeShut
<1>18. CASE Sleep(c)
  BY <1>2, <1>3, <1>18 DEF Sleep
<1>19. CASE SpuriousWake(c)
  BY <1>2, <1>3, <1>19 DEF SpuriousWake
<1>20. CASE Unpark(c)
  BY <1>2, <1>3, <1>20 DEF Unpark
<1>21. CASE JobDone(c)
  BY <1>2, <1>3, <1>21 DEF JobDone
<1> QED
  BY <1>4, <1>5, <1>6, <1>7, <1>8, <1>9, <1>10, <1>11, <1>12, <1>13, <1>14, <1>15, <1>16, <1>17,
     <1>18, <1>19, <1>20, <1>21 DEF PopOwn

\* Only a push fills a cell, and the counters move only by a claim.
LEMMA RingCounters ==
    ASSUME Orderly, NEW t \in Threads, RingStep(t)
    PROVE  /\ tail' = tail \/ (PushClaim(t) /\ t \in Producers /\ At(t, "pushing"))
           /\ head' = head \/ (PopClaim(t) /\ t \in Consumers /\ qpc[t] \in Trying)
<1>1. /\ \A p \in Producers : PushCalls(p)
      /\ \A c \in Consumers : PopCalls(c)
      /\ t \in Producers \/ t \in Consumers
  BY DEF Orderly, Calls, Threads
<1>2. tail' = tail \/ PushClaim(t)
  BY DEF RingStep, PushStep, PopStep, PushLoad, PushSeq, PushFull, PushCasFails, PushMove,
     PushPublish, PopLoad, PopSeq, PopEmpty, PopClaim, PopCasFails, PopMove, PopPublish
<1>3. head' = head \/ PopClaim(t)
  BY DEF RingStep, PushStep, PopStep, PushLoad, PushSeq, PushFull, PushClaim, Claimed,
     PushCasFails, PushMove, PushPublish, PopLoad, PopSeq, PopEmpty, PopCasFails, PopMove,
     PopPublish
<1>4. PushClaim(t) => t \in Producers /\ At(t, "pushing")
  BY <1>1 DEF PushClaim, Claimed, Goto, PushCalls, PopCalls, PopLabels
<1>5. PopClaim(t) => t \in Consumers /\ qpc[t] \in Trying
  BY <1>1 DEF PopClaim, Goto, PushCalls, PopCalls, PushLabels
<1> QED
  BY <1>2, <1>3, <1>4, <1>5

\* A worker that is told to go home has seen the end of the queue.
LEMMA NextStopping ==
    ASSUME Cap > 1, Orderly, [QueueNext]_allVars
    PROVE  Stopping'
<1>1. /\ Stopping
      /\ qpc \in [Threads -> PushPlaces \cup PopPlaces] /\ stopped \in BOOLEAN
      /\ \A p \in Producers : p \in Threads /\ p \notin Consumers
      /\ \A c \in Consumers : c \in Threads /\ c \notin Producers /\ c # Free
      /\ \A c \in Consumers : PopLocks(c) /\ PopCalls(c)
      /\ \A p \in Producers : PushCalls(p)
  BY QueueAssumption DEF Orderly, QueueTypeOK, Threads, Locked, Calls
<1>2. ASSUME NEW p \in Producers, PushMoves(p) PROVE Stopping'
  <2>1. /\ UNCHANGED <<stopped, closer, head, tail>>
        /\ \A c \in Consumers : qpc'[c] = qpc[c] /\ rpc'[c] = rpc[c] /\ rret'[c] = rret[c]
        /\ \A u \in Producers : u # p => qpc'[u] = qpc[u]
    BY <1>1, <1>2 DEF PushMoves, Alone
  <2>2. stopped /\ NoPush => NoPush'
    BY <1>2, <2>1 DEF PushMoves, NoPush, At
  <2> QED
    BY <1>1, <2>1, <2>2 DEF Stopping, StopsRight, At, Returned
<1>3. ASSUME NEW c \in Consumers, PopOwn(c) \/ SpuriousWake(c) PROVE Stopping'
  <2>1. PopMoves(c) /\ StopsRight(c)'
    BY <1>3, PopLocal, PopStops
  <2>2. /\ UNCHANGED <<stopped, closer, head, tail>>
        /\ \A u \in Threads : u # c => qpc'[u] = qpc[u] /\ rpc'[u] = rpc[u] /\ rret'[u] = rret[u]
    BY <1>1, <2>1 DEF PopMoves, Alone
  <2>3. NoPush => NoPush'
    BY <1>1, <2>2 DEF NoPush, At
  <2>4. ASSUME NEW u \in Consumers, u # c PROVE StopsRight(u)'
    BY <1>1, <2>2, <2>3, <2>4 DEF Stopping, StopsRight, At, Returned
  <2> QED
    BY <1>1, <2>1, <2>2, <2>4 DEF Stopping
<1>4. ASSUME UNCHANGED ringVars,
             \A p \in Producers : qpc'[p] = qpc[p] \/ qpc'[p] = "idle",
             \A c \in Consumers : qpc'[c] = qpc[c] \/ qpc'[c] = "relock",
             stopped => stopped'
      PROVE  \A c \in Consumers :
                /\ At(c, "sleep")' => At(c, "sleep")
                /\ At(c, "waiting")' => At(c, "waiting")
                /\ qpc'[c] \in {"exitCheck", "leave", "lastTry", "gone"} => stopped'
                /\ qpc'[c] \in {"leave", "lastTry", "gone"} => NoPush'
                /\ At(c, "gone")' \/ (At(c, "lastTry") /\ Returned(c, FALSE))' => head' = tail'
  <2>1. NoPush => NoPush'
    BY <1>4 DEF NoPush, At
  <2> QED
    BY <1>1, <1>4, <2>1 DEF Stopping, StopsRight, At, Returned, ringVars
<1>5. ASSUME NEW p \in Producers, PushNotify(p) PROVE Stopping'
  <2>1. /\ UNCHANGED <<ringVars, stopped, closer>>
        /\ \A u \in Producers : qpc'[u] = qpc[u] \/ qpc'[u] = "idle"
        /\ \A c \in Consumers : qpc'[c] = qpc[c] \/ qpc'[c] = "relock"
    BY <1>5, NotifyMoves
  <2> QED
    BY <1>1, <1>4, <2>1 DEF Stopping, StopsRight
<1>6. CASE Shutdown
  <2>1. UNCHANGED <<ringVars, qpc>> /\ stopped' = TRUE /\ closer' = "lock"
    BY <1>6 DEF Shutdown
  <2> QED
    BY <1>1, <1>4, <2>1 DEF Stopping, StopsRight
<1>7. CASE ShutdownLock
  <2>1. UNCHANGED <<ringVars, qpc, stopped>> /\ closer = "lock" /\ closer' = "notify"
    BY <1>7 DEF ShutdownLock, counters
  <2>2. \A c \in Consumers : ~At(c, "sleep")
    BY <1>1, <1>7 DEF ShutdownLock, PopLocks, At
  <2> QED
    BY <1>1, <1>4, <2>1, <2>2 DEF Stopping, StopsRight
<1>8. CASE ShutdownNotify
  <2>1. UNCHANGED <<ringVars, stopped>> /\ closer = "notify" /\ closer' = "done"
    BY <1>8 DEF ShutdownNotify, counters
  <2>2. /\ \A p \in Producers : qpc'[p] = qpc[p] \/ qpc'[p] = "idle"
        /\ \A c \in Consumers : qpc'[c] = qpc[c] \/ qpc'[c] = "relock"
    BY <1>8, ShutWakes DEF Wakes
  <2>3. \A c \in Consumers : ~At(c, "waiting")'
    BY <1>1, <1>8 DEF ShutdownNotify, At
  <2> QED
    BY <1>1, <1>4, <2>1, <2>2, <2>3 DEF Stopping, StopsRight
<1>9. ASSUME NEW t \in Threads, RingStep(t) PROVE Stopping'
  <2>1. /\ UNCHANGED <<qpc, stopped, closer>>
        /\ NoPush' <=> NoPush
        /\ \A u \in Threads : u # t => rpc'[u] = rpc[u] /\ rret'[u] = rret[u]
    BY <1>9, RingMoves DEF queueVars, Alone, NoPush, At
  <2>2. ASSUME NEW c \in Consumers, NoPush, head = tail PROVE head' = tail'
    <3>1. tail' = tail
      BY <1>9, <2>2, RingCounters DEF NoPush
    <3>2. Sound'
      BY <1>9, NextRing DEF QueueNext
    <3>3. ~PopClaim(t)
      BY <2>2, <3>1, <3>2 DEF PopClaim, Sound, RingTypeOK, Bounded
    <3> QED
      BY <1>9, <2>2, <3>1, <3>3, RingCounters
  <2>3. ASSUME t \in Consumers, At(t, "lastTry"), Returned(t, FALSE)' PROVE head' = tail'
    <3>1. PopStep(t)
      BY <1>9, <2>3, RingPop
    <3>2. PopEmpty(t)
      BY <2>3, <3>1 DEF PopStep, PopLoad, PopSeq, PopEmpty, PopClaim, PopCasFails, PopMove,
         PopPublish, Goto, Return, Returned, Orderly, Sound, RingTypeOK
    <3>3. NoPush
      BY <1>1, <2>3 DEF Stopping, StopsRight, At
    <3>4. \A u \in Threads : ~Filling(u)
      BY <1>1, <3>3 DEF NoPush, Filling, Threads, PushCalls, PopCalls, PopLabels
    <3>5. head = tail
      BY <3>2, <3>4, EmptyIsTrue DEF Orderly
    <3> QED
      BY <3>2, <3>5 DEF PopEmpty
  <2>4. ASSUME NEW c \in Consumers PROVE StopsRight(c)'
    <3>1. StopsRight(c)
      BY <1>1 DEF Stopping
    <3>2. At(c, "gone")' => head' = tail'
      BY <2>1, <2>2, <3>1 DEF StopsRight, At
    <3>3. (At(c, "lastTry") /\ Returned(c, FALSE))' => head' = tail'
      <4>1. CASE c = t
        BY <2>1, <2>3, <4>1 DEF At
      <4>2. CASE c # t
        BY <1>1, <2>1, <2>2, <3>1, <4>2 DEF StopsRight, At, Returned
      <4> QED
        BY <4>1, <4>2
    <3> QED
      BY <2>1, <3>1, <3>2, <3>3 DEF StopsRight, At
  <2> QED
    BY <1>1, <2>1, <2>4 DEF Stopping
<1>10. CASE UNCHANGED allVars
  BY <1>1, <1>4, <1>10 DEF allVars, queueVars, Stopping, StopsRight
<1> QED
  BY <1>2, <1>3, <1>5, <1>6, <1>7, <1>8, <1>9, <1>10, PushLocal DEF QueueNext

-----------------------------------------------------------------------------
(* Wake-ups                                                                *)

\* A worker falls asleep only after it has found the ring empty.
LEMMA PopTires ==
    ASSUME Orderly, ~stopped, head < tail, NEW c \in Consumers, PopOwn(c) \/ SpuriousWake(c)
    PROVE  Awake(c)' \/ Tired(c)
<1>1. /\ c \in Threads /\ DOMAIN qpc = Threads /\ snap \in [Consumers -> Nat]
      /\ head \in Nat /\ tail \in Nat /\ ~(tail <= head)
      /\ qpc[c] \notin {"lastTry", "leave", "exitCheck", "gone"}
  <2>1. qpc[c] \notin {"lastTry", "leave", "exitCheck", "gone"}
    BY DEF Orderly, Stopping, StopsRight
  <2> QED
    BY <2>1 DEF Orderly, Sound, RingTypeOK, QueueTypeOK, Threads
<1> USE DEF Awake, Tired, At, Step, ringVars, counters
<1>2. CASE PopEnter(c)
  BY <1>1, <1>2 DEF PopEnter
<1>3. CASE SpinHit(c)
  BY <1>1, <1>3 DEF SpinHit
<1>4. CASE SpinAgain(c)
  BY <1>1, <1>4 DEF SpinAgain
<1>5. CASE Unspin(c)
  BY <1>1, <1>5 DEF Unspin
<1>6. CASE Announce(c)
  BY <1>1, <1>6 DEF Announce
<1>7. CASE RecheckHit(c)
  BY <1>1, <1>7 DEF RecheckHit
<1>8. CASE RecheckMiss(c)
  BY <1>1, <1>8 DEF RecheckMiss
<1>9. CASE ExitCheck(c)
  BY <1>1, <1>9 DEF ExitCheck
<1>10. CASE PopLeave(c)
  BY <1>1, <1>10 DEF PopLeave
<1>11. CASE PopLast(c)
  BY <1>1, <1>11 DEF PopLast
<1>12. CASE Park(c)
  BY <1>1, <1>12 DEF Park
<1>13. CASE SizeTail(c)
  BY <1>1, <1>13 DEF SizeTail
<1>14. CASE SizeHead(c)
  BY <1>1, <1>14 DEF SizeHead
<1>15. CASE SizeShut(c)
  BY <1>1, <1>15 DEF SizeShut
<1>16. CASE Sleep(c)
  BY <1>1, <1>16 DEF Sleep
<1>17. CASE SpuriousWake(c)
  BY <1>1, <1>17 DEF SpuriousWake
<1>18. CASE Unpark(c)
  BY <1>1, <1>18 DEF Unpark
<1>19. CASE JobDone(c)
  BY <1>1, <1>19 DEF JobDone
<1> QED
  BY <1>2, <1>3, <1>4, <1>5, <1>6, <1>7, <1>8, <1>9, <1>10, <1>11, <1>12, <1>13, <1>14, <1>15,
     <1>16, <1>17, <1>18, <1>19 DEF PopOwn

\* Nobody counts in sleepers_: nobody sleeps, or is about to.
LEMMA NoneAsleep ==
    ASSUME Orderly, ~(sleepers > 0)
    PROVE  \A c \in Consumers : qpc[c] \notin Sleepers
<1> DEFINE F == {c \in Consumers : qpc[c] \in Sleepers}
<1>1. IsFiniteSet(F)
  BY QueueAssumption, CountFinite
<1>2. Cardinality(F) = 0
  BY <1>1, FS_CardinalityType DEF Orderly, SleepersExact, Count
<1>3. F = {}
  BY <1>1, <1>2, FS_EmptySet
<1> QED
  BY <1>3

\* A spinner that counts in spinners_ is there.
LEMMA SomeSpins ==
    ASSUME Orderly, spinners # 0
    PROVE  \E c \in Consumers : qpc[c] \in Spinning
<1> DEFINE F == {c \in Consumers : qpc[c] \in Spinning}
<1>1. Cardinality(F) # 0
  BY DEF Orderly, SpinnersExact, Count
<1>2. F # {}
  BY <1>1, FS_EmptySet
<1> QED
  BY <1>2

\* A push raises the alarm until somebody has heard it: a spinner, or the
\* lock that the workers hold while they look at the ring for the last time.
LEMMA PushAlarms ==
    ASSUME Orderly, ~stopped, NEW p \in Producers, PushOwn(p), ~PushNotify(p),
           Alarm(p) \/ At(p, "notify")
    PROVE  \/ Alarm(p)'
           \/ \A c \in Consumers : qpc[c] \notin Sleepers
           \/ \E c \in Consumers : qpc[c] \in Spinning
           \/ mtx = Free /\ At(p, "notify")'
<1>1. /\ p \in Threads /\ DOMAIN qpc = Threads /\ rret[p] \in BOOLEAN
      /\ PushCalls(p) /\ (Alarm(p) \/ At(p, "notify"))
  BY DEF Orderly, Sound, RingTypeOK, QueueTypeOK, Calls, Threads
<1> USE DEF Alarm, At, Step, Returned, PushCalls, Filling, ringVars, counters
<1>2. CASE PushTry(p) \/ PushStopped(p) \/ PushAbort(p)
  BY <1>1, <1>2 DEF PushTry, TryPush, Goto, PushStopped, PushAbort
<1>3. CASE PushDone(p)
  BY <1>1, <1>3 DEF PushDone
<1>4. CASE PushSleepers(p)
  BY <1>1, <1>4, NoneAsleep DEF PushSleepers
<1>5. CASE PushSpinners(p)
  BY <1>1, <1>5, SomeSpins DEF PushSpinners
<1>6. CASE PushLock(p)
  BY <1>1, <1>6 DEF PushLock
<1> QED
  BY <1>2, <1>3, <1>4, <1>5, <1>6 DEF PushOwn

\* A worker whose own state and whose view of head_ are as before feels as before.
LEMMA StaysAwake ==
    ASSUME NEW c \in Consumers, qpc'[c] = qpc[c], snap'[c] = snap[c], head' = head
    PROVE  (Awake(c)' <=> Awake(c)) /\ (Tired(c)' <=> Tired(c))
  BY DEF Awake, Tired, At

\* A push whose own state is as before is as loud as before.
LEMMA StaysLoud ==
    ASSUME NEW p \in Producers, qpc'[p] = qpc[p], rpc'[p] = rpc[p], rret'[p] = rret[p]
    PROVE  (Alarm(p)' <=> Alarm(p)) /\ (At(p, "notify")' <=> At(p, "notify"))
  BY DEF Alarm, At, Returned, Filling

\* A step of a worker outside the ring touches its own snap only.
LEMMA SnapAlone ==
    ASSUME Orderly, NEW c \in Consumers, PopOwn(c) \/ SpuriousWake(c),
           NEW u \in Consumers, u # c
    PROVE  snap'[u] = snap[u]
  BY DEF Orderly, QueueTypeOK, PopOwn, PopEnter, SpinHit, SpinAgain, Unspin, Announce, RecheckHit,
     RecheckMiss, ExitCheck, PopLeave, PopLast, Park, SizeTail, SizeHead, SizeShut, Sleep,
     SpuriousWake, Unpark, JobDone

\* No item is left with everybody asleep and nobody about to wake them.
LEMMA NextAttended ==
    ASSUME Orderly, [QueueNext]_allVars
    PROVE  Attended'
<1>1. /\ Attended /\ Locked
      /\ qpc \in [Threads -> PushPlaces \cup PopPlaces] /\ stopped \in BOOLEAN
      /\ \A p \in Producers : p \in Threads /\ p \notin Consumers
      /\ \A c \in Consumers : c \in Threads /\ c \notin Producers /\ c # Free
  BY QueueAssumption DEF Orderly, QueueTypeOK, Threads
<1> SUFFICES ASSUME (~stopped /\ head < tail)'
             PROVE  /\ (\E c \in Consumers : Tired(c))' => Watched'
                    /\ (\E c \in Consumers : At(c, "waiting"))' =>
                           Watched' \/ (\E p \in Producers : At(p, "notify"))'
  BY DEF Attended
<1>2. ASSUME NEW c \in Consumers, PopOwn(c) \/ SpuriousWake(c) PROVE Watched'
  <2>1. PopMoves(c)
    BY <1>2, PopLocal
  <2>2. /\ ~stopped /\ head < tail
        /\ UNCHANGED <<stopped, head, tail>>
        /\ \A u \in Threads : u # c => qpc'[u] = qpc[u] /\ rpc'[u] = rpc[u] /\ rret'[u] = rret[u]
    BY <1>1, <2>1 DEF PopMoves, Alone
  <2>3. \A p \in Producers : Alarm(p)' <=> Alarm(p)
    BY <1>1, <2>2, StaysLoud
  <2>4. ASSUME NEW u \in Consumers, u # c PROVE Awake(u)' <=> Awake(u)
    BY <1>1, <1>2, <2>2, <2>4, StaysAwake, SnapAlone
  <2>5. Awake(c)' \/ Tired(c)
    BY <1>2, <2>2, PopTires
  <2>6. CASE Tired(c)
    <3>1. Watched /\ ~Awake(c)
      BY <1>1, <2>2, <2>6 DEF Attended, Awake
    <3> QED
      BY <2>3, <2>4, <3>1 DEF Watched
  <2> QED
    BY <2>5, <2>6 DEF Watched
<1>3. ASSUME NEW p \in Producers, PushMoves(p), UNCHANGED rret,
             \/ ~(Alarm(p) \/ At(p, "notify"))
             \/ Alarm(p)'
             \/ \A c \in Consumers : qpc[c] \notin Sleepers
             \/ \E c \in Consumers : qpc[c] \in Spinning
             \/ mtx = Free /\ At(p, "notify")'
      PROVE  /\ (\E c \in Consumers : Tired(c))' => Watched'
             /\ (\E c \in Consumers : At(c, "waiting"))' =>
                    Watched' \/ (\E u \in Producers : At(u, "notify"))'
  <2>1. /\ ~stopped /\ head < tail
        /\ UNCHANGED <<stopped, head, tail, snap>>
        /\ \A u \in Threads : u # p => qpc'[u] = qpc[u] /\ rpc'[u] = rpc[u] /\ rret'[u] = rret[u]
    BY <1>1, <1>3 DEF PushMoves, Alone
  <2>2. \A u \in Producers : u # p =>
            (Alarm(u)' <=> Alarm(u)) /\ (At(u, "notify")' <=> At(u, "notify"))
    BY <1>1, <2>1, StaysLoud
  <2>3. \A c \in Consumers : /\ Awake(c)' <=> Awake(c)
                             /\ Tired(c)' <=> Tired(c)
                             /\ At(c, "waiting")' <=> At(c, "waiting")
    BY <1>1, <2>1, StaysAwake DEF At
  <2>4. CASE ~(Alarm(p) \/ At(p, "notify"))
    BY <1>1, <2>1, <2>2, <2>3, <2>4 DEF Attended, Watched
  <2>5. CASE Alarm(p)'
    BY <2>5 DEF Watched
  <2>6. CASE \A c \in Consumers : qpc[c] \notin Sleepers
    <3>1. \A c \in Consumers : ~Tired(c) /\ ~At(c, "waiting")
      BY <2>6 DEF Tired, At, Sleepers
    <3> QED
      BY <2>3, <3>1
  <2>7. CASE \E c \in Consumers : qpc[c] \in Spinning
    <3>1. \E c \in Consumers : Awake(c)
      BY <2>7 DEF Awake, Tired, At, Spinning
    <3> QED
      BY <2>3, <3>1 DEF Watched
  <2>8. CASE mtx = Free /\ At(p, "notify")'
    <3>1. \A c \in Consumers : ~Tired(c)
      BY <1>1, <2>8 DEF Locked, PopLocks, Tired, At
    <3> QED
      BY <2>3, <2>8, <3>1
  <2> QED
    BY <1>3, <2>4, <2>5, <2>6, <2>7, <2>8
<1>4. ASSUME NEW p \in Producers, PushOwn(p), ~PushNotify(p)
      PROVE  /\ (\E c \in Consumers : Tired(c))' => Watched'
             /\ (\E c \in Consumers : At(c, "waiting"))' =>
                    Watched' \/ (\E u \in Producers : At(u, "notify"))'
  <2>1. PushMoves(p) /\ ~stopped
    BY <1>4, PushLocal DEF PushMoves
  <2>2. UNCHANGED rret
    BY <1>4 DEF PushOwn, PushTry, TryPush, PushStopped, PushAbort, DropItem, PushDone,
       PushSleepers, PushSpinners, PushLock, ringVars
  <2> QED
    BY <1>3, <1>4, <2>1, <2>2, PushAlarms
<1>5. ASSUME NEW p \in Producers, NEW x \in Items, Push(p, x)
      PROVE  /\ (\E c \in Consumers : Tired(c))' => Watched'
             /\ (\E c \in Consumers : At(c, "waiting"))' =>
                    Watched' \/ (\E u \in Producers : At(u, "notify"))'
  <2>1. PushMoves(p) /\ UNCHANGED rret
    BY <1>5, PushLocal DEF Push
  <2>2. ~(Alarm(p) \/ At(p, "notify"))
    BY <1>5 DEF Push, Alarm, At
  <2> QED
    BY <1>3, <2>1, <2>2
<1>6. ASSUME NEW p \in Producers, PushNotify(p)
      PROVE  /\ (\E c \in Consumers : Tired(c))' => Watched'
             /\ (\E c \in Consumers : At(c, "waiting"))' =>
                    Watched' \/ (\E u \in Producers : At(u, "notify"))'
  <2>1. /\ UNCHANGED <<ringVars, stopped, snap>>
        /\ \A u \in Producers : u # p => qpc'[u] = qpc[u]
        /\ \A c \in Consumers : qpc'[c] = qpc[c] \/ (At(c, "waiting") /\ qpc'[c] = "relock")
        /\ (\E c \in Consumers : At(c, "waiting")) => (\E c \in Consumers : qpc'[c] = "relock")
        /\ At(p, "notify")
    BY <1>6, NotifyMoves
  <2>2. ASSUME NEW c \in Consumers, qpc'[c] = "relock" PROVE Watched'
    BY <2>2 DEF Watched, Awake, Tired, At
  <2>3. CASE \A c \in Consumers : ~At(c, "waiting")
    <3>1. /\ head < tail /\ ~stopped /\ ~Alarm(p)
          /\ UNCHANGED <<rpc, rret, head>>
      BY <2>1 DEF ringVars, Alarm, At
    <3>2. \A c \in Consumers : /\ Awake(c)' <=> Awake(c)
                               /\ Tired(c)' <=> Tired(c)
                               /\ ~At(c, "waiting")'
      BY <2>1, <2>3, <3>1, StaysAwake DEF At
    <3>3. \A u \in Producers : Alarm(u) => Alarm(u)'
      BY <2>1, <3>1, StaysLoud
    <3> QED
      BY <1>1, <3>1, <3>2, <3>3 DEF Attended, Watched
  <2> QED
    BY <2>1, <2>2, <2>3
<1>7. ASSUME NEW t \in Threads, RingStep(t)
      PROVE  /\ (\E c \in Consumers : Tired(c))' => Watched'
             /\ (\E c \in Consumers : At(c, "waiting"))' =>
                    Watched' \/ (\E u \in Producers : At(u, "notify"))'
  <2>1. /\ UNCHANGED <<qpc, snap, stopped>>
        /\ \A u \in Threads : u # t => rpc'[u] = rpc[u] /\ rret'[u] = rret[u]
    BY <1>7, RingMoves DEF queueVars, Alone
  <2>2. CASE tail' # tail
    <3>1. t \in Producers /\ At(t, "pushing") /\ PushClaim(t)
      BY <1>7, <2>2, RingCounters
    <3>2. Alarm(t)'
      BY <2>1, <3>1 DEF Alarm, At, PushClaim, Claimed, Goto, Filling, Orderly, Sound, RingTypeOK
    <3> QED
      BY <3>1, <3>2 DEF Watched
  <2>3. CASE head' # head
    <3>1. t \in Consumers /\ qpc[t] \in Trying
      BY <1>7, <2>3, RingCounters
    <3>2. Awake(t)'
      BY <2>1, <3>1 DEF Awake, Tired, At, Trying
    <3> QED
      BY <3>1, <3>2 DEF Watched
  <2>4. CASE UNCHANGED <<head, tail>>
    <3>1. \A c \in Consumers : (Awake(c)' <=> Awake(c)) /\ (Tired(c)' <=> Tired(c))
      BY <2>1, <2>4, StaysAwake
    <3>2. ASSUME NEW p \in Producers, Alarm(p) PROVE Alarm(p)'
      <4>1. CASE p # t
        BY <1>1, <2>1, <3>2, <4>1, StaysLoud
      <4>2. CASE p = t
        <5>1. PushStep(t)
          BY <1>7, <4>2, RingPush
        <5>2. At(t, "pushing") /\ Filling(t)
          BY <3>2, <4>2, <5>1 DEF PushStep, PushLoad, PushSeq, PushFull, PushClaim, Claimed,
             PushCasFails, PushMove, PushPublish, Goto, Alarm, Returned, At, Orderly, Calls,
             PushCalls
        <5>3. PushMove(t) \/ PushPublish(t)
          BY <5>1, <5>2 DEF PushStep, PushLoad, PushSeq, PushFull, PushClaim, Claimed,
             PushCasFails, Goto, Filling
        <5>4. Filling(t)' \/ Returned(t, TRUE)'
          BY <5>3 DEF PushMove, PushPublish, Goto, Return, Filling, Returned, Orderly, Sound,
             RingTypeOK
        <5> QED
          BY <2>1, <4>2, <5>2, <5>4 DEF Alarm, At
      <4> QED
        BY <4>1, <4>2
    <3>3. /\ ~stopped /\ head < tail
          /\ \A u \in Threads : \A l : At(u, l)' <=> At(u, l)
      BY <2>1, <2>4 DEF At
    <3> QED
      BY <1>1, <2>1, <3>1, <3>2, <3>3 DEF Attended, Watched, At
  <2> QED
    BY <2>2, <2>3, <2>4
<1>8. CASE Shutdown \/ ShutdownLock \/ ShutdownNotify
  BY <1>8 DEF Shutdown, ShutdownLock, ShutdownNotify, counters, Orderly, Stopping
<1>9. CASE UNCHANGED allVars
  <2>1. UNCHANGED <<qpc, rpc, rret, snap, head, tail, stopped>>
    BY <1>9 DEF allVars, queueVars, ringVars
  <2>2. /\ \A c \in Consumers : (Awake(c)' <=> Awake(c)) /\ (Tired(c)' <=> Tired(c))
        /\ \A p \in Producers : Alarm(p)' <=> Alarm(p)
    BY <2>1, StaysAwake, StaysLoud
  <2> QED
    BY <1>1, <2>1, <2>2 DEF Attended, Watched, At
<1> QED
  BY <1>2, <1>4, <1>5, <1>6, <1>7, <1>8, <1>9 DEF QueueNext

-----------------------------------------------------------------------------
(* The invariant holds throughout                                          *)

\* A queue that was just constructed is orderly.
LEMMA InitOrderly == QueueInit => Orderly
<1> SUFFICES ASSUME QueueInit PROVE Orderly
  OBVIOUS
<1>1. Sound /\ Passed /\ Owed
  BY InitSound, InitOwed DEF QueueInit
<1>2. QueueTypeOK
  <2>1. stopped \in BOOLEAN
    BY Zenon DEF QueueInit
  <2> QED
    BY <2>1 DEF QueueInit, QueueTypeOK, PushPlaces, PopPlaces, Threads
<1>3. /\ \A t \in Threads : qpc[t] = "idle" /\ rpc[t] = "out" /\ item[t] = Empty
      /\ head = tail /\ stopped = FALSE /\ closer = "idle" /\ mtx = Free
      /\ sleepers = 0 /\ spinners = 0 /\ inFlight = 0
      /\ rret = [t \in Threads |-> FALSE] /\ tail \in Nat
  BY DEF QueueInit, RingInit
<1>4. Calls /\ Carries /\ Locked
  BY <1>3, QueueAssumption DEF Calls, PushCalls, PopCalls, Carries, PushCarries, PopCarries,
     Locked, PopLocks, At, Returned, Trying, Threads
<1>5. SleepersExact /\ SpinnersExact /\ InFlightExact
  <2>1. /\ {t \in Consumers : qpc[t] \in Sleepers} = {}
        /\ {t \in Consumers : qpc[t] \in Spinning} = {}
        /\ {t \in Producers : qpc[t] \in Pushing} = {}
    BY <1>3 DEF Sleepers, Spinning, Pushing, Threads
  <2> QED
    BY <1>3, <2>1, FS_EmptySet DEF SleepersExact, SpinnersExact, InFlightExact, Count
<1>6. Stopping
  BY <1>3 DEF Stopping, StopsRight, At, Threads
<1>7. Attended
  BY <1>3 DEF Attended
<1> QED
  BY <1>1, <1>2, <1>4, <1>5, <1>6, <1>7 DEF Orderly

\* Every step keeps it orderly.
LEMMA NextOrderly ==
    ASSUME Cap > 1, Orderly, [QueueNext]_allVars
    PROVE  Orderly'
  BY NextRing, NextPlaces, NextCounts, NextLocked, NextStopping, NextAttended DEF Orderly

\* The invariant holds in every state of the queue.
LEMMA AlwaysOrderly ==
    ASSUME Cap > 1
    PROVE  QueueSpec => []Orderly
<1>1. Orderly /\ [QueueNext]_allVars => Orderly'
  BY NextOrderly
<1> QED
  BY <1>1, InitOrderly, PTL DEF QueueSpec

\* sleepers_, spinners_ and pushersInFlight_ are exact: every path through push()
\* and pop() gives back what it has counted.
THEOREM QueueCountsAreExact ==
    ASSUME Cap > 1
    PROVE  QueueSpec => []CountsAreExact
<1>1. Orderly => CountsAreExact
  BY DEF Orderly, CountsAreExact, SleepersExact, SpinnersExact, InFlightExact, Sleepers,
     Spinning, Pushing
<1> QED
  BY <1>1, AlwaysOrderly, PTL

\* No wake-up is lost: the handshake between push(), which looks at sleepers_
\* after its item is in, and pop(), which looks at the ring after it has
\* counted itself in, leaves no worker asleep over an item or a shutdown.
THEOREM QueueNoLostWakeup ==
    ASSUME Cap > 1
    PROVE  QueueSpec => []NoLostWakeup
<1>1. Orderly => NoLostWakeup
  <2> SUFFICES ASSUME Orderly,
                      NEW c \in Consumers, At(c, "waiting"),
                      \A u \in Consumers : At(u, "waiting") \/ At(u, "gone"),
                      \A p \in Producers : At(p, "idle"),
                      closer \in {"idle", "done"}
               PROVE  head = tail /\ ~stopped
    BY DEF NoLostWakeup
  <2>1. ~stopped
    BY DEF Orderly, Stopping, StopsRight
  <2>2. ~Watched /\ ~(\E p \in Producers : At(p, "notify"))
    BY DEF Watched, Alarm, Awake, At
  <2>3. ~(head < tail)
    BY <2>1, <2>2 DEF Orderly, Attended
  <2> QED
    BY <2>1, <2>3 DEF Orderly, Sound, RingTypeOK, Bounded
<1> QED
  BY <1>1, AlwaysOrderly, PTL

-----------------------------------------------------------------------------
(* The job queue                                                           *)

\* The part of the history that is waiting grows at its end ...
LEMMA WindowGrows ==
    ASSUME NEW S, NEW h \in Seq(S), NEW x \in S, NEW i \in Nat, i <= Len(h)
    PROVE  SubSeq(Append(h, x), i + 1, Len(h) + 1) = Append(SubSeq(h, i + 1, Len(h)), x)
<1> DEFINE a == SubSeq(Append(h, x), i + 1, Len(h) + 1)
           b == SubSeq(h, i + 1, Len(h))
<1>1. /\ Append(h, x) \in Seq(S) /\ Len(Append(h, x)) = Len(h) + 1
      /\ \A k \in 1 .. Len(h) : Append(h, x)[k] = h[k]
      /\ Append(h, x)[Len(h) + 1] = x
  OBVIOUS
<1>2. /\ a \in Seq(S) /\ Len(a) = Len(h) + 1 - i
      /\ \A k \in 1 .. Len(h) + 1 - i : a[k] = Append(h, x)[i + k]
  <2>1. \A k \in i + 1 .. Len(h) + 1 : Append(h, x)[k] \in S
    BY <1>1
  <2> QED
    BY <2>1, SubSeqProperties
<1>3. /\ b \in Seq(S) /\ Len(b) = Len(h) - i
      /\ \A k \in 1 .. Len(h) - i : b[k] = h[i + k]
  <2>1. \A k \in i + 1 .. Len(h) : h[k] \in S
    OBVIOUS
  <2> QED
    BY <2>1, SubSeqProperties
<1> HIDE DEF a, b
<1>4. /\ Append(b, x) \in Seq(S) /\ Len(Append(b, x)) = Len(b) + 1
      /\ \A k \in 1 .. Len(b) : Append(b, x)[k] = b[k]
      /\ Append(b, x)[Len(b) + 1] = x
  BY <1>3
<1>5. ASSUME NEW k \in 1 .. Len(a) PROVE a[k] = Append(b, x)[k]
  <2>1. a[k] = Append(h, x)[i + k]
    BY <1>2
  <2>2. CASE k \in 1 .. Len(b)
    <3>1. i + k \in 1 .. Len(h)
      BY <1>3, <2>2
    <3> QED
      BY <1>1, <1>3, <1>4, <2>1, <2>2, <3>1
  <2>3. CASE k = Len(b) + 1
    <3>1. i + k = Len(h) + 1
      BY <1>3, <2>3
    <3> QED
      BY <1>1, <1>4, <2>1, <2>3, <3>1
  <2>4. k \in 1 .. Len(b) \/ k = Len(b) + 1
    <3>1. Len(a) = Len(b) + 1 /\ Len(b) \in Nat
      <4>1. Len(h) \in Nat /\ Len(b) \in Nat
        BY <1>3
      <4> QED
        BY <1>2, <1>3, <4>1
    <3> QED
      BY <3>1
  <2> QED
    BY <2>2, <2>3, <2>4
<1>6. a = Append(b, x)
  BY <1>2, <1>3, <1>4, <1>5, SeqEqual
<1> QED
  BY <1>6 DEF a, b

\* ... and is taken from its front.
LEMMA WindowShrinks ==
    ASSUME NEW S, NEW h \in Seq(S), NEW i \in Nat, i < Len(h)
    PROVE  /\ SubSeq(h, i + 1, Len(h)) # << >>
           /\ Head(SubSeq(h, i + 1, Len(h))) = h[i + 1]
           /\ Tail(SubSeq(h, i + 1, Len(h))) = SubSeq(h, i + 1 + 1, Len(h))
<1>1. i + 1 \in 1 .. Len(h) /\ Len(h) \in i + 1 .. Len(h)
  OBVIOUS
<1>2. SubSeq(h, i + 1, Len(h)) # << >>
  <2>1. \A k \in i + 1 .. Len(h) : h[k] \in S
    OBVIOUS
  <2>2. Len(SubSeq(h, i + 1, Len(h))) = Len(h) - i
    BY <2>1, SubSeqProperties
  <2> QED
    BY <2>2
<1> QED
  BY <1>1, <1>2, HeadTailOfSubSeq

\* The window of the history is as long as the ring is full.
LEMMA WindowLength ==
    ASSUME NEW S, NEW h \in Seq(S), NEW i \in Nat, i <= Len(h)
    PROVE  /\ Len(SubSeq(h, i + 1, Len(h))) = Len(h) - i
           /\ i = Len(h) => SubSeq(h, i + 1, Len(h)) = << >>
  OBVIOUS

\* Steps that the abstract queue does not see.
LEMMA Stutters ==
    ASSUME UNCHANGED <<hist, head, tail, stopped>>,
           \A c \in Consumers : Holds(c)' = Holds(c) /\ (At(c, "gone")' <=> At(c, "gone"))
    PROVE  UNCHANGED Jobs!vars
<1>1. [c \in Consumers |-> Holds(c)]' = [c \in Consumers |-> Holds(c)]
  OBVIOUS
<1>2. {c \in Consumers : At(c, "gone")}' = {c \in Consumers : At(c, "gone")}
  OBVIOUS
<1> QED
  BY <1>1, <1>2 DEF Jobs!vars

\* Outside the ring a worker's job changes only when it is done with it, and it
\* goes home only where pop() returns nothing.
LEMMA PopHolds ==
    ASSUME Orderly, NEW c \in Consumers, PopOwn(c) \/ SpuriousWake(c)
    PROVE  /\ Holds(c) = item[c] /\ Holds(c)' = item'[c]
           /\ item' = item \/ JobDone(c)
           /\ (At(c, "gone")' <=> At(c, "gone")) \/ PopLast(c)
           /\ \A u \in Consumers : u # c =>
                  Holds(u)' = Holds(u) /\ (At(u, "gone")' <=> At(u, "gone"))
<1>1. /\ c \in Threads /\ DOMAIN qpc = Threads /\ DOMAIN rpc = Threads /\ PopCalls(c)
      /\ \A u \in Consumers : u \in Threads
  BY DEF Orderly, Sound, RingTypeOK, QueueTypeOK, Threads, Calls
<1>2. PopMoves(c)
  BY PopLocal
<1>3. /\ rpc[c] = "out" /\ rpc'[c] \in {"out", "popLoad"}
      /\ item' = item \/ JobDone(c)
  BY <1>1 DEF PopOwn, PopEnter, SpinHit, SpinAgain, Unspin, Announce, RecheckHit,
     RecheckMiss, ExitCheck, PopLeave, PopLast, Park, SizeTail, SizeHead, SizeShut, Sleep,
     SpuriousWake, Unpark, JobDone, TryPop, DropItem, Goto, Returned, At, PopCalls, Trying, ringVars
<1>4. (At(c, "gone")' <=> At(c, "gone")) \/ PopLast(c)
  BY <1>1 DEF PopOwn, PopEnter, SpinHit, SpinAgain, Unspin, Announce, RecheckHit,
     RecheckMiss, ExitCheck, PopLeave, Park, SizeTail, SizeHead, SizeShut, Sleep,
     SpuriousWake, Unpark, JobDone, Step, At
<1>5. ASSUME NEW u \in Consumers, u # c
      PROVE  Holds(u)' = Holds(u) /\ (At(u, "gone")' <=> At(u, "gone"))
  BY <1>1, <1>2, <1>5 DEF PopMoves, Alone, Holds, Cell, At
<1> QED
  BY <1>3, <1>4, <1>5 DEF Holds

\* Inside the ring a worker's job changes only with its claim.
LEMMA RingHolds ==
    ASSUME Orderly, NEW t \in Threads, RingStep(t), NEW c \in Consumers, ~(PopClaim(t) /\ c = t)
    PROVE  Holds(c)' = Holds(c)
<1>1. /\ c \in Threads /\ PopCalls(c) /\ Sound
      /\ rpc \in [Threads -> PushLabels \cup PopLabels \cup {"out"}]
      /\ pos \in [Threads -> Nat] /\ data \in [Cells -> Items \cup {Empty}]
      /\ item \in [Threads -> Items \cup {Empty}]
  BY DEF Orderly, Sound, RingTypeOK, Calls, Threads
<1>2. Alone(t)
  BY RingMoves
<1>3. CASE c = t
  <2>1. PopStep(c)
    BY <1>3, RingPop
  <2>2. CASE PopMove(c)
    BY <1>1, <2>2 DEF PopMove, Goto, Holds
  <2>3. CASE ~PopMove(c)
    <3>1. rpc[c] # "popMove" /\ rpc'[c] # "popMove" /\ item' = item
      BY <1>1, <1>3, <2>1, <2>3 DEF PopStep, PopLoad, PopSeq, PopEmpty, PopClaim, PopCasFails,
         PopPublish, Goto, Return
    <3> QED
      BY <3>1 DEF Holds
  <2> QED
    BY <2>2, <2>3
<1>4. CASE c # t
  <2>1. rpc'[c] = rpc[c] /\ item'[c] = item[c] /\ pos'[c] = pos[c]
    BY <1>1, <1>2, <1>4 DEF Alone
  <2>2. ASSUME rpc[c] = "popMove" PROVE data'[Cell(c)] = data[Cell(c)]
    <3>1. CASE PushMove(t) \/ PopMove(t)
      <4>1. Cell(c) # Cell(t)
        BY <1>1, <1>4, <2>2, <3>1, CellsApart DEF PushMove, PopMove, Goto, Filling, Emptying
      <4>2. \E x : data' = [data EXCEPT ![Cell(t)] = x]
        BY <3>1 DEF PushMove, PopMove
      <4>3. Cell(c) \in Cells
        BY <1>1, SlotInRange DEF Cell
      <4> QED
        BY <1>1, <4>1, <4>2, <4>3
    <3>2. CASE ~(PushMove(t) \/ PopMove(t))
      BY <3>2 DEF RingStep, PushStep, PopStep, PushLoad, PushSeq, PushFull, PushClaim, Claimed,
         PushCasFails, PushPublish, PopLoad, PopSeq, PopEmpty, PopClaim, PopCasFails, PopPublish
    <3> QED
      BY <3>1, <3>2
  <2> QED
    BY <2>1, <2>2 DEF Holds, Cell
<1> QED
  BY <1>3, <1>4

\* An item is accepted where push() wins its position.
LEMMA ClaimAccepts ==
    ASSUME Cap > 1, Orderly, NEW t \in Threads, RingStep(t), PushClaim(t)
    PROVE  item[t] \in Items /\ Jobs!Accept(item[t])
<1>1. /\ hist \in Seq(Items) /\ Len(hist) = tail /\ head \in Nat /\ tail \in Nat /\ head <= tail
      /\ Cap \in Nat
  BY RingAssumption DEF Orderly, Sound, RingTypeOK, Bounded
<1>2. item[t] \in Items
  BY DEF PushClaim, Claimed, Goto, Orderly, Sound, Contents, PushLabels
<1>3. /\ tail' = tail + 1 /\ head' = head /\ hist' = Append(hist, item[t])
      /\ UNCHANGED <<stopped, qpc>>
  BY DEF PushClaim, Claimed, RingStep, queueVars
<1>4. tail < head + Cap
  <2>1. Sound'
    BY NextRing DEF QueueNext
  <2> QED
    BY <1>1, <1>3, <2>1 DEF Sound, Bounded
<1>5. SubSeq(hist, head + 1, tail)' = Append(SubSeq(hist, head + 1, tail), item[t])
  BY <1>1, <1>2, <1>3, WindowGrows
<1>6. Len(SubSeq(hist, head + 1, tail)) < Cap
  BY <1>1, <1>4, WindowLength
<1>7. {c \in Consumers : At(c, "gone")} = {}
  <2>1. ~NoPush
    <3>1. tail' # tail
      BY <1>1, <1>3
    <3> QED
      BY <3>1, RingCounters DEF NoPush
  <2> QED
    BY <2>1 DEF Orderly, Stopping, StopsRight, At
<1>8. {c \in Consumers : At(c, "gone")}' = {c \in Consumers : At(c, "gone")}
  BY <1>3 DEF At
<1>9. [c \in Consumers |-> Holds(c)]' = [c \in Consumers |-> Holds(c)]
  <2>1. ~PopClaim(t)
    BY DEF PushClaim, Claimed, PopClaim, Goto
  <2>2. \A c \in Consumers : Holds(c)' = Holds(c)
    BY <2>1, RingHolds
  <2> QED
    BY <2>2
<1> QED
  BY <1>2, <1>3, <1>5, <1>6, <1>7, <1>8, <1>9 DEF Jobs!Accept

\* An item is taken where pop() wins its position.
LEMMA ClaimTakes ==
    ASSUME Cap > 1, Orderly, NEW t \in Threads, RingStep(t), PopClaim(t)
    PROVE  t \in Consumers /\ Jobs!Take(t)
<1>1. /\ hist \in Seq(Items) /\ Len(hist) = tail /\ head \in Nat /\ tail \in Nat
      /\ pos \in [Threads -> Nat]
      /\ rpc \in [Threads -> PushLabels \cup PopLabels \cup {"out"}]
  BY DEF Orderly, Sound, RingTypeOK
<1>2. /\ head' = head + 1 /\ tail' = tail /\ hist' = hist /\ head = pos[t] /\ pos' = pos
      /\ rpc[t] = "popCas" /\ rpc'[t] = "popMove"
      /\ UNCHANGED <<stopped, qpc>>
  BY <1>1 DEF PopClaim, Goto, RingStep, queueVars
<1>3. t \in Consumers /\ qpc[t] \in Trying
  <2>1. head' # head
    BY <1>1, <1>2
  <2> QED
    BY <2>1, RingCounters
<1>4. Sound'
  BY NextRing DEF QueueNext
<1>5. head < tail
  BY <1>1, <1>2, <1>4 DEF Sound, Bounded
<1>6. Holds(t)' = hist[head + 1]
  BY <1>2, <1>4 DEF Sound, Contents, Holds
<1>7. Holds(t) = Empty /\ ~At(t, "gone")
  BY <1>2, <1>3 DEF Holds, Orderly, Carries, PopCarries, Returned, At, Trying
<1>8. \A c \in Consumers : c # t => Holds(c)' = Holds(c)
  BY RingHolds
<1>9. /\ SubSeq(hist, head + 1, tail) # << >>
      /\ Head(SubSeq(hist, head + 1, tail)) = hist[head + 1]
      /\ SubSeq(hist, head + 1, tail)' = Tail(SubSeq(hist, head + 1, tail))
  BY <1>1, <1>2, <1>5, WindowShrinks
<1>10. [c \in Consumers |-> Holds(c)]' =
           [[c \in Consumers |-> Holds(c)] EXCEPT ![t] = hist[head + 1]]
  BY <1>3, <1>6, <1>8
<1>11. {c \in Consumers : At(c, "gone")}' = {c \in Consumers : At(c, "gone")}
  BY <1>2 DEF At
<1> QED
  BY <1>2, <1>3, <1>7, <1>9, <1>10, <1>11 DEF Jobs!Take

\* The constructor's queue is empty and open.
LEMMA InitMaps == QueueInit => Jobs!Init
<1> SUFFICES ASSUME QueueInit PROVE Jobs!Init
  OBVIOUS
<1>1. /\ hist = << >> /\ head = 0 /\ tail = 0 /\ stopped = FALSE
      /\ \A c \in Consumers : rpc[c] = "out" /\ item[c] = Empty /\ qpc[c] = "idle"
  BY DEF QueueInit, RingInit, Threads
<1>2. SubSeq(hist, head + 1, tail) = << >>
  BY <1>1
<1>3. [c \in Consumers |-> Holds(c)] = [c \in Consumers |-> Empty]
  BY <1>1 DEF Holds
<1>4. {c \in Consumers : At(c, "gone")} = {}
  BY <1>1 DEF At
<1> QED
  BY <1>1, <1>2, <1>3, <1>4 DEF Jobs!Init

\* Every access of push(), pop() and shutdown() is a step of the job queue, or none.
LEMMA NextMaps ==
    ASSUME Cap > 1, Orderly, [QueueNext]_allVars
    PROVE  [Jobs!Next]_(Jobs!vars)
<1>1. /\ \A p \in Producers : p \in Threads /\ p \notin Consumers
      /\ \A c \in Consumers : c \in Threads
      /\ qpc \in [Threads -> PushPlaces \cup PopPlaces]
  BY QueueAssumption DEF Threads, Orderly, QueueTypeOK
<1>2. ASSUME NEW p \in Producers, PushMoves(p) PROVE UNCHANGED Jobs!vars
  <2>1. \A c \in Consumers : Holds(c)' = Holds(c) /\ (At(c, "gone")' <=> At(c, "gone"))
    BY <1>1, <1>2 DEF PushMoves, Alone, Holds, Cell, At
  <2> QED
    BY <1>2, <2>1, Stutters DEF PushMoves
<1>3. ASSUME Wakes, UNCHANGED stopped PROVE UNCHANGED Jobs!vars
  <2>1. \A c \in Consumers : Holds(c)' = Holds(c) /\ (At(c, "gone")' <=> At(c, "gone"))
    BY <1>3 DEF Wakes, ringVars, Holds, Cell, At
  <2> QED
    BY <1>3, <2>1, Stutters DEF Wakes, ringVars
<1>4. ASSUME NEW p \in Producers, PushNotify(p) PROVE UNCHANGED Jobs!vars
  BY <1>3, <1>4, NotifyWakes, NotifyMoves
<1>5. CASE ShutdownLock \/ ShutdownNotify
  BY <1>3, <1>5, ShutWakes DEF ShutdownLock, ShutdownNotify, counters
<1>6. CASE Shutdown
  <2>1. UNCHANGED <<hist, head, tail, rpc, item, data, pos, qpc>> /\ stopped' = TRUE
    BY <1>6 DEF Shutdown, ringVars
  <2>2. /\ [c \in Consumers |-> Holds(c)]' = [c \in Consumers |-> Holds(c)]
        /\ {c \in Consumers : At(c, "gone")}' = {c \in Consumers : At(c, "gone")}
    BY <2>1 DEF Holds, Cell, At
  <2> QED
    BY <2>1, <2>2 DEF Jobs!Close, Jobs!Next
<1>7. ASSUME NEW c \in Consumers, JobDone(c) PROVE Jobs!Finish(c)
  <2>1. /\ UNCHANGED <<hist, head, tail, stopped>> /\ ~At(c, "gone") /\ ~At(c, "gone")'
        /\ item'[c] = Empty
    BY <1>1, <1>7 DEF JobDone, DropItem, counters, Step, At, Orderly, Sound, RingTypeOK
  <2>2. /\ Holds(c) = item[c] /\ Holds(c)' = item'[c]
        /\ \A u \in Consumers : u # c =>
               Holds(u)' = Holds(u) /\ (At(u, "gone")' <=> At(u, "gone"))
    BY <1>7, PopHolds DEF PopOwn
  <2>3. item[c] # Empty
    BY <1>7 DEF JobDone, Orderly, Carries, PopCarries
  <2>4. [u \in Consumers |-> Holds(u)]' = [[u \in Consumers |-> Holds(u)] EXCEPT ![c] = Empty]
    BY <2>1, <2>2
  <2>5. {u \in Consumers : At(u, "gone")}' = {u \in Consumers : At(u, "gone")}
    BY <2>1, <2>2
  <2> QED
    BY <2>1, <2>2, <2>3, <2>4, <2>5 DEF Jobs!Finish
<1>8. ASSUME NEW c \in Consumers, PopLast(c), ~(At(c, "gone")' <=> At(c, "gone"))
      PROVE  Jobs!GoHome(c)
  <2>1. /\ UNCHANGED <<hist, head, tail, stopped, item>> /\ ~At(c, "gone") /\ At(c, "gone")'
        /\ At(c, "lastTry") /\ Returned(c, FALSE)
    BY <1>1, <1>8 DEF PopLast, ringVars, counters, Step, At, Returned, Orderly, Sound, RingTypeOK
  <2>2. /\ Holds(c) = item[c] /\ Holds(c)' = item'[c]
        /\ \A u \in Consumers : u # c =>
               Holds(u)' = Holds(u) /\ (At(u, "gone")' <=> At(u, "gone"))
    BY <1>8, PopHolds DEF PopOwn
  <2>3. Holds(c) = Empty
    BY <2>1, <2>2 DEF Orderly, Carries, PopCarries, Returned, At
  <2>4. stopped /\ head = tail
    BY <2>1 DEF Orderly, Stopping, StopsRight, At
  <2>5. SubSeq(hist, head + 1, tail) = << >>
    BY <2>4, WindowLength DEF Orderly, Sound, RingTypeOK
  <2>6. [u \in Consumers |-> Holds(u)]' = [u \in Consumers |-> Holds(u)]
    BY <2>1, <2>2
  <2>7. {u \in Consumers : At(u, "gone")}' = {u \in Consumers : At(u, "gone")} \cup {c}
    BY <2>1, <2>2
  <2> QED
    BY <2>1, <2>3, <2>4, <2>5, <2>6, <2>7 DEF Jobs!GoHome
<1>9. ASSUME NEW c \in Consumers, PopOwn(c) \/ SpuriousWake(c)
      PROVE  [Jobs!Next]_(Jobs!vars)
  <2>1. CASE JobDone(c) \/ (PopLast(c) /\ ~(At(c, "gone")' <=> At(c, "gone")))
    BY <1>7, <1>8, <2>1 DEF Jobs!Next
  <2>2. CASE ~JobDone(c) /\ (At(c, "gone")' <=> At(c, "gone"))
    <3>1. \A u \in Consumers : Holds(u)' = Holds(u) /\ (At(u, "gone")' <=> At(u, "gone"))
      BY <1>9, <2>2, PopHolds
    <3>2. UNCHANGED <<hist, head, tail, stopped>>
      BY <1>9, PopLocal DEF PopMoves
    <3> QED
      BY <3>1, <3>2, Stutters
  <2> QED
    BY <1>9, <2>1, <2>2, PopHolds
<1>10. ASSUME NEW t \in Threads, RingStep(t) PROVE [Jobs!Next]_(Jobs!vars)
  <2>1. CASE PushClaim(t)
    BY <1>10, <2>1, ClaimAccepts DEF Jobs!Next
  <2>2. CASE PopClaim(t)
    BY <1>10, <2>2, ClaimTakes DEF Jobs!Next
  <2>3. CASE ~PushClaim(t) /\ ~PopClaim(t)
    <3>1. UNCHANGED <<hist, head, tail, stopped, qpc>>
      BY <1>10, <2>3 DEF RingStep, queueVars, PushStep, PopStep, PushLoad, PushSeq, PushFull,
         PushCasFails, PushMove, PushPublish, PopLoad, PopSeq, PopEmpty, PopCasFails, PopMove,
         PopPublish
    <3>2. \A c \in Consumers : Holds(c)' = Holds(c) /\ (At(c, "gone")' <=> At(c, "gone"))
      BY <1>10, <2>3, <3>1, RingHolds DEF At
    <3> QED
      BY <3>1, <3>2, Stutters
  <2> QED
    BY <2>1, <2>2, <2>3
<1>11. CASE UNCHANGED allVars
  <2>1. \A c \in Consumers : Holds(c)' = Holds(c) /\ (At(c, "gone")' <=> At(c, "gone"))
    BY <1>11 DEF allVars, queueVars, ringVars, Holds, Cell, At
  <2> QED
    BY <1>11, <2>1, Stutters DEF allVars, queueVars, ringVars
<1> QED
  BY <1>2, <1>4, <1>5, <1>6, <1>9, <1>10, <1>11, PushLocal DEF QueueNext

\* The lock-free queue is the job queue ThreadPool relies on: an item is accepted
\* at the compare-exchange on tail_, taken at the one on head_, and nothing is
\* left behind when a worker is sent home.
THEOREM QueueIsJobQueue ==
    ASSUME Cap > 1
    PROVE  QueueSpec => IsJobQueue
<1>1. Orderly /\ [QueueNext]_allVars => [Jobs!Next]_(Jobs!vars)
  BY NextMaps
<1> QED
  BY <1>1, InitMaps, AlwaysOrderly, PTL DEF QueueSpec, IsJobQueue, Jobs!Spec
=============================================================================
