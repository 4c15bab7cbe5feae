----------------------------- MODULE ServerProofs -----------------------------
(***************************************************************************)
(* Who may close which socket, and what is left when the server exits: for *)
(* any number of clients, workers, descriptors, messages and signals.      *)
(***************************************************************************)
EXTENDS Server, FiniteSetTheorems, TLAPS

-----------------------------------------------------------------------------
(* The inductive invariant                                                 *)

SendLabels  == {"lock", "alive", "send", "unlock", "done"}
FinalLabels == {"peerClosed", "pending", "claim", "kill", "close"}
LoopLabels  == {"socket", "epoll", "register", "wait", "next", "accept", "insert", "recv",
                "forget", "erase", "extract", "submit", "finalize", "returned"}

\* Before the loop runs for the first time.
Early == lpc \in {"socket", "epoll", "register"}

\* stop() has come after that: nothing is accepted any more.
Stopped == ~running /\ ~listening /\ ~Early

Accepted(k) == client[k] = "accepted"

\* t has won fdClosed and is about to close the socket.
Closing(t) == cpc[t] \in {"kill", "close"}

SocketsOK ==
    /\ table       \in [Fds -> Clients \cup {Nobody}]
    /\ fd          \in [Clients -> Fds \cup {0}]
    /\ client      \in [Clients -> {"new", "connecting", "accepted"}]
    /\ connections \in [DOMAIN connections -> Clients]
    /\ DOMAIN connections \subseteq Fds

MessagesOK ==
    /\ sent       \in [Clients -> Nat]
    /\ inbound    \in [Clients -> Seq(Messages)]
    /\ recvBuffer \in [Clients -> Seq(Messages)]
    /\ jobs       \in Seq(Clients \X Messages)

FlagsOK ==
    /\ peerClosed  \in [Clients -> BOOLEAN]
    /\ fdClosed    \in [Clients -> BOOLEAN]
    /\ pendingJobs \in [Clients -> Int]
    /\ writeMutex  \in [Clients -> Workers \cup {Nobody}]

ThreadsOK ==
    /\ cpc  \in [Threads -> SendLabels \cup FinalLabels \cup {"out"}]
    /\ this \in [Threads -> Clients \cup {Nobody}]
    /\ lpc  \in LoopLabels
    /\ spc  \in {"out", "kill", "close"}

ServerTypeOK == SocketsOK /\ MessagesOK /\ FlagsOK /\ ThreadsOK

\* A descriptor, a route, a thread or a job names only accepted clients, and a
\* descriptor in use is that of the one client it is used for.
Named ==
    /\ \A k \in Clients : Accepted(k) => fd[k] \in Fds
    /\ \A f \in Fds : table[f] # Nobody => Accepted(table[f]) /\ fd[table[f]] = f
    /\ \A f \in DOMAIN connections :
           Accepted(connections[f]) /\ fd[connections[f]] = f
    /\ \A t \in Threads : this[t] # Nobody => Accepted(this[t])
    /\ \A i \in 1 .. Len(jobs) : Accepted(jobs[i][1])

\* Where loop and workers are, and on what.
Places ==
    /\ \A w \in Workers : cpc[w] # "out" => this[w] # Nobody
    /\ cpc[Loop] # "out" => cpc[Loop] \in FinalLabels /\ lpc = "finalize" /\ this[Loop] # Nobody
    /\ lpc \in {"insert", "recv", "forget", "erase", "extract", "submit"} => this[Loop] # Nobody
    /\ lpc = "submit" => recvBuffer[this[Loop]] # << >>
    /\ Early => events = {} /\ \A k \in Clients : ~Accepted(k)

\* The flags: peerClosed before fdClosed, and both before the close.
Flags ==
    /\ \A k \in Clients : fdClosed[k] => peerClosed[k]
    /\ \A k \in Clients : peerClosed[k] => Accepted(k)
    /\ lpc = "insert" => ~peerClosed[this[Loop]]
    /\ \A t \in Threads : cpc[t] \in {"pending", "claim"} => peerClosed[this[t]]
    /\ \A t \in Threads : Closing(t) => fdClosed[this[t]]
    /\ \A t, u \in Threads : t # u /\ Closing(t) /\ Closing(u) => this[t] # this[u]

\* stop(): no more accepts, every route is closed or still to be visited.
Stopping ==
    /\ spc # "out" => /\ ~running /\ ~listening
                      /\ todo \subseteq DOMAIN connections
                      /\ \A f \in DOMAIN connections \ todo : table[f] = Nobody
    /\ spc = "close" => todo # {}

\* A connection that nobody has closed has its descriptor, and so has one that
\* is about to be closed; except that stop() takes it away.
Has(k) == table[fd[k]] = k \/ (Stopped /\ table[fd[k]] = Nobody)

Owned ==
    /\ \A k \in Clients : Accepted(k) /\ ~fdClosed[k] => Has(k)
    /\ \A t \in Threads : Closing(t) => Has(this[t])

\* connections_ is right, except about the connection being forgotten.
Routed ==
    /\ \A f \in DOMAIN connections :
           \/ table[f] = connections[f]
           \/ table[f] = Nobody /\ (Stopped \/ (lpc = "erase" /\ f = fd[this[Loop]]))
    /\ \A f \in DOMAIN connections :
           peerClosed[connections[f]] => lpc = "erase" /\ connections[f] = this[Loop]

\* Within a batch only the connection at hand is erased.
Batch ==
    running => /\ events \subseteq DOMAIN connections \cup {Listen}
               /\ lpc \in {"recv", "forget", "erase"} => fd[this[Loop]] \notin events

Ownership == ServerTypeOK /\ Named /\ Places /\ Flags /\ Stopping /\ Owned /\ Routed /\ Batch

-----------------------------------------------------------------------------
(* The steps                                                               *)

\* What the server's steps do to the connections.
LoopNext ==
    \/ \E k \in Clients : ClientStep(k)
    \/ /\ spc = "out"
       /\ \/ SetupSocket \/ SetupEpoll \/ StartRunning \/ RunReturns
          \/ EpollWait \/ NextEvent \/ BatchDone \/ Accept \/ Insert \/ AcceptDone
          \/ Recv \/ RecvEnd \/ Forget \/ Erase \/ Dispatch \/ Submit \/ ExtractDone \/ Finalized
    \/ StopBegin \/ StopKill \/ StopClose \/ StopEnd
    \/ \E w \in Workers : StartJob(w) \/ SendStepOf(w) \/ JobSent(w)
    \/ \E t \in Threads : FinalStepOf(t)
    \/ UNCHANGED loopVars

\* main() and the signal handler decide only who moves.
LEMMA ServerSteps == [ServerNext]_serverVars => LoopNext
  BY DEF ServerNext, MainStep, MainRuns, Sigint, RunMove, RunStep, DestroyLoop, StopMove,
     StopStep,
     StopReturns, Exit, WorkerStep, LoopNext, Threads, serverVars

\* stop()'s iteration is at one of the routes it has still to visit.
LEMMA NextFdTodo == ASSUME todo # {} PROVE NextFd \in todo
  BY DEF NextFd

-----------------------------------------------------------------------------
(* Type correctness                                                        *)

\* Descriptors, clients and routes keep their types.
LEMMA NextSocketsOK ==
    ASSUME Ownership, LoopNext
    PROVE  SocketsOK'
<1>1. \/ UNCHANGED <<table, fd, client, connections>>
      \/ \E k \in Clients : ClientConnect(k)
      \/ spc = "out" /\ (Accept \/ Insert \/ Erase)
      \/ StopClose \/ StopEnd
      \/ \E t \in Threads : FinalStepOf(t)
  BY DEF LoopNext, ClientStep, SendStepOf, SendStep, ClientSend, ClientHangUp, SetupSocket,
     SetupEpoll, StartRunning, RunReturns, EpollWait, NextEvent, BatchDone, AcceptDone, Recv,
     RecvEnd, Forget, Dispatch, Submit, ExtractDone, Finalized, StopBegin, StopKill, StartJob,
     JobSent, SendLock, SendCheck, SendWrite, SendUnlock, AfterMessages, loopVars, connVars,
     clientVars, stopVars, flags
<1> USE ConnectionAssumption DEF Ownership, ServerTypeOK, ThreadsOK, SocketsOK, Named, Places,
       Accepted, Threads
<1>2. CASE UNCHANGED <<table, fd, client, connections>>
  BY <1>2
<1>3. ASSUME NEW k \in Clients, ClientConnect(k) PROVE SocketsOK'
  BY <1>3 DEF ClientConnect, connVars, clientVars, stopVars, flags
<1>4. CASE spc = "out" /\ Accept
  BY <1>4 DEF Accept, connVars, clientVars, stopVars, flags
<1>5. CASE spc = "out" /\ Insert
  BY <1>5 DEF Insert, connVars, clientVars, stopVars, flags
<1>6. CASE spc = "out" /\ Erase
  BY <1>6 DEF Erase, Conn, Erased, connVars, clientVars, stopVars, flags
<1>7. CASE StopClose
  BY <1>7 DEF StopClose, connVars, clientVars, stopVars, flags
<1>8. CASE StopEnd
  BY <1>8 DEF StopEnd, connVars, clientVars, stopVars, flags
<1>9. ASSUME NEW t \in Threads, FinalStepOf(t), FinalClose(t) PROVE SocketsOK'
  BY <1>9 DEF FinalStepOf, FinalClose, ContinueIf, connVars, clientVars, stopVars, flags
<1>10. ASSUME NEW t \in Threads, FinalStepOf(t), FinalPeer(t) \/ FinalPending(t) \/ FinalClaim(t) \/ FinalKill(t)
      PROVE  SocketsOK'
  BY <1>10 DEF FinalStepOf, FinalPeer, ContinueIf, FinalPending, FinalClaim, FinalKill, Goto,
     connVars, clientVars, stopVars, flags
<1> QED
  BY <1>1, <1>2, <1>3, <1>4, <1>5, <1>6, <1>7, <1>8, <1>9, <1>10 DEF FinalStepOf, FinalStep

\* Messages stay messages on their way from the client to the job.
LEMMA NextMessagesOK ==
    ASSUME Ownership, LoopNext
    PROVE  MessagesOK'
<1>1. \/ UNCHANGED <<sent, inbound, recvBuffer, jobs>>
      \/ \E k \in Clients : ClientSend(k)
      \/ spc = "out" /\ (Recv \/ Submit)
      \/ \E w \in Workers : StartJob(w)
  BY DEF LoopNext, ClientStep, SendStepOf, SendStep, FinalStepOf, FinalStep, ClientConnect,
     ClientHangUp, SetupSocket, SetupEpoll, StartRunning, RunReturns, EpollWait, NextEvent,
     BatchDone, Accept, Insert, AcceptDone, RecvEnd, Forget, Erase, Dispatch, ExtractDone,
     Finalized, StopBegin, StopKill, StopClose, StopEnd, JobSent, SendLock, SendCheck,
     SendWrite, SendUnlock, FinalPeer, FinalPending, FinalClaim, FinalKill, FinalClose,
     AfterMessages, loopVars, connVars, clientVars, stopVars, flags
<1> USE ConnectionAssumption DEF Ownership, ServerTypeOK, ThreadsOK, SocketsOK, MessagesOK,
       Named, Places, Accepted, Threads
<1>2. CASE UNCHANGED <<sent, inbound, recvBuffer, jobs>>
  BY <1>2
<1>3. ASSUME NEW k \in Clients, ClientSend(k) PROVE MessagesOK'
  <2>1. Script[k][sent[k] + 1] \in Messages
    BY <1>3, ScriptAssumption DEF ClientSend
  <2> QED
    BY <1>3, <2>1 DEF ClientSend, connVars
<1>4. CASE spc = "out" /\ Recv
  <2>1. this[Loop] \in Clients /\ Sock \in Clients
    BY <1>4 DEF Recv, Sock, Conn
  <2>2. recvBuffer[this[Loop]] \o inbound[Sock] \in Seq(Messages)
    BY <2>1
  <2> QED
    BY <1>4, <2>1, <2>2 DEF Recv, Conn
<1>5. CASE spc = "out" /\ Submit
  <2>1. this[Loop] \in Clients /\ recvBuffer[this[Loop]] # << >>
    BY <1>5 DEF Submit
  <2>2. Head(recvBuffer[this[Loop]]) \in Messages /\ Tail(recvBuffer[this[Loop]]) \in Seq(Messages)
    BY <2>1
  <2> QED
    BY <1>5, <2>1, <2>2 DEF Submit, Conn, clientVars
<1>6. ASSUME NEW w \in Workers, StartJob(w) PROVE MessagesOK'
  <2>1. Tail(jobs) \in Seq(Clients \X Messages)
    BY <1>6 DEF StartJob
  <2> QED
    BY <1>6, <2>1 DEF StartJob, clientVars
<1> QED
  BY <1>1, <1>2, <1>3, <1>4, <1>5, <1>6

\* A counter that is counted up or down stays an integer.
LEMMA IntUpdated ==
    ASSUME NEW g \in [Clients -> Int], NEW x \in Clients
    PROVE  /\ [g EXCEPT ![x] = @ + 1] \in [Clients -> Int]
           /\ [g EXCEPT ![x] = @ - 1] \in [Clients -> Int]
  OBVIOUS

\* The flags of a connection keep their types.
LEMMA NextFlagsOK ==
    ASSUME Ownership, LoopNext
    PROVE  FlagsOK'
<1>1. \/ UNCHANGED <<peerClosed, fdClosed, pendingJobs, writeMutex>>
      \/ spc = "out" /\ (Forget \/ Dispatch)
      \/ \E w \in Workers : JobSent(w) \/ SendStepOf(w)
      \/ \E t \in Threads : FinalStepOf(t)
  BY DEF LoopNext, ClientStep, ClientConnect, ClientSend, ClientHangUp, SetupSocket,
     SetupEpoll, StartRunning, RunReturns, EpollWait, NextEvent, BatchDone, Accept, Insert,
     AcceptDone, Recv, RecvEnd, Erase, Submit, ExtractDone, Finalized, StopBegin, StopKill,
     StopClose, StopEnd, StartJob, AfterMessages, loopVars, connVars, clientVars, stopVars,
     flags
<1> USE ConnectionAssumption DEF Ownership, ServerTypeOK, FlagsOK, ThreadsOK
<1>2. CASE UNCHANGED <<peerClosed, fdClosed, pendingJobs, writeMutex>>
  BY <1>2
<1>3. CASE spc = "out" /\ Forget
  BY <1>3 DEF Forget, Conn, connVars, clientVars, stopVars, flags
<1>4. CASE spc = "out" /\ Dispatch
  <2>1. Conn \in Clients /\ pendingJobs' = [pendingJobs EXCEPT ![Conn] = @ + 1]
    BY <1>4 DEF Dispatch, Places, Threads, Conn
  <2>2. pendingJobs' \in [Clients -> Int]
    BY <2>1, IntUpdated
  <2> QED
    BY <1>4, <2>2 DEF Dispatch
<1>5. ASSUME NEW w \in Workers, JobSent(w) PROVE FlagsOK'
  <2>1. this[w] \in Clients /\ pendingJobs' = [pendingJobs EXCEPT ![this[w]] = @ - 1]
    BY <1>5 DEF JobSent, Places, Threads, Goto
  <2>2. pendingJobs' \in [Clients -> Int]
    BY <2>1, IntUpdated
  <2> QED
    BY <1>5, <2>2 DEF JobSent
<1>6. ASSUME NEW w \in Workers, SendStepOf(w), SendLock(w) PROVE FlagsOK'
  BY <1>6 DEF SendStepOf, SendLock, Goto, connVars, clientVars, stopVars, flags
<1>7. ASSUME NEW w \in Workers, SendStepOf(w), SendUnlock(w) PROVE FlagsOK'
  BY <1>7 DEF SendStepOf, SendUnlock, Goto, connVars, clientVars, stopVars, flags
<1>8. ASSUME NEW w \in Workers, SendStepOf(w), SendCheck(w) \/ SendWrite(w) PROVE FlagsOK'
  BY <1>8 DEF SendStepOf, SendCheck, Goto, SendWrite, connVars, clientVars, stopVars, flags
<1>9. ASSUME NEW t \in Threads, FinalStepOf(t), FinalClaim(t) PROVE FlagsOK'
  BY <1>9 DEF FinalStepOf, FinalClaim, ContinueIf, connVars, clientVars, stopVars, flags
<1>10. ASSUME NEW t \in Threads, FinalStepOf(t), FinalPeer(t) \/ FinalPending(t) \/ FinalKill(t) \/ FinalClose(t)
      PROVE  FlagsOK'
  BY <1>10 DEF FinalStepOf, FinalPeer, ContinueIf, FinalPending, FinalKill, Goto, FinalClose,
     connVars, clientVars, stopVars, flags
<1> QED
  BY <1>1, <1>2, <1>3, <1>4, <1>5, <1>6, <1>7, <1>8, <1>9, <1>10 DEF SendStepOf, SendStep,
     FinalStepOf, FinalStep

\* The threads keep to the code.
LEMMA NextThreadsOK ==
    ASSUME Ownership, LoopNext
    PROVE  ThreadsOK'
<1>1. \/ UNCHANGED <<cpc, this, lpc, spc>>
      \/ spc = "out" /\ (SetupSocket \/ SetupEpoll \/ StartRunning \/ RunReturns \/ EpollWait
            \/ BatchDone \/ AcceptDone \/ NextEvent \/ Accept \/ Insert \/ RecvEnd \/ Forget
            \/ Erase \/ Dispatch \/ Submit \/ Finalized \/ ExtractDone)
      \/ StopBegin \/ StopKill \/ StopClose \/ StopEnd
      \/ \E w \in Workers : StartJob(w) \/ JobSent(w) \/ SendStepOf(w)
      \/ \E t \in Threads : FinalStepOf(t)
  BY DEF LoopNext, ClientStep, ClientConnect, ClientSend, ClientHangUp, Recv, loopVars,
     connVars, clientVars, stopVars, flags
<1> USE ConnectionAssumption DEF Ownership, ServerTypeOK, ThreadsOK, SocketsOK, MessagesOK,
       SendLabels, FinalLabels, LoopLabels, Threads
<1>2. CASE UNCHANGED <<cpc, this, lpc, spc>>
  BY <1>2
<1>3. CASE spc = "out" /\ (SetupSocket \/ SetupEpoll \/ StartRunning \/ RunReturns \/ EpollWait \/ BatchDone \/ AcceptDone)
  BY <1>3 DEF SetupSocket, SetupEpoll, StartRunning, RunReturns, EpollWait, Readable,
     BatchDone, AcceptDone, connVars, clientVars, stopVars, flags
<1>4. CASE spc = "out" /\ NextEvent
  BY <1>4 DEF NextEvent, connVars, clientVars, stopVars, flags
<1>5. CASE spc = "out" /\ Accept
  BY <1>5 DEF Accept, connVars, clientVars, stopVars, flags
<1>6. CASE spc = "out" /\ Insert
  BY <1>6 DEF Insert, connVars, clientVars, stopVars, flags
<1>7. CASE spc = "out" /\ (RecvEnd \/ Forget \/ Erase \/ Dispatch \/ Submit \/ Finalized)
  BY <1>7 DEF RecvEnd, Conn, Sock, Forget, Erase, Erased, Dispatch, Submit, Finalized,
     connVars, clientVars, stopVars, flags
<1>8. CASE spc = "out" /\ ExtractDone
  BY <1>8 DEF ExtractDone, Conn, AfterMessages, connVars, clientVars, stopVars, flags
<1>9. CASE StopBegin \/ StopKill \/ StopClose \/ StopEnd
  BY <1>9 DEF StopBegin, ListensAfterStop, StopKill, StopClose, StopEnd, connVars, clientVars,
     stopVars, flags
<1>10. ASSUME NEW w \in Workers, StartJob(w) PROVE ThreadsOK'
  BY <1>10 DEF StartJob, connVars, clientVars, stopVars, flags
<1>11. ASSUME NEW w \in Workers, JobSent(w) PROVE ThreadsOK'
  BY <1>11 DEF JobSent, Goto, connVars, clientVars, stopVars, flags
<1>12. ASSUME NEW w \in Workers, SendStepOf(w), SendLock(w) \/ SendWrite(w) \/ SendUnlock(w)
      PROVE  ThreadsOK'
  BY <1>12 DEF SendStepOf, SendLock, Goto, SendWrite, SendUnlock, connVars, clientVars,
     stopVars, flags
<1>13. ASSUME NEW w \in Workers, SendStepOf(w), SendCheck(w) PROVE ThreadsOK'
  BY <1>13 DEF SendStepOf, SendCheck, Goto, connVars, clientVars, stopVars, flags
<1>14. ASSUME NEW t \in Threads, FinalStepOf(t), FinalPeer(t) PROVE ThreadsOK'
  BY <1>14 DEF FinalStepOf, FinalPeer, ContinueIf, connVars, clientVars, stopVars, flags
<1>15. ASSUME NEW t \in Threads, FinalStepOf(t), FinalPending(t) PROVE ThreadsOK'
  BY <1>15 DEF FinalStepOf, FinalPending, ContinueIf, connVars, clientVars, stopVars, flags
<1>16. ASSUME NEW t \in Threads, FinalStepOf(t), FinalClaim(t) PROVE ThreadsOK'
  BY <1>16 DEF FinalStepOf, FinalClaim, ContinueIf, connVars, clientVars, stopVars, flags
<1>17. ASSUME NEW t \in Threads, FinalStepOf(t), FinalKill(t) \/ FinalClose(t) PROVE ThreadsOK'
  BY <1>17 DEF FinalStepOf, FinalKill, Goto, FinalClose, ContinueIf, connVars, clientVars,
     stopVars, flags
<1> QED
  BY <1>1, <1>2, <1>3, <1>4, <1>5, <1>6, <1>7, <1>8, <1>9, <1>10, <1>11, <1>12, <1>13,
     <1>14, <1>15, <1>16, <1>17 DEF SendStepOf, SendStep, FinalStepOf, FinalStep

\* What the first job of the queue is, and what is left behind it.
LEMMA TailShifts ==
    ASSUME NEW S, NEW q \in Seq(S), q # << >>
    PROVE  /\ Head(q) = q[1] /\ q[1] \in S /\ 1 \in 1 .. Len(q)
           /\ Len(Tail(q)) = Len(q) - 1
           /\ \A i \in 1 .. Len(Tail(q)) : i + 1 \in 1 .. Len(q) /\ Tail(q)[i] = q[i + 1]
  OBVIOUS

-----------------------------------------------------------------------------
(* The invariant is kept                                                   *)

\* What a step of safeSend() is to everyone else: a worker moves on within it.
Sends ==
    /\ \A u \in Threads : cpc'[u] = cpc[u] \/ (cpc[u] \in SendLabels /\ cpc'[u] \in SendLabels)
    /\ UNCHANGED <<table, fd, flags, this, clientVars, connections, recvBuffer, eof, events, lpc,
                   jobs, stopVars>>

\* A step of sendResponse() touches its worker, its mutex and its count only, as Sends has it.
LEMMA SendMoves ==
    ASSUME Ownership, NEW w \in Workers, SendStepOf(w)
    PROVE  Sends
<1> USE DEF Ownership, ServerTypeOK, ThreadsOK, Threads, SendLabels, SendStepOf, Sends
<1>1. CASE SendLock(w)
  BY <1>1 DEF SendLock, Goto
<1>2. CASE SendCheck(w)
  BY <1>2 DEF SendCheck, Goto
<1>3. CASE SendWrite(w)
  BY <1>3 DEF SendWrite, Goto
<1>4. CASE SendUnlock(w)
  BY <1>4 DEF SendUnlock, Goto
<1> QED
  BY <1>1, <1>2, <1>3, <1>4 DEF SendStep

\* A descriptor is given to one client, and taken back, under its own name.
LEMMA NextNamed ==
    ASSUME Ownership, LoopNext
    PROVE  Named'
<1>1. \/ UNCHANGED <<table, fd, client, connections, this, jobs>>
      \/ \E k \in Clients : ClientConnect(k)
      \/ spc = "out" /\ (NextEvent \/ Accept \/ Insert \/ Erase \/ Submit \/ ExtractDone)
      \/ StopClose \/ StopEnd
      \/ \E w \in Workers : StartJob(w)
      \/ \E t \in Threads : FinalStepOf(t)
  BY DEF LoopNext, ClientStep, SendStepOf, SendStep, ClientSend, ClientHangUp, SetupSocket,
     SetupEpoll, StartRunning, RunReturns, EpollWait, BatchDone, AcceptDone, Recv, RecvEnd,
     Forget, Dispatch, Finalized, StopBegin, StopKill, JobSent, SendLock, SendCheck,
     SendWrite, SendUnlock, loopVars, connVars, clientVars, stopVars, flags
<1> USE ConnectionAssumption DEF Ownership, ServerTypeOK, SocketsOK, FlagsOK, ThreadsOK,
       Named, Places, Flags, Stopping, Owned, Routed, Batch, Early, Stopped, Accepted,
       Closing, Has, Threads, Listen
<1>2. CASE UNCHANGED <<table, fd, client, connections, this, jobs>>
  BY <1>2
<1>3. ASSUME NEW k \in Clients, ClientConnect(k) PROVE Named'
  BY <1>3 DEF ClientConnect, connVars, clientVars, stopVars, flags
<1>4. CASE spc = "out" /\ NextEvent
  BY <1>4 DEF NextEvent, connVars, clientVars, stopVars, flags
<1>5. CASE spc = "out" /\ Accept
  BY <1>5 DEF Accept, connVars, clientVars, stopVars, flags
<1>6. CASE spc = "out" /\ Insert
  BY <1>6 DEF Insert, connVars, clientVars, stopVars, flags
<1>7. CASE spc = "out" /\ Erase
  BY <1>7 DEF Erase, Conn, Erased, connVars, clientVars, stopVars, flags
<1>8. CASE spc = "out" /\ Submit
  BY <1>8 DEF Submit, Conn, connVars, clientVars, stopVars, flags
<1>9. CASE spc = "out" /\ ExtractDone
  BY <1>9 DEF ExtractDone, Conn, AfterMessages, connVars, clientVars, stopVars, flags
<1>10. CASE StopClose
  BY <1>10 DEF StopClose, connVars, clientVars, stopVars, flags
<1>11. CASE StopEnd
  BY <1>11 DEF StopEnd, connVars, clientVars, stopVars, flags
<1>12. ASSUME NEW w \in Workers, StartJob(w) PROVE Named'
  <2>1. Head(jobs) = jobs[1] /\ jobs[1] \in Clients \X Messages /\ 1 \in 1 .. Len(jobs)
    BY <1>12, TailShifts DEF StartJob, MessagesOK
  <2>2. \A i \in 1 .. Len(Tail(jobs)) : i + 1 \in 1 .. Len(jobs) /\ Tail(jobs)[i] = jobs[i + 1]
    BY <1>12, TailShifts DEF StartJob, MessagesOK
  <2> QED
    BY <1>12, <2>1, <2>2 DEF StartJob, clientVars
<1>13. ASSUME NEW t \in Threads, FinalStepOf(t), FinalPeer(t) PROVE Named'
  BY <1>13 DEF FinalStepOf, FinalPeer, ContinueIf, connVars, clientVars, stopVars, flags
<1>14. ASSUME NEW t \in Threads, FinalStepOf(t), FinalPending(t) PROVE Named'
  BY <1>14 DEF FinalStepOf, FinalPending, ContinueIf, connVars, clientVars, stopVars, flags
<1>15. ASSUME NEW t \in Threads, FinalStepOf(t), FinalClaim(t) PROVE Named'
  BY <1>15 DEF FinalStepOf, FinalClaim, ContinueIf, connVars, clientVars, stopVars, flags
<1>16. ASSUME NEW t \in Threads, FinalStepOf(t), FinalKill(t) PROVE Named'
  BY <1>16 DEF FinalStepOf, FinalKill, Goto, connVars, clientVars, stopVars, flags
<1>17. ASSUME NEW t \in Threads, FinalStepOf(t), FinalClose(t) PROVE Named'
  BY <1>17 DEF FinalStepOf, FinalClose, ContinueIf, connVars, clientVars, stopVars, flags
<1> QED
  BY <1>1, <1>2, <1>3, <1>4, <1>5, <1>6, <1>7, <1>8, <1>9, <1>10, <1>11, <1>12, <1>13,
     <1>14, <1>15, <1>16, <1>17 DEF FinalStepOf, FinalStep

\* The threads stay where their labels say.
LEMMA NextPlaces ==
    ASSUME Ownership, LoopNext
    PROVE  Places'
<1>1. \/ UNCHANGED <<cpc, this, lpc, events, client, recvBuffer>>
      \/ \E k \in Clients : ClientConnect(k)
      \/ spc = "out" /\ (SetupSocket \/ SetupEpoll \/ StartRunning \/ RunReturns \/ EpollWait
            \/ NextEvent \/ BatchDone \/ Accept \/ Insert \/ AcceptDone \/ Recv \/ RecvEnd \/
            Forget \/ Erase \/ Dispatch \/ Submit \/ ExtractDone \/ Finalized)
      \/ \E w \in Workers : StartJob(w) \/ JobSent(w) \/ SendStepOf(w)
      \/ \E t \in Threads : FinalStepOf(t)
  BY DEF LoopNext, ClientStep, ClientSend, ClientHangUp, StopBegin, StopKill, StopClose,
     StopEnd, loopVars, connVars, clientVars, stopVars, flags
<1> USE ConnectionAssumption DEF Ownership, ServerTypeOK, SocketsOK, FlagsOK, ThreadsOK,
       Named, Places, Flags, Stopping, Owned, Routed, Batch, Early, Stopped, Accepted,
       Closing, Has, Threads, Listen, SendLabels, FinalLabels
<1>2. CASE UNCHANGED <<cpc, this, lpc, events, client, recvBuffer>>
  BY <1>2
<1>3. ASSUME NEW k \in Clients, ClientConnect(k) PROVE Places'
  BY <1>3 DEF ClientConnect, connVars, clientVars, stopVars, flags
<1>4. CASE spc = "out" /\ SetupSocket
  BY <1>4 DEF SetupSocket, connVars, clientVars, stopVars, flags
<1>5. CASE spc = "out" /\ SetupEpoll
  BY <1>5 DEF SetupEpoll, connVars, clientVars, stopVars, flags
<1>6. CASE spc = "out" /\ StartRunning
  BY <1>6 DEF StartRunning, connVars, clientVars, stopVars, flags
<1>7. CASE spc = "out" /\ RunReturns
  BY <1>7 DEF RunReturns, connVars, clientVars, stopVars, flags
<1>8. CASE spc = "out" /\ EpollWait
  BY <1>8 DEF EpollWait, Readable, connVars, clientVars, stopVars, flags
<1>9. CASE spc = "out" /\ NextEvent
  BY <1>9 DEF NextEvent, connVars, clientVars, stopVars, flags
<1>10. CASE spc = "out" /\ BatchDone
  BY <1>10 DEF BatchDone, connVars, clientVars, stopVars, flags
<1>11. CASE spc = "out" /\ Accept
  BY <1>11 DEF Accept, connVars, clientVars, stopVars, flags
<1>12. CASE spc = "out" /\ Insert
  BY <1>12 DEF Insert, connVars, clientVars, stopVars, flags
<1>13. CASE spc = "out" /\ AcceptDone
  BY <1>13 DEF AcceptDone, connVars, clientVars, stopVars, flags
<1>14. CASE spc = "out" /\ Recv
  BY <1>14 DEF Recv, Conn, Sock, connVars, clientVars, stopVars, flags
<1>15. CASE spc = "out" /\ RecvEnd
  BY <1>15 DEF RecvEnd, Conn, Sock, connVars, clientVars, stopVars, flags
<1>16. CASE spc = "out" /\ Forget
  BY <1>16 DEF Forget, Conn, connVars, clientVars, stopVars, flags
<1>17. CASE spc = "out" /\ Erase
  BY <1>17 DEF Erase, Conn, Erased, connVars, clientVars, stopVars, flags
<1>18. CASE spc = "out" /\ Dispatch
  BY <1>18 DEF Dispatch, Conn, connVars, clientVars, stopVars, flags
<1>19. CASE spc = "out" /\ Submit
  BY <1>19 DEF Submit, Conn, connVars, clientVars, stopVars, flags
<1>20. CASE spc = "out" /\ ExtractDone
  BY <1>20 DEF ExtractDone, Conn, AfterMessages, connVars, clientVars, stopVars, flags
<1>21. CASE spc = "out" /\ Finalized
  BY <1>21 DEF Finalized, connVars, clientVars, stopVars, flags
<1>22. ASSUME NEW w \in Workers, StartJob(w) PROVE Places'
  <2>1. Head(jobs) = jobs[1] /\ jobs[1] \in Clients \X Messages /\ 1 \in 1 .. Len(jobs)
    BY <1>22, TailShifts DEF StartJob, MessagesOK
  <2> QED
    BY <1>22, <2>1 DEF StartJob, clientVars
<1>23. ASSUME NEW w \in Workers, JobSent(w) PROVE Places'
  BY <1>23 DEF JobSent, Goto, connVars, clientVars, stopVars, flags
<1>24. ASSUME NEW w \in Workers, SendStepOf(w) PROVE Places'
  <2>1. Sends
    BY <1>24, SendMoves
  <2>2. (\A u \in Threads : cpc[u] = "out" => cpc'[u] = "out") /\ cpc'[Loop] = cpc[Loop]
    BY <2>1 DEF Sends
  <2>3. UNCHANGED <<this, lpc, events, client, recvBuffer>>
    BY <2>1 DEF Sends, clientVars
  <2> HIDE DEF Named, Flags, Owned, Stopping, Batch, Routed, SocketsOK, ThreadsOK
  <2> QED
    BY <2>2, <2>3
<1>25. ASSUME NEW t \in Threads, FinalStepOf(t), FinalPeer(t) PROVE Places'
  BY <1>25 DEF FinalStepOf, FinalPeer, ContinueIf, connVars, clientVars, stopVars, flags
<1>26. ASSUME NEW t \in Threads, FinalStepOf(t), FinalPending(t) PROVE Places'
  BY <1>26 DEF FinalStepOf, FinalPending, ContinueIf, connVars, clientVars, stopVars, flags
<1>27. ASSUME NEW t \in Threads, FinalStepOf(t), FinalClaim(t) PROVE Places'
  BY <1>27 DEF FinalStepOf, FinalClaim, ContinueIf, connVars, clientVars, stopVars, flags
<1>28. ASSUME NEW t \in Threads, FinalStepOf(t), FinalKill(t) PROVE Places'
  BY <1>28 DEF FinalStepOf, FinalKill, Goto, connVars, clientVars, stopVars, flags
<1>29. ASSUME NEW t \in Threads, FinalStepOf(t), FinalClose(t) PROVE Places'
  BY <1>29 DEF FinalStepOf, FinalClose, ContinueIf, connVars, clientVars, stopVars, flags
<1> QED
  BY <1>1, <1>2, <1>3, <1>4, <1>5, <1>6, <1>7, <1>8, <1>9, <1>10, <1>11, <1>12, <1>13,
     <1>14, <1>15, <1>16, <1>17, <1>18, <1>19, <1>20, <1>21, <1>22, <1>23, <1>24, <1>25,
     <1>26, <1>27, <1>28, <1>29 DEF FinalStepOf, FinalStep

\* fdClosed is won by one thread, after peerClosed was stored.
LEMMA NextFlags ==
    ASSUME Ownership, LoopNext
    PROVE  Flags'
<1>1. \/ UNCHANGED <<fdClosed, peerClosed, client, lpc, this, cpc>>
      \/ \E k \in Clients : ClientConnect(k)
      \/ spc = "out" /\ (SetupSocket \/ SetupEpoll \/ StartRunning \/ RunReturns \/ EpollWait
            \/ NextEvent \/ BatchDone \/ Accept \/ Insert \/ AcceptDone \/ RecvEnd \/ Forget
            \/ Erase \/ Dispatch \/ Submit \/ ExtractDone \/ Finalized)
      \/ \E w \in Workers : StartJob(w) \/ JobSent(w) \/ SendStepOf(w)
      \/ \E t \in Threads : FinalStepOf(t)
  BY DEF LoopNext, ClientStep, ClientSend, ClientHangUp, Recv, StopBegin, StopKill, StopClose,
     StopEnd, loopVars, connVars, clientVars, stopVars, flags
<1> USE ConnectionAssumption DEF Ownership, ServerTypeOK, SocketsOK, FlagsOK, ThreadsOK,
       Named, Places, Flags, Stopping, Owned, Routed, Batch, Early, Stopped, Accepted,
       Closing, Has, Threads, Listen
<1>2. CASE UNCHANGED <<fdClosed, peerClosed, client, lpc, this, cpc>>
  BY <1>2
<1>3. ASSUME NEW k \in Clients, ClientConnect(k) PROVE Flags'
  BY <1>3 DEF ClientConnect, connVars, clientVars, stopVars, flags
<1>4. CASE spc = "out" /\ SetupSocket
  BY <1>4 DEF SetupSocket, connVars, clientVars, stopVars, flags
<1>5. CASE spc = "out" /\ SetupEpoll
  BY <1>5 DEF SetupEpoll, connVars, clientVars, stopVars, flags
<1>6. CASE spc = "out" /\ StartRunning
  BY <1>6 DEF StartRunning, connVars, clientVars, stopVars, flags
<1>7. CASE spc = "out" /\ RunReturns
  BY <1>7 DEF RunReturns, connVars, clientVars, stopVars, flags
<1>8. CASE spc = "out" /\ EpollWait
  BY <1>8 DEF EpollWait, Readable, connVars, clientVars, stopVars, flags
<1>9. CASE spc = "out" /\ NextEvent
  BY <1>9 DEF NextEvent, connVars, clientVars, stopVars, flags
<1>10. CASE spc = "out" /\ BatchDone
  BY <1>10 DEF BatchDone, connVars, clientVars, stopVars, flags
<1>11. CASE spc = "out" /\ Accept
  BY <1>11 DEF Accept, connVars, clientVars, stopVars, flags
<1>12. CASE spc = "out" /\ Insert
  BY <1>12 DEF Insert, connVars, clientVars, stopVars, flags
<1>13. CASE spc = "out" /\ AcceptDone
  BY <1>13 DEF AcceptDone, connVars, clientVars, stopVars, flags
<1>14. CASE spc = "out" /\ RecvEnd
  BY <1>14 DEF RecvEnd, Conn, Sock, connVars, clientVars, stopVars, flags
<1>15. CASE spc = "out" /\ Forget
  BY <1>15 DEF Forget, Conn, connVars, clientVars, stopVars, flags
<1>16. CASE spc = "out" /\ Erase
  BY <1>16 DEF Erase, Conn, Erased, connVars, clientVars, stopVars, flags
<1>17. CASE spc = "out" /\ Dispatch
  BY <1>17 DEF Dispatch, Conn, connVars, clientVars, stopVars, flags
<1>18. CASE spc = "out" /\ Submit
  BY <1>18 DEF Submit, Conn, connVars, clientVars, stopVars, flags
<1>19. CASE spc = "out" /\ ExtractDone
  BY <1>19 DEF ExtractDone, Conn, AfterMessages, connVars, clientVars, stopVars, flags
<1>20. CASE spc = "out" /\ Finalized
  BY <1>20 DEF Finalized, connVars, clientVars, stopVars, flags
<1>21. ASSUME NEW w \in Workers, StartJob(w) PROVE Flags'
  BY <1>21 DEF StartJob, connVars, clientVars, stopVars, flags
<1>22. ASSUME NEW w \in Workers, JobSent(w) PROVE Flags'
  BY <1>22 DEF JobSent, Goto, connVars, clientVars, stopVars, flags
<1>23. ASSUME NEW w \in Workers, SendStepOf(w) PROVE Flags'
  <2>1. Sends
    BY <1>23, SendMoves
  <2>2. \A u \in Threads : (cpc[u] \in {"pending", "claim"})' => peerClosed[this[u]]
    BY <2>1 DEF Sends, SendLabels
  <2>3. \A u \in Threads : Closing(u)' => Closing(u)
    BY <2>1 DEF Sends, SendLabels
  <2> HIDE DEF Closing, Named, Places, Owned, Stopping, Batch, Routed, SocketsOK, ThreadsOK, Threads
  <2> QED
    BY <2>1, <2>2, <2>3 DEF Sends, clientVars, flags
<1>24. ASSUME NEW t \in Threads, FinalStepOf(t), FinalPeer(t) PROVE Flags'
  BY <1>24 DEF FinalStepOf, FinalPeer, ContinueIf, connVars, clientVars, stopVars, flags
<1>25. ASSUME NEW t \in Threads, FinalStepOf(t), FinalPending(t) PROVE Flags'
  BY <1>25 DEF FinalStepOf, FinalPending, ContinueIf, connVars, clientVars, stopVars, flags
<1>26. ASSUME NEW t \in Threads, FinalStepOf(t), FinalClaim(t) PROVE Flags'
  BY <1>26 DEF FinalStepOf, FinalClaim, ContinueIf, connVars, clientVars, stopVars, flags
<1>27. ASSUME NEW t \in Threads, FinalStepOf(t), FinalKill(t) PROVE Flags'
  BY <1>27 DEF FinalStepOf, FinalKill, Goto, connVars, clientVars, stopVars, flags
<1>28. ASSUME NEW t \in Threads, FinalStepOf(t), FinalClose(t) PROVE Flags'
  BY <1>28 DEF FinalStepOf, FinalClose, ContinueIf, connVars, clientVars, stopVars, flags
<1> QED
  BY <1>1, <1>2, <1>3, <1>4, <1>5, <1>6, <1>7, <1>8, <1>9, <1>10, <1>11, <1>12, <1>13,
     <1>14, <1>15, <1>16, <1>17, <1>18, <1>19, <1>20, <1>21, <1>22, <1>23, <1>24, <1>25,
     <1>26, <1>27, <1>28 DEF FinalStepOf, FinalStep

\* stop() visits every route, and nothing is accepted meanwhile.
LEMMA NextStopping ==
    ASSUME Ownership, LoopNext
    PROVE  Stopping'
<1>1. \/ UNCHANGED <<spc, running, listening, todo, connections, table>>
      \/ spc = "out" /\ (SetupSocket \/ StartRunning \/ Accept \/ Insert \/ Erase)
      \/ StopBegin \/ StopKill \/ StopClose \/ StopEnd
      \/ \E t \in Threads : FinalStepOf(t)
  BY DEF LoopNext, ClientStep, SendStepOf, SendStep, ClientConnect, ClientSend, ClientHangUp,
     SetupEpoll, RunReturns, EpollWait, NextEvent, BatchDone, AcceptDone, Recv, RecvEnd,
     Forget, Dispatch, Submit, ExtractDone, Finalized, StartJob, JobSent, SendLock, SendCheck,
     SendWrite, SendUnlock, AfterMessages, loopVars, connVars, clientVars, stopVars, flags
<1> USE ConnectionAssumption DEF Ownership, ServerTypeOK, SocketsOK, FlagsOK, ThreadsOK,
       Named, Places, Flags, Stopping, Owned, Routed, Batch, Early, Stopped, Accepted,
       Closing, Has, Threads, Listen
<1>2. CASE UNCHANGED <<spc, running, listening, todo, connections, table>>
  BY <1>2
<1>3. CASE spc = "out" /\ SetupSocket
  BY <1>3 DEF SetupSocket, connVars, clientVars, stopVars, flags
<1>4. CASE spc = "out" /\ StartRunning
  BY <1>4 DEF StartRunning, connVars, clientVars, stopVars, flags
<1>5. CASE spc = "out" /\ Accept
  BY <1>5 DEF Accept, connVars, clientVars, stopVars, flags
<1>6. CASE spc = "out" /\ Insert
  BY <1>6 DEF Insert, connVars, clientVars, stopVars, flags
<1>7. CASE spc = "out" /\ Erase
  BY <1>7 DEF Erase, Conn, Erased, connVars, clientVars, stopVars, flags
<1>8. CASE StopBegin
  BY <1>8 DEF StopBegin, ListensAfterStop, connVars, clientVars, stopVars, flags
<1>9. CASE StopKill
  BY <1>9 DEF StopKill, connVars, clientVars, stopVars, flags
<1>10. CASE StopClose
  BY <1>10 DEF StopClose, connVars, clientVars, stopVars, flags
<1>11. CASE StopEnd
  BY <1>11 DEF StopEnd, connVars, clientVars, stopVars, flags
<1>12. ASSUME NEW t \in Threads, FinalStepOf(t), FinalPeer(t) PROVE Stopping'
  BY <1>12 DEF FinalStepOf, FinalPeer, ContinueIf, connVars, clientVars, stopVars, flags
<1>13. ASSUME NEW t \in Threads, FinalStepOf(t), FinalPending(t) PROVE Stopping'
  BY <1>13 DEF FinalStepOf, FinalPending, ContinueIf, connVars, clientVars, stopVars, flags
<1>14. ASSUME NEW t \in Threads, FinalStepOf(t), FinalClaim(t) PROVE Stopping'
  BY <1>14 DEF FinalStepOf, FinalClaim, ContinueIf, connVars, clientVars, stopVars, flags
<1>15. ASSUME NEW t \in Threads, FinalStepOf(t), FinalKill(t) PROVE Stopping'
  BY <1>15 DEF FinalStepOf, FinalKill, Goto, connVars, clientVars, stopVars, flags
<1>16. ASSUME NEW t \in Threads, FinalStepOf(t), FinalClose(t) PROVE Stopping'
  BY <1>16 DEF FinalStepOf, FinalClose, ContinueIf, connVars, clientVars, stopVars, flags
<1> QED
  BY <1>1, <1>2, <1>3, <1>4, <1>5, <1>6, <1>7, <1>8, <1>9, <1>10, <1>11, <1>12, <1>13,
     <1>14, <1>15, <1>16 DEF FinalStepOf, FinalStep

\* A close takes the descriptor from nobody else: whoever has the same number
\* has lost it to stop() before.
LEMMA NextOwned ==
    ASSUME Ownership, LoopNext
    PROVE  Owned'
<1>1. \/ UNCHANGED <<client, fdClosed, table, fd, cpc, this, running, listening, lpc>>
      \/ \E k \in Clients : ClientConnect(k)
      \/ spc = "out" /\ (SetupSocket \/ SetupEpoll \/ StartRunning \/ RunReturns \/ EpollWait
            \/ NextEvent \/ BatchDone \/ Accept \/ Insert \/ AcceptDone \/ RecvEnd \/ Forget
            \/ Erase \/ Dispatch \/ Submit \/ ExtractDone \/ Finalized)
      \/ StopBegin \/ StopClose
      \/ \E w \in Workers : StartJob(w) \/ JobSent(w) \/ SendStepOf(w)
      \/ \E t \in Threads : FinalStepOf(t)
  BY DEF LoopNext, ClientStep, ClientSend, ClientHangUp, Recv, StopKill, StopEnd, loopVars,
     connVars, clientVars, stopVars, flags
<1> USE ConnectionAssumption DEF Ownership, ServerTypeOK, SocketsOK, FlagsOK, ThreadsOK,
       Named, Places, Flags, Stopping, Owned, Routed, Batch, Early, Stopped, Accepted,
       Closing, Has, Threads, Listen
<1>2. CASE UNCHANGED <<client, fdClosed, table, fd, cpc, this, running, listening, lpc>>
  BY <1>2
<1>3. ASSUME NEW k \in Clients, ClientConnect(k) PROVE Owned'
  BY <1>3 DEF ClientConnect, connVars, clientVars, stopVars, flags
<1>4. CASE spc = "out" /\ SetupSocket
  BY <1>4 DEF SetupSocket, connVars, clientVars, stopVars, flags
<1>5. CASE spc = "out" /\ SetupEpoll
  BY <1>5 DEF SetupEpoll, connVars, clientVars, stopVars, flags
<1>6. CASE spc = "out" /\ StartRunning
  BY <1>6 DEF StartRunning, connVars, clientVars, stopVars, flags
<1>7. CASE spc = "out" /\ RunReturns
  BY <1>7 DEF RunReturns, connVars, clientVars, stopVars, flags
<1>8. CASE spc = "out" /\ EpollWait
  BY <1>8 DEF EpollWait, Readable, connVars, clientVars, stopVars, flags
<1>9. CASE spc = "out" /\ NextEvent
  BY <1>9 DEF NextEvent, connVars, clientVars, stopVars, flags
<1>10. CASE spc = "out" /\ BatchDone
  BY <1>10 DEF BatchDone, connVars, clientVars, stopVars, flags
<1>11. CASE spc = "out" /\ Accept
  BY <1>11 DEF Accept, connVars, clientVars, stopVars, flags
<1>12. CASE spc = "out" /\ Insert
  BY <1>12 DEF Insert, connVars, clientVars, stopVars, flags
<1>13. CASE spc = "out" /\ AcceptDone
  BY <1>13 DEF AcceptDone, connVars, clientVars, stopVars, flags
<1>14. CASE spc = "out" /\ RecvEnd
  BY <1>14 DEF RecvEnd, Conn, Sock, connVars, clientVars, stopVars, flags
<1>15. CASE spc = "out" /\ Forget
  BY <1>15 DEF Forget, Conn, connVars, clientVars, stopVars, flags
<1>16. CASE spc = "out" /\ Erase
  BY <1>16 DEF Erase, Conn, Erased, connVars, clientVars, stopVars, flags
<1>17. CASE spc = "out" /\ Dispatch
  BY <1>17 DEF Dispatch, Conn, connVars, clientVars, stopVars, flags
<1>18. CASE spc = "out" /\ Submit
  BY <1>18 DEF Submit, Conn, connVars, clientVars, stopVars, flags
<1>19. CASE spc = "out" /\ ExtractDone
  BY <1>19 DEF ExtractDone, Conn, AfterMessages, connVars, clientVars, stopVars, flags
<1>20. CASE spc = "out" /\ Finalized
  BY <1>20 DEF Finalized, connVars, clientVars, stopVars, flags
<1>21. CASE StopBegin
  BY <1>21 DEF StopBegin, ListensAfterStop, connVars, clientVars, stopVars, flags
<1>22. CASE StopClose
  BY <1>22 DEF StopClose, connVars, clientVars, stopVars, flags
<1>23. ASSUME NEW w \in Workers, StartJob(w) PROVE Owned'
  BY <1>23 DEF StartJob, connVars, clientVars, stopVars, flags
<1>24. ASSUME NEW w \in Workers, JobSent(w) PROVE Owned'
  BY <1>24 DEF JobSent, Goto, connVars, clientVars, stopVars, flags
<1>25. ASSUME NEW w \in Workers, SendStepOf(w) PROVE Owned'
  <2>1. Sends
    BY <1>25, SendMoves
  <2> QED
    BY <2>1 DEF Sends, SendLabels, clientVars, stopVars, flags
<1>26. ASSUME NEW t \in Threads, FinalStepOf(t), FinalPeer(t) PROVE Owned'
  BY <1>26 DEF FinalStepOf, FinalPeer, ContinueIf, connVars, clientVars, stopVars, flags
<1>27. ASSUME NEW t \in Threads, FinalStepOf(t), FinalPending(t) PROVE Owned'
  BY <1>27 DEF FinalStepOf, FinalPending, ContinueIf, connVars, clientVars, stopVars, flags
<1>28. ASSUME NEW t \in Threads, FinalStepOf(t), FinalClaim(t) PROVE Owned'
  BY <1>28 DEF FinalStepOf, FinalClaim, ContinueIf, connVars, clientVars, stopVars, flags
<1>29. ASSUME NEW t \in Threads, FinalStepOf(t), FinalKill(t) PROVE Owned'
  BY <1>29 DEF FinalStepOf, FinalKill, Goto, connVars, clientVars, stopVars, flags
<1>30. ASSUME NEW t \in Threads, FinalStepOf(t), FinalClose(t) PROVE Owned'
  <2>1. /\ Closing(t) /\ cpc'[t] = "out" /\ this[t] \in Clients
        /\ \A u \in Threads : u # t => cpc'[u] = cpc[u] /\ this'[u] = this[u]
    BY <1>30 DEF FinalStepOf, FinalClose, ContinueIf
  <2>2. /\ table' = [table EXCEPT ![fd[this[t]]] = Nobody]
        /\ UNCHANGED <<fdClosed, fd, client, running, listening, lpc>>
    BY <1>30 DEF FinalStepOf, FinalClose, ContinueIf, clientVars, stopVars, flags
  <2>3. Has(this[t]) /\ fdClosed[this[t]]
    BY <2>1
  <2>4. ASSUME NEW j \in Clients, Accepted(j), j # this[t], Has(j) PROVE Has(j)'
    BY <2>1, <2>2, <2>3, <2>4
  <2>5. ASSUME NEW j \in Clients, Accepted(j)', ~fdClosed'[j] PROVE Has(j)'
    BY <2>2, <2>3, <2>4, <2>5
  <2>6. ASSUME NEW u \in Threads, Closing(u)' PROVE Has(this[u])'
    <3>1. u # t /\ Closing(u) /\ this'[u] = this[u]
      BY <2>1, <2>6
    <3>2. this[u] \in Clients /\ Accepted(this[u]) /\ this[u] # this[t] /\ Has(this[u])
      BY <3>1, <2>1
    <3> QED
      BY <3>1, <3>2, <2>4
  <2> QED
    BY <2>5, <2>6
<1> QED
  BY <1>1, <1>2, <1>3, <1>4, <1>5, <1>6, <1>7, <1>8, <1>9, <1>10, <1>11, <1>12, <1>13,
     <1>14, <1>15, <1>16, <1>17, <1>18, <1>19, <1>20, <1>21, <1>22, <1>23, <1>24, <1>25,
     <1>26, <1>27, <1>28, <1>29, <1>30 DEF FinalStepOf, FinalStep

\* Routes are closed only by stop(), or under the connection being forgotten.
LEMMA NextRouted ==
    ASSUME Ownership, LoopNext
    PROVE  Routed'
<1>1. \/ UNCHANGED <<connections, table, running, listening, lpc, fd, this, peerClosed>>
      \/ spc = "out" /\ (SetupSocket \/ SetupEpoll \/ StartRunning \/ RunReturns \/ EpollWait
            \/ NextEvent \/ BatchDone \/ Accept \/ Insert \/ AcceptDone \/ RecvEnd \/ Forget
            \/ Erase \/ Dispatch \/ Submit \/ ExtractDone \/ Finalized)
      \/ StopBegin \/ StopClose \/ StopEnd
      \/ \E w \in Workers : StartJob(w)
      \/ \E t \in Threads : FinalStepOf(t)
  BY DEF LoopNext, ClientStep, SendStepOf, SendStep, ClientConnect, ClientSend, ClientHangUp,
     Recv, StopKill, JobSent, SendLock, SendCheck, SendWrite, SendUnlock, loopVars, connVars,
     clientVars, stopVars, flags
<1> USE ConnectionAssumption DEF Ownership, ServerTypeOK, SocketsOK, FlagsOK, ThreadsOK,
       Named, Places, Flags, Stopping, Owned, Routed, Batch, Early, Stopped, Accepted,
       Closing, Has, Threads, Listen
<1>2. CASE UNCHANGED <<connections, table, running, listening, lpc, fd, this, peerClosed>>
  BY <1>2
<1>3. CASE spc = "out" /\ SetupSocket
  BY <1>3 DEF SetupSocket, connVars, clientVars, stopVars, flags
<1>4. CASE spc = "out" /\ SetupEpoll
  BY <1>4 DEF SetupEpoll, connVars, clientVars, stopVars, flags
<1>5. CASE spc = "out" /\ StartRunning
  BY <1>5 DEF StartRunning, connVars, clientVars, stopVars, flags
<1>6. CASE spc = "out" /\ RunReturns
  BY <1>6 DEF RunReturns, connVars, clientVars, stopVars, flags
<1>7. CASE spc = "out" /\ EpollWait
  BY <1>7 DEF EpollWait, Readable, connVars, clientVars, stopVars, flags
<1>8. CASE spc = "out" /\ NextEvent
  BY <1>8 DEF NextEvent, connVars, clientVars, stopVars, flags
<1>9. CASE spc = "out" /\ BatchDone
  BY <1>9 DEF BatchDone, connVars, clientVars, stopVars, flags
<1>10. CASE spc = "out" /\ Accept
  BY <1>10 DEF Accept, connVars, clientVars, stopVars, flags
<1>11. CASE spc = "out" /\ Insert
  BY <1>11 DEF Insert, connVars, clientVars, stopVars, flags
<1>12. CASE spc = "out" /\ AcceptDone
  BY <1>12 DEF AcceptDone, connVars, clientVars, stopVars, flags
<1>13. CASE spc = "out" /\ RecvEnd
  BY <1>13 DEF RecvEnd, Conn, Sock, connVars, clientVars, stopVars, flags
<1>14. CASE spc = "out" /\ Forget
  BY <1>14 DEF Forget, Conn, connVars, clientVars, stopVars, flags
<1>15. CASE spc = "out" /\ Erase
  BY <1>15 DEF Erase, Conn, Erased, connVars, clientVars, stopVars, flags
<1>16. CASE spc = "out" /\ Dispatch
  BY <1>16 DEF Dispatch, Conn, connVars, clientVars, stopVars, flags
<1>17. CASE spc = "out" /\ Submit
  BY <1>17 DEF Submit, Conn, connVars, clientVars, stopVars, flags
<1>18. CASE spc = "out" /\ ExtractDone
  BY <1>18 DEF ExtractDone, Conn, AfterMessages, connVars, clientVars, stopVars, flags
<1>19. CASE spc = "out" /\ Finalized
  BY <1>19 DEF Finalized, connVars, clientVars, stopVars, flags
<1>20. CASE StopBegin
  BY <1>20 DEF StopBegin, ListensAfterStop, connVars, clientVars, stopVars, flags
<1>21. CASE StopClose
  BY <1>21 DEF StopClose, connVars, clientVars, stopVars, flags
<1>22. CASE StopEnd
  BY <1>22 DEF StopEnd, connVars, clientVars, stopVars, flags
<1>23. ASSUME NEW w \in Workers, StartJob(w) PROVE Routed'
  BY <1>23 DEF StartJob, connVars, clientVars, stopVars, flags
<1>24. ASSUME NEW t \in Threads, FinalStepOf(t), FinalPeer(t) PROVE Routed'
  BY <1>24 DEF FinalStepOf, FinalPeer, ContinueIf, connVars, clientVars, stopVars, flags
<1>25. ASSUME NEW t \in Threads, FinalStepOf(t), FinalPending(t) PROVE Routed'
  BY <1>25 DEF FinalStepOf, FinalPending, ContinueIf, connVars, clientVars, stopVars, flags
<1>26. ASSUME NEW t \in Threads, FinalStepOf(t), FinalClaim(t) PROVE Routed'
  BY <1>26 DEF FinalStepOf, FinalClaim, ContinueIf, connVars, clientVars, stopVars, flags
<1>27. ASSUME NEW t \in Threads, FinalStepOf(t), FinalKill(t) PROVE Routed'
  BY <1>27 DEF FinalStepOf, FinalKill, Goto, connVars, clientVars, stopVars, flags
<1>28. ASSUME NEW t \in Threads, FinalStepOf(t), FinalClose(t) PROVE Routed'
  BY <1>28 DEF FinalStepOf, FinalClose, ContinueIf, connVars, clientVars, stopVars, flags
<1> QED
  BY <1>1, <1>2, <1>3, <1>4, <1>5, <1>6, <1>7, <1>8, <1>9, <1>10, <1>11, <1>12, <1>13,
     <1>14, <1>15, <1>16, <1>17, <1>18, <1>19, <1>20, <1>21, <1>22, <1>23, <1>24, <1>25,
     <1>26, <1>27, <1>28 DEF FinalStepOf, FinalStep

\* A batch holds no descriptor that its own handling erases.
LEMMA NextBatch ==
    ASSUME Ownership, LoopNext
    PROVE  Batch'
<1>1. \/ UNCHANGED <<running, events, connections, lpc, fd, this>>
      \/ spc = "out" /\ (SetupSocket \/ SetupEpoll \/ StartRunning \/ RunReturns \/ EpollWait
            \/ NextEvent \/ BatchDone \/ Accept \/ Insert \/ AcceptDone \/ RecvEnd \/ Forget
            \/ Erase \/ Dispatch \/ Submit \/ ExtractDone \/ Finalized)
      \/ StopBegin \/ StopEnd
      \/ \E w \in Workers : StartJob(w)
      \/ \E t \in Threads : FinalStepOf(t)
  BY DEF LoopNext, ClientStep, SendStepOf, SendStep, ClientConnect, ClientSend, ClientHangUp,
     Recv, StopKill, StopClose, JobSent, SendLock, SendCheck, SendWrite, SendUnlock, loopVars,
     connVars, clientVars, stopVars, flags
<1> USE ConnectionAssumption DEF Ownership, ServerTypeOK, SocketsOK, FlagsOK, ThreadsOK,
       Named, Places, Flags, Stopping, Owned, Routed, Batch, Early, Stopped, Accepted,
       Closing, Has, Threads, Listen
<1>2. CASE UNCHANGED <<running, events, connections, lpc, fd, this>>
  BY <1>2
<1>3. CASE spc = "out" /\ SetupSocket
  BY <1>3 DEF SetupSocket, connVars, clientVars, stopVars, flags
<1>4. CASE spc = "out" /\ SetupEpoll
  BY <1>4 DEF SetupEpoll, connVars, clientVars, stopVars, flags
<1>5. CASE spc = "out" /\ StartRunning
  BY <1>5 DEF StartRunning, connVars, clientVars, stopVars, flags
<1>6. CASE spc = "out" /\ RunReturns
  BY <1>6 DEF RunReturns, connVars, clientVars, stopVars, flags
<1>7. CASE spc = "out" /\ EpollWait
  BY <1>7 DEF EpollWait, Readable, connVars, clientVars, stopVars, flags
<1>8. CASE spc = "out" /\ NextEvent
  BY <1>8 DEF NextEvent, connVars, clientVars, stopVars, flags
<1>9. CASE spc = "out" /\ BatchDone
  BY <1>9 DEF BatchDone, connVars, clientVars, stopVars, flags
<1>10. CASE spc = "out" /\ Accept
  BY <1>10 DEF Accept, connVars, clientVars, stopVars, flags
<1>11. CASE spc = "out" /\ Insert
  BY <1>11 DEF Insert, connVars, clientVars, stopVars, flags
<1>12. CASE spc = "out" /\ AcceptDone
  BY <1>12 DEF AcceptDone, connVars, clientVars, stopVars, flags
<1>13. CASE spc = "out" /\ RecvEnd
  BY <1>13 DEF RecvEnd, Conn, Sock, connVars, clientVars, stopVars, flags
<1>14. CASE spc = "out" /\ Forget
  BY <1>14 DEF Forget, Conn, connVars, clientVars, stopVars, flags
<1>15. CASE spc = "out" /\ Erase
  BY <1>15 DEF Erase, Conn, Erased, connVars, clientVars, stopVars, flags
<1>16. CASE spc = "out" /\ Dispatch
  BY <1>16 DEF Dispatch, Conn, connVars, clientVars, stopVars, flags
<1>17. CASE spc = "out" /\ Submit
  BY <1>17 DEF Submit, Conn, connVars, clientVars, stopVars, flags
<1>18. CASE spc = "out" /\ ExtractDone
  BY <1>18 DEF ExtractDone, Conn, AfterMessages, connVars, clientVars, stopVars, flags
<1>19. CASE spc = "out" /\ Finalized
  BY <1>19 DEF Finalized, connVars, clientVars, stopVars, flags
<1>20. CASE StopBegin
  BY <1>20 DEF StopBegin, ListensAfterStop, connVars, clientVars, stopVars, flags
<1>21. CASE StopEnd
  BY <1>21 DEF StopEnd, connVars, clientVars, stopVars, flags
<1>22. ASSUME NEW w \in Workers, StartJob(w) PROVE Batch'
  BY <1>22 DEF StartJob, connVars, clientVars, stopVars, flags
<1>23. ASSUME NEW t \in Threads, FinalStepOf(t), FinalPeer(t) PROVE Batch'
  BY <1>23 DEF FinalStepOf, FinalPeer, ContinueIf, connVars, clientVars, stopVars, flags
<1>24. ASSUME NEW t \in Threads, FinalStepOf(t), FinalPending(t) PROVE Batch'
  BY <1>24 DEF FinalStepOf, FinalPending, ContinueIf, connVars, clientVars, stopVars, flags
<1>25. ASSUME NEW t \in Threads, FinalStepOf(t), FinalClaim(t) PROVE Batch'
  BY <1>25 DEF FinalStepOf, FinalClaim, ContinueIf, connVars, clientVars, stopVars, flags
<1>26. ASSUME NEW t \in Threads, FinalStepOf(t), FinalKill(t) PROVE Batch'
  BY <1>26 DEF FinalStepOf, FinalKill, Goto, connVars, clientVars, stopVars, flags
<1>27. ASSUME NEW t \in Threads, FinalStepOf(t), FinalClose(t) PROVE Batch'
  BY <1>27 DEF FinalStepOf, FinalClose, ContinueIf, connVars, clientVars, stopVars, flags
<1> QED
  BY <1>1, <1>2, <1>3, <1>4, <1>5, <1>6, <1>7, <1>8, <1>9, <1>10, <1>11, <1>12, <1>13,
     <1>14, <1>15, <1>16, <1>17, <1>18, <1>19, <1>20, <1>21, <1>22, <1>23, <1>24, <1>25,
     <1>26, <1>27 DEF FinalStepOf, FinalStep

\* The server starts with no connection.
LEMMA InitOwnership == LoopInit => Ownership
<1> SUFFICES ASSUME LoopInit PROVE Ownership
  OBVIOUS
<1> USE ConnectionAssumption, ScriptAssumption DEF LoopInit, ConnInit
<1>1. ServerTypeOK
  BY DEF ServerTypeOK, SocketsOK, MessagesOK, FlagsOK, ThreadsOK, SendLabels, FinalLabels,
     LoopLabels
<1>2. Named /\ Owned
  BY DEF Named, Owned, Accepted, Closing, Threads
<1>3. Places /\ Flags
  BY DEF Places, Flags, Early, Accepted, Closing, Threads
<1>4. Stopping /\ Routed /\ Batch
  BY DEF Stopping, Routed, Batch
<1> QED
  BY <1>1, <1>2, <1>3, <1>4 DEF Ownership

\* Every step keeps the invariant.
LEMMA NextOwnership == Ownership /\ LoopNext => Ownership'
<1> SUFFICES ASSUME Ownership, LoopNext PROVE Ownership'
  OBVIOUS
<1>1. ServerTypeOK'
  BY NextSocketsOK, NextMessagesOK, NextFlagsOK, NextThreadsOK DEF ServerTypeOK
<1>2. Named' /\ Places' /\ Flags' /\ Stopping'
  BY NextNamed, NextPlaces, NextFlags, NextStopping
<1>3. Owned' /\ Routed' /\ Batch'
  BY NextOwned, NextRouted, NextBatch
<1> QED
  BY <1>1, <1>2, <1>3 DEF Ownership

\* Ownership holds in every state of the server.
LEMMA AlwaysOwnership == ServerSpec => []Ownership
<1>1. ServerInit => Ownership
  BY InitOwnership DEF ServerInit
<1>2. Ownership /\ [ServerNext]_serverVars => Ownership'
  BY NextOwnership, ServerSteps
<1> QED
  BY <1>1, <1>2, PTL DEF ServerSpec

-----------------------------------------------------------------------------
(* Whose sockets are closed and routed to                                  *)

\* "guarded so it happens exactly once": until stop(), a descriptor stays its
\* connection's own up to the one close() in tryFinalize().
THEOREM ServerClosesOnlyItsOwn == ServerSpec => []ClosesOnlyItsOwn
<1>1. Ownership => ClosesOnlyItsOwn
  BY DEF Ownership, Owned, Has, Stopped, Accepted, Closing, ClosesOnlyItsOwn
<1> QED
  BY <1>1, AlwaysOwnership, PTL

\* stop() and tryFinalize() may close a descriptor twice, but never one that
\* another client has been given.
THEOREM ServerClosesNoOther == ServerSpec => []ClosesNoOther
<1>1. Ownership => ClosesNoOther
  BY DEF Ownership, Owned, Has, Closing, Stopping, Routed, ClosesNoOther
<1> QED
  BY <1>1, AlwaysOwnership, PTL

\* connections_ routes a descriptor only to the connection whose socket it is,
\* and handleReadable() finds every descriptor that epoll reported.
THEOREM ServerRoutesOpenSockets == ServerSpec => []RoutesOpenSockets
<1>1. Ownership => RoutesOpenSockets
  BY DEF Ownership, Routed, Batch, Stopped, Conn, RoutesOpenSockets
<1> QED
  BY <1>1, AlwaysOwnership, PTL

-----------------------------------------------------------------------------
(* Nothing is left behind: the second inductive invariant                  *)

\* The mutex of a connection is held only by a worker that is sending on it.
Locked ==
    \A k \in Clients :
        writeMutex[k] # Nobody => /\ cpc[writeMutex[k]] \in {"alive", "send", "unlock"}
                                  /\ this[writeMutex[k]] = k

\* The jobs of connection k: in the queue, with a worker, in the loop's hand.
JobsOf(q, k) == {i \in 1 .. Len(q) : q[i][1] = k}

Queued(k)  == JobsOf(jobs, k)
Busy(k)    == {w \in Workers : this[w] = k /\ cpc[w] \in SendLabels}
Handing(k) == IF lpc = "submit" /\ this[Loop] = k THEN 1 ELSE 0

\* pendingJobs is exact.
Counts(k) == pendingJobs[k] = Cardinality(Queued(k)) + Cardinality(Busy(k)) + Handing(k)

Counted == \A k \in Clients : Counts(k)

\* The loop forgets a connection whose peer has closed, and its own route only.
Forgetting ==
    /\ lpc \in {"forget", "erase"} => eof
    /\ lpc = "erase" => peerClosed[this[Loop]]
    /\ lpc \in {"recv", "forget", "erase"} =>
           \A f \in DOMAIN connections : f = fd[this[Loop]] => connections[f] = this[Loop]

\* A connection that was claimed and still has its descriptor is being closed.
Claimed ==
    \A k \in Clients :
        Accepted(k) /\ fdClosed[k] /\ table[fd[k]] = k => \E t \in Threads : Closing(t) /\ this[t] = k

\* Someone has yet to try to finalize k.
Awaited(k) ==
    \/ pendingJobs[k] > 0
    \/ \E t \in Threads : cpc[t] \in {"peerClosed", "pending", "claim"} /\ this[t] = k
    \/ lpc \in {"erase", "extract", "submit"} /\ eof /\ this[Loop] = k

\* A connection with a descriptor is routed to, about to be, or about to go.
Kept ==
    \A k \in Clients :
        Accepted(k) /\ table[fd[k]] = k =>
            \/ fd[k] \in DOMAIN connections /\ connections[fd[k]] = k
            \/ lpc = "insert" /\ this[Loop] = k
            \/ fdClosed[k]
            \/ peerClosed[k] /\ Awaited(k)

\* main(): what is over when.
Ending ==
    /\ mpc \in {"destroy", "drain", "exited"} => lpc = "returned"
    /\ mpc \in {"drain", "exited"} => spc = "out" /\ DOMAIN connections = {}
    /\ mpc = "exited" => Drained

Accounts == Locked /\ Counted /\ Forgetting /\ Claimed /\ Kept

\* What a step of tryFinalize() is to everyone else: a thread moves on within
\* it, or is done with the connection.
Finals ==
    /\ \A u \in Threads :
           \/ cpc'[u] = cpc[u] /\ this'[u] = this[u]
           \/ cpc[u] \in FinalLabels /\ cpc'[u] \in FinalLabels \cup {"out"}
    /\ UNCHANGED <<fd, pendingJobs, peerClosed, writeMutex, clientVars, connections, recvBuffer,
                   eof, events, lpc, jobs, stopVars>>

\* A step of finalize() touches the socket and the loop's books only, as Finals has it.
LEMMA FinalMoves ==
    ASSUME Ownership, NEW t \in Threads, FinalStepOf(t)
    PROVE  Finals
<1> USE DEF Ownership, ServerTypeOK, ThreadsOK, Threads, FinalLabels, FinalStepOf, Finals, flags
<1>1. CASE FinalPeer(t)
  BY <1>1 DEF FinalPeer, ContinueIf
<1>2. CASE FinalPending(t)
  BY <1>2 DEF FinalPending, ContinueIf
<1>3. CASE FinalClaim(t)
  BY <1>3 DEF FinalClaim, ContinueIf
<1>4. CASE FinalKill(t)
  BY <1>4 DEF FinalKill, Goto
<1>5. CASE FinalClose(t)
  BY <1>5 DEF FinalClose, ContinueIf
<1> QED
  BY <1>1, <1>2, <1>3, <1>4, <1>5 DEF FinalStep

\* Only its holder unlocks the mutex.
LEMMA NextLocked ==
    ASSUME Ownership, Accounts, LoopNext
    PROVE  Locked'
<1>1. \/ UNCHANGED <<writeMutex, cpc, this>>
      \/ spc = "out" /\ (NextEvent \/ Accept \/ Insert \/ ExtractDone)
      \/ \E w \in Workers : StartJob(w) \/ JobSent(w) \/ SendStepOf(w)
      \/ \E t \in Threads : FinalStepOf(t)
  BY DEF LoopNext, ClientStep, ClientConnect, ClientSend, ClientHangUp, SetupSocket,
     SetupEpoll, StartRunning, RunReturns, EpollWait, BatchDone, AcceptDone, Recv, RecvEnd,
     Forget, Erase, Dispatch, Submit, Finalized, StopBegin, StopKill, StopClose, StopEnd,
     loopVars, connVars, clientVars, stopVars, flags
<1> USE ConnectionAssumption DEF Ownership, ServerTypeOK, SocketsOK, FlagsOK, ThreadsOK,
       Named, Places, Flags, Stopping, Owned, Routed, Early, Stopped, Accepted, Closing, Has,
       Threads, Accounts, Locked, FinalLabels
<1>2. CASE UNCHANGED <<writeMutex, cpc, this>>
  BY <1>2
<1>3. CASE spc = "out" /\ NextEvent
  BY <1>3 DEF NextEvent, connVars, clientVars, stopVars, flags
<1>4. CASE spc = "out" /\ Accept
  BY <1>4 DEF Accept, connVars, clientVars, stopVars, flags
<1>5. CASE spc = "out" /\ Insert
  BY <1>5 DEF Insert, connVars, clientVars, stopVars, flags
<1>6. CASE spc = "out" /\ ExtractDone
  <2>1. CASE eof
    BY <1>6, <2>1 DEF ExtractDone, Conn, AfterMessages, clientVars, flags
  <2>2. CASE ~eof
    BY <1>6, <2>2 DEF ExtractDone, Conn, AfterMessages, clientVars, flags
  <2> QED
    BY <2>1, <2>2
<1>7. ASSUME NEW w \in Workers, StartJob(w) PROVE Locked'
  BY <1>7 DEF StartJob, connVars, clientVars, stopVars, flags
<1>8. ASSUME NEW w \in Workers, JobSent(w) PROVE Locked'
  BY <1>8 DEF JobSent, Goto, connVars, clientVars, stopVars, flags
<1>9. ASSUME NEW w \in Workers, SendStepOf(w), SendLock(w) PROVE Locked'
  BY <1>9 DEF SendStepOf, SendLock, Goto, connVars, clientVars, stopVars, flags
<1>10. ASSUME NEW w \in Workers, SendStepOf(w), SendCheck(w) PROVE Locked'
  <2>1. cpc' \in {[cpc EXCEPT ![w] = "send"], [cpc EXCEPT ![w] = "unlock"]} /\ cpc[w] = "alive"
    BY <1>10 DEF SendCheck, Goto
  <2>2. UNCHANGED <<writeMutex, this>>
    BY <1>10 DEF SendCheck
  <2>3. \A u \in Workers : cpc[u] \in {"alive", "send", "unlock"} => (cpc[u] \in {"alive", "send", "unlock"})'
    BY <2>1
  <2> QED
    BY <2>2, <2>3
<1>11. ASSUME NEW w \in Workers, SendStepOf(w), SendWrite(w) PROVE Locked'
  BY <1>11 DEF SendStepOf, SendWrite, Goto, connVars, clientVars, stopVars, flags
<1>12. ASSUME NEW w \in Workers, SendStepOf(w), SendUnlock(w) PROVE Locked'
  BY <1>12 DEF SendStepOf, SendUnlock, Goto, connVars, clientVars, stopVars, flags
<1>13. ASSUME NEW t \in Threads, FinalStepOf(t), FinalPeer(t) PROVE Locked'
  BY <1>13 DEF FinalStepOf, FinalPeer, ContinueIf, connVars, clientVars, stopVars, flags
<1>14. ASSUME NEW t \in Threads, FinalStepOf(t), FinalPending(t) PROVE Locked'
  BY <1>14 DEF FinalStepOf, FinalPending, ContinueIf, connVars, clientVars, stopVars, flags
<1>15. ASSUME NEW t \in Threads, FinalStepOf(t), FinalClaim(t) PROVE Locked'
  BY <1>15 DEF FinalStepOf, FinalClaim, ContinueIf, connVars, clientVars, stopVars, flags
<1>16. ASSUME NEW t \in Threads, FinalStepOf(t), FinalKill(t) PROVE Locked'
  BY <1>16 DEF FinalStepOf, FinalKill, Goto, connVars, clientVars, stopVars, flags
<1>17. ASSUME NEW t \in Threads, FinalStepOf(t), FinalClose(t) PROVE Locked'
  BY <1>17 DEF FinalStepOf, FinalClose, ContinueIf, connVars, clientVars, stopVars, flags
<1> QED
  BY <1>1, <1>2, <1>3, <1>4, <1>5, <1>6, <1>7, <1>8, <1>9, <1>10, <1>11, <1>12, <1>13,
     <1>14, <1>15, <1>16, <1>17 DEF SendStepOf, SendStep, FinalStepOf, FinalStep

-----------------------------------------------------------------------------
(* The count                                                               *)

\* What changes neither the jobs nor who works on them.
Quiet ==
    /\ UNCHANGED <<pendingJobs, jobs>>
    /\ \A w \in Workers : cpc[w] \in SendLabels <=> cpc'[w] \in SendLabels
    /\ \A w \in Workers : cpc[w] \in SendLabels => this'[w] = this[w]
    /\ lpc = "submit" \/ lpc' = "submit" => lpc' = lpc /\ this'[Loop] = this[Loop]

\* Steps that touch neither jobs nor workers keep the count.
LEMMA QuietCounts == Counted /\ Quiet => Counted'
<1> SUFFICES ASSUME Counted, Quiet, NEW k \in Clients PROVE Counts(k)'
  BY DEF Counted
<1>1. Queued(k)' = Queued(k)
  BY DEF Quiet, Queued, JobsOf
<1>2. Busy(k)' = Busy(k)
  BY DEF Quiet, Busy
<1>3. Handing(k)' = Handing(k)
  BY DEF Quiet, Handing
<1> QED
  BY <1>1, <1>2, <1>3 DEF Counted, Counts, Quiet

\* The sets that are counted are finite.
LEMMA FiniteCounts ==
    ASSUME jobs \in Seq(Clients \X Messages), NEW k
    PROVE  /\ IsFiniteSet(Queued(k)) /\ Cardinality(Queued(k)) \in Nat
           /\ IsFiniteSet(Busy(k)) /\ Cardinality(Busy(k)) \in Nat
<1>1. IsFiniteSet(1 .. Len(jobs))
  BY FS_Interval
<1>2. IsFiniteSet(Queued(k)) /\ IsFiniteSet(Busy(k))
  BY <1>1, FS_Subset, ConnectionAssumption DEF Queued, JobsOf, Busy
<1> QED
  BY <1>2, FS_CardinalityType

\* Taking the first job from a queue takes one from the count of its connection
\* and leaves the others alone.
LEMMA TailCount ==
    ASSUME NEW S, NEW q \in Seq(S), q # << >>, NEW k
    PROVE  Cardinality(JobsOf(Tail(q), k)) =
               IF q[1][1] = k THEN Cardinality(JobsOf(q, k)) - 1 ELSE Cardinality(JobsOf(q, k))
<1> USE DEF JobsOf
<1> DEFINE Old == JobsOf(q, k)
           New == JobsOf(Tail(q), k)
           shift == [i \in New |-> i + 1]
<1>1. IsFiniteSet(Old) /\ IsFiniteSet(New)
  <2>1. IsFiniteSet(1 .. Len(q)) /\ IsFiniteSet(1 .. Len(Tail(q)))
    BY FS_Interval, TailShifts
  <2> QED
    BY <2>1, FS_Subset
<1>2. \A i \in 1 .. Len(Tail(q)) : i + 1 \in 1 .. Len(q) /\ Tail(q)[i] = q[i + 1]
  BY TailShifts
<1>3. \A j \in 1 .. Len(q) : j # 1 => j - 1 \in 1 .. Len(Tail(q)) /\ Tail(q)[j - 1] = q[j]
  BY TailShifts
<1>4. shift \in Bijection(New, Old \ {1})
  <2>1. shift \in [New -> Old \ {1}]
    BY <1>2
  <2>2. \A a, b \in New : a # b => shift[a] # shift[b]
    OBVIOUS
  <2>3. ASSUME NEW j \in Old \ {1} PROVE \E i \in New : shift[i] = j
    <3>1. j - 1 \in New /\ (j - 1) + 1 = j
      BY <1>3
    <3> QED
      BY <3>1
  <2> QED
    BY <2>1, <2>2, <2>3 DEF Bijection, Injection, Surjection, IsInjective
<1>5. Cardinality(Old \ {1}) = Cardinality(New)
  BY <1>1, <1>4, FS_Bijection DEF ExistsBijection
<1>6. 1 \in Old <=> q[1][1] = k
  BY TailShifts
<1> QED
  BY <1>1, <1>5, <1>6, FS_RemoveElement

\* dispatchToWorker() counts a job before it is queued, the worker when it is
\* done with it.
LEMMA NextCounted ==
    ASSUME Ownership, Accounts, LoopNext
    PROVE  Counted'
<1>1. \/ UNCHANGED <<pendingJobs, jobs, this, cpc, lpc>>
      \/ spc = "out" /\ (SetupSocket \/ SetupEpoll \/ StartRunning \/ RunReturns \/ EpollWait
            \/ NextEvent \/ BatchDone \/ Accept \/ Insert \/ AcceptDone \/ RecvEnd \/ Forget
            \/ Erase \/ Dispatch \/ Submit \/ ExtractDone \/ Finalized)
      \/ \E w \in Workers : StartJob(w) \/ JobSent(w) \/ SendStepOf(w)
      \/ \E t \in Threads : FinalStepOf(t)
  BY DEF LoopNext, ClientStep, ClientConnect, ClientSend, ClientHangUp, Recv, StopBegin,
     StopKill, StopClose, StopEnd, loopVars, connVars, clientVars, stopVars, flags
<1> USE ConnectionAssumption, QuietCounts DEF Ownership, ServerTypeOK, FlagsOK, ThreadsOK,
       Places, Threads, Accounts, Quiet, SendLabels, FinalLabels
<1>2. CASE UNCHANGED <<pendingJobs, jobs, this, cpc, lpc>>
  BY <1>2
<1>3. CASE spc = "out" /\ SetupSocket
  BY <1>3 DEF SetupSocket, connVars, clientVars, stopVars, flags
<1>4. CASE spc = "out" /\ SetupEpoll
  BY <1>4 DEF SetupEpoll, connVars, clientVars, stopVars, flags
<1>5. CASE spc = "out" /\ StartRunning
  BY <1>5 DEF StartRunning, connVars, clientVars, stopVars, flags
<1>6. CASE spc = "out" /\ RunReturns
  BY <1>6 DEF RunReturns, connVars, clientVars, stopVars, flags
<1>7. CASE spc = "out" /\ EpollWait
  BY <1>7 DEF EpollWait, Readable, connVars, clientVars, stopVars, flags
<1>8. CASE spc = "out" /\ NextEvent
  BY <1>8 DEF NextEvent, connVars, clientVars, stopVars, flags
<1>9. CASE spc = "out" /\ BatchDone
  BY <1>9 DEF BatchDone, connVars, clientVars, stopVars, flags
<1>10. CASE spc = "out" /\ Accept
  BY <1>10 DEF Accept, connVars, clientVars, stopVars, flags
<1>11. CASE spc = "out" /\ Insert
  BY <1>11 DEF Insert, connVars, clientVars, stopVars, flags
<1>12. CASE spc = "out" /\ AcceptDone
  BY <1>12 DEF AcceptDone, connVars, clientVars, stopVars, flags
<1>13. CASE spc = "out" /\ RecvEnd
  BY <1>13 DEF RecvEnd, Conn, Sock, connVars, clientVars, stopVars, flags
<1>14. CASE spc = "out" /\ Forget
  BY <1>14 DEF Forget, Conn, connVars, clientVars, stopVars, flags
<1>15. CASE spc = "out" /\ Erase
  BY <1>15 DEF Erase, Conn, Erased, connVars, clientVars, stopVars, flags
<1>16. CASE spc = "out" /\ Dispatch
  <2> SUFFICES ASSUME NEW k \in Clients PROVE Counts(k)'
    BY DEF Counted
  <2>1. /\ this[Loop] \in Clients /\ lpc = "extract" /\ lpc' = "submit"
        /\ pendingJobs' = [pendingJobs EXCEPT ![this[Loop]] = @ + 1]
        /\ UNCHANGED <<jobs, cpc, this>>
    BY <1>16 DEF Dispatch, Conn
  <2>2. Queued(k)' = Queued(k) /\ Busy(k)' = Busy(k)
    BY <2>1 DEF Queued, JobsOf, Busy
  <2>3. Handing(k) = 0 /\ Handing(k)' = IF this[Loop] = k THEN 1 ELSE 0
    BY <2>1 DEF Handing
  <2>4. pendingJobs'[k] = pendingJobs[k] + Handing(k)'
    BY <2>1, <2>3
  <2> QED
    BY <2>2, <2>3, <2>4, FiniteCounts DEF Counted, Counts, MessagesOK
<1>17. CASE spc = "out" /\ Submit
  <2> SUFFICES ASSUME NEW k \in Clients PROVE Counts(k)'
    BY DEF Counted
  <2>1. /\ this[Loop] \in Clients /\ lpc = "submit" /\ lpc' = "extract"
        /\ jobs' = Append(jobs, <<this[Loop], Head(recvBuffer[this[Loop]])>>)
        /\ UNCHANGED <<pendingJobs, cpc, this>>
    BY <1>17 DEF Submit, Conn, connVars, flags
  <2>2. Busy(k)' = Busy(k)
    BY <2>1 DEF Busy
  <2>3. Handing(k)' = 0 /\ Handing(k) = IF this[Loop] = k THEN 1 ELSE 0
    BY <2>1 DEF Handing
  <2>4. jobs \in Seq(Clients \X Messages) /\ Len(jobs) \in Nat
    BY DEF MessagesOK
  <2>5. CASE this[Loop] = k
    <3>1. Queued(k)' = Queued(k) \cup {Len(jobs) + 1} /\ Len(jobs) + 1 \notin Queued(k)
      BY <2>1, <2>4, <2>5 DEF Queued, JobsOf
    <3>2. Cardinality(Queued(k)') = Cardinality(Queued(k)) + 1
      BY <2>4, <3>1, FiniteCounts, FS_AddElement
    <3> QED
      BY <2>1, <2>2, <2>3, <2>4, <2>5, <3>2, FiniteCounts DEF Counted, Counts
  <2>6. CASE this[Loop] # k
    <3>1. Queued(k)' = Queued(k)
      BY <2>1, <2>4, <2>6 DEF Queued, JobsOf
    <3> QED
      BY <2>1, <2>2, <2>3, <2>6, <3>1 DEF Counted, Counts
  <2> QED
    BY <2>5, <2>6
<1>18. CASE spc = "out" /\ ExtractDone
  <2>1. CASE eof
    BY <1>18, <2>1 DEF ExtractDone, Conn, AfterMessages, clientVars, flags
  <2>2. CASE ~eof
    BY <1>18, <2>2 DEF ExtractDone, Conn, AfterMessages, clientVars, flags
  <2> QED
    BY <2>1, <2>2
<1>19. CASE spc = "out" /\ Finalized
  BY <1>19 DEF Finalized, connVars, clientVars, stopVars, flags
<1>20. ASSUME NEW w \in Workers, StartJob(w) PROVE Counted'
  <2> SUFFICES ASSUME NEW k \in Clients PROVE Counts(k)'
    BY DEF Counted
  <2>1. /\ jobs \in Seq(Clients \X Messages) /\ jobs # << >> /\ jobs' = Tail(jobs)
        /\ jobs[1][1] \in Clients /\ Head(jobs) = jobs[1]
    BY <1>20, TailShifts DEF StartJob, MessagesOK
  <2>2. /\ cpc[w] = "out" /\ cpc' = [cpc EXCEPT ![w] = "lock"]
        /\ this' = [this EXCEPT ![w] = jobs[1][1]]
        /\ UNCHANGED <<pendingJobs, lpc>>
    BY <1>20, <2>1 DEF StartJob, flags
  <2>3. Handing(k)' = Handing(k) /\ Handing(k) \in {0, 1}
    BY <2>2 DEF Handing
  <2>4. Cardinality(Queued(k)') = IF jobs[1][1] = k THEN Cardinality(Queued(k)) - 1
                                                    ELSE Cardinality(Queued(k))
    BY <2>1, TailCount DEF Queued
  <2>5. CASE jobs[1][1] = k
    <3>1. Busy(k)' = Busy(k) \cup {w} /\ w \notin Busy(k)
      BY <2>2, <2>5 DEF Busy, SendLabels
    <3>2. Cardinality(Busy(k)') = Cardinality(Busy(k)) + 1
      <4>1. IsFiniteSet(Busy(k))
        BY <2>1, FiniteCounts
      <4> QED
        BY <3>1, <4>1, FS_AddElement
    <3> QED
      BY <2>1, <2>2, <2>3, <2>4, <2>5, <3>2, FiniteCounts DEF Counted, Counts
  <2>6. CASE jobs[1][1] # k
    <3>1. Busy(k)' = Busy(k)
      BY <2>2, <2>6 DEF Busy, SendLabels
    <3> QED
      BY <2>2, <2>3, <2>4, <2>6, <3>1 DEF Counted, Counts
  <2> QED
    BY <2>5, <2>6
<1>21. ASSUME NEW w \in Workers, JobSent(w) PROVE Counted'
  <2> SUFFICES ASSUME NEW k \in Clients PROVE Counts(k)'
    BY DEF Counted
  <2>1. /\ this[w] \in Clients /\ cpc[w] = "done" /\ cpc' = [cpc EXCEPT ![w] = "peerClosed"]
        /\ pendingJobs' = [pendingJobs EXCEPT ![this[w]] = @ - 1]
        /\ UNCHANGED <<jobs, this, lpc>>
    BY <1>21 DEF JobSent, Goto
  <2>2. Queued(k)' = Queued(k) /\ Handing(k)' = Handing(k) /\ Handing(k) \in {0, 1}
    BY <2>1 DEF Queued, JobsOf, Handing
  <2>3. CASE this[w] = k
    <3>1. Busy(k)' = Busy(k) \ {w} /\ w \in Busy(k)
      BY <2>1, <2>3 DEF Busy, SendLabels
    <3>2. Cardinality(Busy(k)') = Cardinality(Busy(k)) - 1
      BY <3>1, FiniteCounts, FS_RemoveElement DEF MessagesOK
    <3> QED
      BY <2>1, <2>2, <2>3, <3>2, FiniteCounts DEF Counted, Counts, MessagesOK
  <2>4. CASE this[w] # k
    <3>1. Busy(k)' = Busy(k)
      BY <2>1, <2>4 DEF Busy, SendLabels
    <3> QED
      BY <2>1, <2>2, <2>4, <3>1 DEF Counted, Counts
  <2> QED
    BY <2>3, <2>4
<1>22. ASSUME NEW w \in Workers, SendStepOf(w) PROVE Counted'
  <2>1. Sends
    BY <1>22, SendMoves
  <2> QED
    BY <2>1 DEF Sends, SendLabels, clientVars, stopVars, flags
<1>23. ASSUME NEW t \in Threads, FinalStepOf(t) PROVE Counted'
  <2>1. Finals
    BY <1>23, FinalMoves
  <2> QED
    BY <2>1 DEF Finals, FinalLabels, clientVars, stopVars, flags
<1> QED
  BY <1>1, <1>2, <1>3, <1>4, <1>5, <1>6, <1>7, <1>8, <1>9, <1>10, <1>11, <1>12, <1>13,
     <1>14, <1>15, <1>16, <1>17, <1>18, <1>19, <1>20, <1>21, <1>22, <1>23

-----------------------------------------------------------------------------
(* The descriptors                                                         *)

\* The loop is on one connection from recv() to the erase.
LEMMA NextForgetting ==
    ASSUME Ownership, Accounts, LoopNext
    PROVE  Forgetting'
<1>1. \/ UNCHANGED <<lpc, eof, peerClosed, this, connections, fd>>
      \/ spc = "out" /\ (SetupSocket \/ SetupEpoll \/ StartRunning \/ RunReturns \/ EpollWait
            \/ NextEvent \/ BatchDone \/ Accept \/ Insert \/ AcceptDone \/ RecvEnd \/ Forget
            \/ Erase \/ Dispatch \/ Submit \/ ExtractDone \/ Finalized)
      \/ StopEnd
      \/ \E w \in Workers : StartJob(w)
      \/ \E t \in Threads : FinalStepOf(t)
  BY DEF LoopNext, ClientStep, SendStepOf, SendStep, ClientConnect, ClientSend, ClientHangUp,
     Recv, StopBegin, StopKill, StopClose, JobSent, SendLock, SendCheck, SendWrite,
     SendUnlock, loopVars, connVars, clientVars, stopVars, flags
<1> USE ConnectionAssumption DEF Ownership, ServerTypeOK, SocketsOK, FlagsOK, ThreadsOK,
       Named, Places, Flags, Stopping, Owned, Routed, Early, Stopped, Accepted, Closing, Has,
       Threads, Accounts, Forgetting
<1>2. CASE UNCHANGED <<lpc, eof, peerClosed, this, connections, fd>>
  BY <1>2
<1>3. CASE spc = "out" /\ SetupSocket
  BY <1>3 DEF SetupSocket, connVars, clientVars, stopVars, flags
<1>4. CASE spc = "out" /\ SetupEpoll
  BY <1>4 DEF SetupEpoll, connVars, clientVars, stopVars, flags
<1>5. CASE spc = "out" /\ StartRunning
  BY <1>5 DEF StartRunning, connVars, clientVars, stopVars, flags
<1>6. CASE spc = "out" /\ RunReturns
  BY <1>6 DEF RunReturns, connVars, clientVars, stopVars, flags
<1>7. CASE spc = "out" /\ EpollWait
  BY <1>7 DEF EpollWait, Readable, connVars, clientVars, stopVars, flags
<1>8. CASE spc = "out" /\ NextEvent
  BY <1>8 DEF NextEvent, connVars, clientVars, stopVars, flags
<1>9. CASE spc = "out" /\ BatchDone
  BY <1>9 DEF BatchDone, connVars, clientVars, stopVars, flags
<1>10. CASE spc = "out" /\ Accept
  BY <1>10 DEF Accept, connVars, clientVars, stopVars, flags
<1>11. CASE spc = "out" /\ Insert
  BY <1>11 DEF Insert, connVars, clientVars, stopVars, flags
<1>12. CASE spc = "out" /\ AcceptDone
  BY <1>12 DEF AcceptDone, connVars, clientVars, stopVars, flags
<1>13. CASE spc = "out" /\ RecvEnd
  BY <1>13 DEF RecvEnd, Conn, Sock, connVars, clientVars, stopVars, flags
<1>14. CASE spc = "out" /\ Forget
  BY <1>14 DEF Forget, Conn, connVars, clientVars, stopVars, flags
<1>15. CASE spc = "out" /\ Erase
  BY <1>15 DEF Erase, Conn, Erased, connVars, clientVars, stopVars, flags
<1>16. CASE spc = "out" /\ Dispatch
  BY <1>16 DEF Dispatch, Conn, connVars, clientVars, stopVars, flags
<1>17. CASE spc = "out" /\ Submit
  BY <1>17 DEF Submit, Conn, connVars, clientVars, stopVars, flags
<1>18. CASE spc = "out" /\ ExtractDone
  BY <1>18 DEF ExtractDone, Conn, AfterMessages, connVars, clientVars, stopVars, flags
<1>19. CASE spc = "out" /\ Finalized
  BY <1>19 DEF Finalized, connVars, clientVars, stopVars, flags
<1>20. CASE StopEnd
  BY <1>20 DEF StopEnd, connVars, clientVars, stopVars, flags
<1>21. ASSUME NEW w \in Workers, StartJob(w) PROVE Forgetting'
  BY <1>21 DEF StartJob, connVars, clientVars, stopVars, flags
<1>22. ASSUME NEW t \in Threads, FinalStepOf(t), FinalPeer(t) PROVE Forgetting'
  BY <1>22 DEF FinalStepOf, FinalPeer, ContinueIf, connVars, clientVars, stopVars, flags
<1>23. ASSUME NEW t \in Threads, FinalStepOf(t), FinalPending(t) PROVE Forgetting'
  BY <1>23 DEF FinalStepOf, FinalPending, ContinueIf, connVars, clientVars, stopVars, flags
<1>24. ASSUME NEW t \in Threads, FinalStepOf(t), FinalClaim(t) PROVE Forgetting'
  BY <1>24 DEF FinalStepOf, FinalClaim, ContinueIf, connVars, clientVars, stopVars, flags
<1>25. ASSUME NEW t \in Threads, FinalStepOf(t), FinalKill(t) PROVE Forgetting'
  BY <1>25 DEF FinalStepOf, FinalKill, Goto, connVars, clientVars, stopVars, flags
<1>26. ASSUME NEW t \in Threads, FinalStepOf(t), FinalClose(t) PROVE Forgetting'
  BY <1>26 DEF FinalStepOf, FinalClose, ContinueIf, connVars, clientVars, stopVars, flags
<1> QED
  BY <1>1, <1>2, <1>3, <1>4, <1>5, <1>6, <1>7, <1>8, <1>9, <1>10, <1>11, <1>12, <1>13,
     <1>14, <1>15, <1>16, <1>17, <1>18, <1>19, <1>20, <1>21, <1>22, <1>23, <1>24, <1>25, <1>26 DEF FinalStepOf, FinalStep

\* A step that opens and closes nothing keeps the closers where they are.
LEMMA StillClaimed ==
    ASSUME Claimed, UNCHANGED <<client, fdClosed, table, fd>>,
           \A t \in Threads : Closing(t) => Closing(t)' /\ this'[t] = this[t]
    PROVE  Claimed'
  BY DEF Claimed, Accepted

\* Who claims, closes.
LEMMA NextClaimed ==
    ASSUME Ownership, Accounts, LoopNext
    PROVE  Claimed'
<1>1. \/ UNCHANGED <<client, fdClosed, table, fd, cpc, this>>
      \/ \E k \in Clients : ClientConnect(k)
      \/ spc = "out" /\ (NextEvent \/ Accept \/ Insert \/ ExtractDone)
      \/ StopClose
      \/ \E w \in Workers : StartJob(w) \/ JobSent(w) \/ SendStepOf(w)
      \/ \E t \in Threads : FinalStepOf(t)
  BY DEF LoopNext, ClientStep, ClientSend, ClientHangUp, SetupSocket, SetupEpoll,
     StartRunning, RunReturns, EpollWait, BatchDone, AcceptDone, Recv, RecvEnd, Forget, Erase,
     Dispatch, Submit, Finalized, StopBegin, StopKill, StopEnd, loopVars, connVars,
     clientVars, stopVars, flags
<1> USE ConnectionAssumption DEF Ownership, ServerTypeOK, SocketsOK, FlagsOK, ThreadsOK,
       Named, Places, Flags, Stopping, Owned, Routed, Early, Stopped, Accepted, Closing, Has,
       Threads, Accounts, Claimed
<1>2. CASE UNCHANGED <<client, fdClosed, table, fd, cpc, this>>
  BY <1>2
<1>3. ASSUME NEW k \in Clients, ClientConnect(k) PROVE Claimed'
  BY <1>3 DEF ClientConnect, connVars, clientVars, stopVars, flags
<1>4. CASE spc = "out" /\ NextEvent
  BY <1>4 DEF NextEvent, connVars, clientVars, stopVars, flags
<1>5. CASE spc = "out" /\ Accept
  BY <1>5 DEF Accept, connVars, clientVars, stopVars, flags
<1>6. CASE spc = "out" /\ Insert
  BY <1>6 DEF Insert, connVars, clientVars, stopVars, flags
<1>7. CASE spc = "out" /\ ExtractDone
  <2>1. UNCHANGED <<client, fdClosed, table, fd>>
    BY <1>7 DEF ExtractDone, AfterMessages, clientVars, flags
  <2>2. \A u \in Threads : Closing(u) => Closing(u)' /\ this'[u] = this[u]
    BY <1>7 DEF ExtractDone, AfterMessages, clientVars, flags
  <2> QED
    BY <2>1, <2>2, StillClaimed
<1>8. CASE StopClose
  BY <1>8 DEF StopClose, connVars, clientVars, stopVars, flags
<1>9. ASSUME NEW w \in Workers, StartJob(w) PROVE Claimed'
  BY <1>9 DEF StartJob, connVars, clientVars, stopVars, flags
<1>10. ASSUME NEW w \in Workers, JobSent(w) PROVE Claimed'
  <2>1. UNCHANGED <<client, fdClosed, table, fd>>
    BY <1>10 DEF JobSent, Goto, clientVars
  <2>2. \A u \in Threads : Closing(u) => Closing(u)' /\ this'[u] = this[u]
    BY <1>10 DEF JobSent, Goto, clientVars
  <2> QED
    BY <2>1, <2>2, StillClaimed
<1>11. ASSUME NEW w \in Workers, SendStepOf(w) PROVE Claimed'
  <2>1. Sends
    BY <1>11, SendMoves
  <2>2. \A u \in Threads : Closing(u) => Closing(u)' /\ this'[u] = this[u]
    BY <2>1 DEF Sends, SendLabels
  <2> QED
    BY <2>1, <2>2, StillClaimed DEF Sends, clientVars, flags
<1>12. ASSUME NEW t \in Threads, FinalStepOf(t), FinalPeer(t) PROVE Claimed'
  <2>1. UNCHANGED <<client, fdClosed, table, fd>>
    BY <1>12 DEF FinalStepOf, FinalPeer, ContinueIf, clientVars, flags
  <2>2. \A u \in Threads : Closing(u) => Closing(u)' /\ this'[u] = this[u]
    BY <1>12 DEF FinalStepOf, FinalPeer, ContinueIf, clientVars, flags
  <2> QED
    BY <2>1, <2>2, StillClaimed
<1>13. ASSUME NEW t \in Threads, FinalStepOf(t), FinalPending(t) PROVE Claimed'
  <2>1. UNCHANGED <<client, fdClosed, table, fd>>
    BY <1>13 DEF FinalStepOf, FinalPending, ContinueIf, clientVars, flags
  <2>2. \A u \in Threads : Closing(u) => Closing(u)' /\ this'[u] = this[u]
    BY <1>13 DEF FinalStepOf, FinalPending, ContinueIf, clientVars, flags
  <2> QED
    BY <2>1, <2>2, StillClaimed
<1>14. ASSUME NEW t \in Threads, FinalStepOf(t), FinalClaim(t) PROVE Claimed'
  BY <1>14 DEF FinalStepOf, FinalClaim, ContinueIf, connVars, clientVars, stopVars, flags
<1>15. ASSUME NEW t \in Threads, FinalStepOf(t), FinalKill(t) PROVE Claimed'
  BY <1>15 DEF FinalStepOf, FinalKill, Goto, connVars, clientVars, stopVars, flags
<1>16. ASSUME NEW t \in Threads, FinalStepOf(t), FinalClose(t) PROVE Claimed'
  BY <1>16 DEF FinalStepOf, FinalClose, ContinueIf, connVars, clientVars, stopVars, flags
<1> QED
  BY <1>1, <1>2, <1>3, <1>4, <1>5, <1>6, <1>7, <1>8, <1>9, <1>10, <1>11, <1>12, <1>13,
     <1>14, <1>15, <1>16 DEF FinalStepOf, FinalStep

\* pendingJobs is not negative.
LEMMA CountedNat == Ownership /\ Counted => \A k \in Clients : pendingJobs[k] \in Nat
<1> SUFFICES ASSUME Ownership, Counted, NEW k \in Clients PROVE pendingJobs[k] \in Nat
  OBVIOUS
<1>1. Handing(k) \in {0, 1}
  BY DEF Handing
<1> QED
  BY <1>1, FiniteCounts DEF Ownership, ServerTypeOK, MessagesOK, Counted, Counts

\* Who is to finalize k stays, when nothing moves but those who are not.
LEMMA StillAwaited ==
    ASSUME NEW k \in Clients, Awaited(k), UNCHANGED pendingJobs,
           \A t \in Threads :
               cpc[t] \in {"peerClosed", "pending", "claim"} => cpc'[t] = cpc[t] /\ this'[t] = this[t],
           lpc \in {"erase", "extract", "submit"} => UNCHANGED <<lpc, eof, this>>
    PROVE  Awaited(k)'
  BY DEF Awaited

\* Whoever leaves a connection to others has made sure that one of them will
\* finalize it.
LEMMA NextKept ==
    ASSUME Ownership, Accounts, LoopNext
    PROVE  Kept'
<1>1. \/ UNCHANGED <<client, table, fd, connections, lpc, this, fdClosed, peerClosed, pendingJobs, cpc, eof>>
      \/ \E k \in Clients : ClientConnect(k)
      \/ spc = "out" /\ (SetupSocket \/ SetupEpoll \/ StartRunning \/ RunReturns \/ EpollWait
            \/ NextEvent \/ BatchDone \/ Accept \/ Insert \/ AcceptDone \/ RecvEnd \/ Forget
            \/ Erase \/ Dispatch \/ Submit \/ ExtractDone \/ Finalized)
      \/ StopClose \/ StopEnd
      \/ \E w \in Workers : StartJob(w) \/ JobSent(w) \/ SendStepOf(w)
      \/ \E t \in Threads : FinalStepOf(t)
  BY DEF LoopNext, ClientStep, ClientSend, ClientHangUp, Recv, StopBegin, StopKill, loopVars,
     connVars, clientVars, stopVars, flags
<1> USE ConnectionAssumption, CountedNat DEF Ownership, ServerTypeOK, SocketsOK, FlagsOK,
       ThreadsOK, Named, Places, Flags, Stopping, Owned, Routed, Early, Stopped, Accepted,
       Closing, Has, Threads, Accounts, Forgetting, Kept, Awaited
<1>2. CASE UNCHANGED <<client, table, fd, connections, lpc, this, fdClosed, peerClosed, pendingJobs, cpc, eof>>
  BY <1>2
<1>3. ASSUME NEW k \in Clients, ClientConnect(k) PROVE Kept'
  BY <1>3 DEF ClientConnect, connVars, clientVars, stopVars, flags
<1>4. CASE spc = "out" /\ SetupSocket
  BY <1>4 DEF SetupSocket, connVars, clientVars, stopVars, flags
<1>5. CASE spc = "out" /\ SetupEpoll
  BY <1>5 DEF SetupEpoll, connVars, clientVars, stopVars, flags
<1>6. CASE spc = "out" /\ StartRunning
  BY <1>6 DEF StartRunning, connVars, clientVars, stopVars, flags
<1>7. CASE spc = "out" /\ RunReturns
  BY <1>7 DEF RunReturns, connVars, clientVars, stopVars, flags
<1>8. CASE spc = "out" /\ EpollWait
  BY <1>8 DEF EpollWait, Readable, connVars, clientVars, stopVars, flags
<1>9. CASE spc = "out" /\ NextEvent
  <2>1. /\ lpc = "next" /\ UNCHANGED <<client, table, fd, connections, fdClosed, peerClosed, pendingJobs, cpc>>
        /\ \A w \in Workers : this'[w] = this[w]
    BY <1>9 DEF NextEvent, clientVars, flags
  <2>2. \A t \in Threads :
            cpc[t] \in {"peerClosed", "pending", "claim"} => cpc'[t] = cpc[t] /\ this'[t] = this[t]
    BY <2>1
  <2>3. \A k \in Clients : Awaited(k) => Awaited(k)'
    BY <2>1, <2>2, StillAwaited
  <2> HIDE DEF Awaited
  <2> QED
    BY <2>1, <2>3
<1>10. CASE spc = "out" /\ BatchDone
  BY <1>10 DEF BatchDone, connVars, clientVars, stopVars, flags
<1>11. CASE spc = "out" /\ Accept
  BY <1>11 DEF Accept, connVars, clientVars, stopVars, flags
<1>12. CASE spc = "out" /\ Insert
  BY <1>12 DEF Insert, connVars, clientVars, stopVars, flags
<1>13. CASE spc = "out" /\ AcceptDone
  BY <1>13 DEF AcceptDone, connVars, clientVars, stopVars, flags
<1>14. CASE spc = "out" /\ RecvEnd
  BY <1>14 DEF RecvEnd, Conn, Sock, connVars, clientVars, stopVars, flags
<1>15. CASE spc = "out" /\ Forget
  BY <1>15 DEF Forget, Conn, connVars, clientVars, stopVars, flags
<1>16. CASE spc = "out" /\ Erase
  BY <1>16 DEF Erase, Conn, Erased, connVars, clientVars, stopVars, flags
<1>17. CASE spc = "out" /\ Dispatch
  BY <1>17 DEF Dispatch, Conn, connVars, clientVars, stopVars, flags
<1>18. CASE spc = "out" /\ Submit
  BY <1>18 DEF Submit, Conn, connVars, clientVars, stopVars, flags
<1>19. CASE spc = "out" /\ ExtractDone
  <2>1. CASE eof
    BY <1>19, <2>1 DEF ExtractDone, Conn, AfterMessages, clientVars, flags
  <2>2. CASE ~eof
    BY <1>19, <2>2 DEF ExtractDone, Conn, AfterMessages, clientVars, flags
  <2> QED
    BY <2>1, <2>2
<1>20. CASE spc = "out" /\ Finalized
  BY <1>20 DEF Finalized, connVars, clientVars, stopVars, flags
<1>21. CASE StopClose
  BY <1>21 DEF StopClose, connVars, clientVars, stopVars, flags
<1>22. CASE StopEnd
  BY <1>22 DEF StopEnd, connVars, clientVars, stopVars, flags
<1>23. ASSUME NEW w \in Workers, StartJob(w) PROVE Kept'
  BY <1>23 DEF StartJob, connVars, clientVars, stopVars, flags
<1>24. ASSUME NEW w \in Workers, JobSent(w) PROVE Kept'
  BY <1>24 DEF JobSent, Goto, connVars, clientVars, stopVars, flags
<1>25. ASSUME NEW w \in Workers, SendStepOf(w) PROVE Kept'
  <2>1. Sends
    BY <1>25, SendMoves
  <2>2. UNCHANGED <<client, table, fd, connections, lpc, this, fdClosed, peerClosed, pendingJobs, eof>>
    BY <2>1 DEF Sends, clientVars, flags
  <2>3. \A t \in Threads :
            cpc[t] \in {"peerClosed", "pending", "claim"} => cpc'[t] = cpc[t] /\ this'[t] = this[t]
    BY <2>1, <2>2 DEF Sends, SendLabels
  <2>4. \A k \in Clients : Awaited(k) => Awaited(k)'
    BY <2>2, <2>3, StillAwaited
  <2> HIDE DEF Awaited
  <2> QED
    BY <2>2, <2>4
<1>26. ASSUME NEW t \in Threads, FinalStepOf(t), FinalPeer(t) PROVE Kept'
  BY <1>26 DEF FinalStepOf, FinalPeer, ContinueIf, connVars, clientVars, stopVars, flags
<1>27. ASSUME NEW t \in Threads, FinalStepOf(t), FinalPending(t) PROVE Kept'
  BY <1>27 DEF FinalStepOf, FinalPending, ContinueIf, connVars, clientVars, stopVars, flags
<1>28. ASSUME NEW t \in Threads, FinalStepOf(t), FinalClaim(t) PROVE Kept'
  BY <1>28 DEF FinalStepOf, FinalClaim, ContinueIf, connVars, clientVars, stopVars, flags
<1>29. ASSUME NEW t \in Threads, FinalStepOf(t), FinalKill(t) PROVE Kept'
  BY <1>29 DEF FinalStepOf, FinalKill, Goto, connVars, clientVars, stopVars, flags
<1>30. ASSUME NEW t \in Threads, FinalStepOf(t), FinalClose(t) PROVE Kept'
  BY <1>30 DEF FinalStepOf, FinalClose, ContinueIf, connVars, clientVars, stopVars, flags
<1> QED
  BY <1>1, <1>2, <1>3, <1>4, <1>5, <1>6, <1>7, <1>8, <1>9, <1>10, <1>11, <1>12, <1>13,
     <1>14, <1>15, <1>16, <1>17, <1>18, <1>19, <1>20, <1>21, <1>22, <1>23, <1>24, <1>25,
     <1>26, <1>27, <1>28, <1>29, <1>30 DEF FinalStepOf, FinalStep

-----------------------------------------------------------------------------
(* Every step, and the end                                                 *)

\* Nothing is counted and nothing is open at the start.
LEMMA InitAccounts == LoopInit => Accounts
<1> SUFFICES ASSUME LoopInit PROVE Accounts
  OBVIOUS
<1> USE ConnectionAssumption DEF LoopInit, ConnInit
<1>1. Locked /\ Forgetting /\ Claimed /\ Kept
  BY DEF Locked, Forgetting, Claimed, Kept, Accepted
<1>2. ASSUME NEW k \in Clients PROVE Counts(k)
  <2>1. Queued(k) = {} /\ Busy(k) = {} /\ Handing(k) = 0
    BY DEF Queued, JobsOf, Busy, Handing, SendLabels, Threads
  <2> QED
    BY <2>1, FS_EmptySet DEF Counts
<1> QED
  BY <1>1, <1>2 DEF Accounts, Counted

\* Every step of the loop keeps the accounts.
LEMMA NextAccounts == Ownership /\ Accounts /\ LoopNext => Accounts'
  BY NextLocked, NextCounted, NextForgetting, NextClaimed, NextKept DEF Accounts

\* main() goes through its stages in order, each when the one before is over.
LEMMA NextEnding == Ownership /\ Ending /\ [ServerNext]_serverVars => Ending'
<1> SUFFICES ASSUME Ownership, Ending, [ServerNext]_serverVars PROVE Ending'
  OBVIOUS
<1> USE DEF Ending, Drained, mainVars
<1>1. ASSUME NEW k \in Clients, ClientStep(k), UNCHANGED mainVars PROVE Ending'
  BY <1>1 DEF ClientStep, ClientConnect, ClientSend, ClientHangUp, connVars, stopVars
<1>2. CASE Sigint
  BY <1>2 DEF Sigint, StopBegin, loopVars, connVars, stopVars
<1>3. CASE MainRuns \/ Exit
  BY <1>3 DEF MainRuns, Exit, loopVars, connVars, stopVars
<1>4. CASE RunMove
  BY <1>4 DEF RunMove
<1>5. CASE DestroyLoop
  BY <1>5 DEF DestroyLoop, StopBegin, connVars
<1>6. CASE StopMove
  BY <1>6 DEF StopMove, StopStep, StopKill, StopClose
<1>7. CASE StopReturns
  BY <1>7 DEF StopReturns, StopEnd, connVars
<1>8. ASSUME NEW w \in Workers, WorkerStep(w), UNCHANGED mainVars PROVE Ending'
  <2>1. UNCHANGED <<lpc, spc, connections>>
    BY <1>8 DEF WorkerStep, StartJob, SendStepOf, JobSent, FinalStepOf, stopVars
  <2>2. mpc # "exited"
    <3>1. cpc[w] # "out" \/ jobs # << >>
      BY <1>8 DEF WorkerStep, StartJob, SendStepOf, SendStep, SendLock, SendCheck, SendWrite,
         SendUnlock, JobSent, FinalStepOf, FinalStep, FinalPeer, FinalPending, FinalClaim,
         FinalKill, FinalClose, ContinueIf, Goto
    <3> QED
      BY <3>1
  <2> QED
    BY <1>8, <2>1, <2>2
<1>9. CASE UNCHANGED serverVars
  BY <1>9 DEF serverVars, loopVars, connVars, stopVars
<1> QED
  BY <1>1, <1>2, <1>3, <1>4, <1>5, <1>6, <1>7, <1>8, <1>9 DEF ServerNext, MainStep

\* The accounts hold in every state of the server.
LEMMA AlwaysAccounts == ServerSpec => [](Ownership /\ Accounts /\ Ending)
<1>1. ServerInit => Accounts /\ Ending
  BY InitAccounts DEF ServerInit, Ending
<1>2. Ownership /\ Accounts /\ Ending /\ [ServerNext]_serverVars => Accounts' /\ Ending'
  BY NextAccounts, NextEnding, ServerSteps
<1> QED
  BY <1>1, <1>2, AlwaysOwnership, PTL DEF ServerSpec

\* "[server] shut down cleanly": when main() returns every socket is closed,
\* every job is done and accounted for, no mutex is held, no thread is inside
\* safeSend() or tryFinalize(), wherever the signal came.
THEOREM ServerCleanExit == ServerSpec => []CleanExit
<1>1. ASSUME Ownership, Accounts, Ending, mpc = "exited"
      PROVE  /\ \A f \in Fds : table[f] = Nobody
             /\ jobs = << >>
             /\ \A k \in Clients : pendingJobs[k] = 0 /\ writeMutex[k] = Nobody
             /\ \A t \in Threads : cpc[t] = "out"
  <2>1. /\ lpc = "returned" /\ DOMAIN connections = {} /\ jobs = << >>
        /\ \A t \in Threads : cpc[t] = "out"
    BY <1>1 DEF Ending, Drained, Ownership, Places, Threads
  <2>2. ASSUME NEW k \in Clients PROVE pendingJobs[k] = 0
    <3>1. Queued(k) = {} /\ Busy(k) = {} /\ Handing(k) = 0
      BY <2>1 DEF Queued, JobsOf, Busy, Handing, SendLabels, Threads
    <3> QED
      BY <1>1, <3>1, FS_EmptySet DEF Accounts, Counted, Counts
  <2>3. ASSUME NEW k \in Clients PROVE writeMutex[k] = Nobody
    BY <1>1, <2>1 DEF Accounts, Locked, Ownership, ServerTypeOK, FlagsOK, Threads
  <2>4. ASSUME NEW k \in Clients, Accepted(k) PROVE table[fd[k]] # k
    <3>1. ~Awaited(k)
      BY <2>1, <2>2 DEF Awaited
    <3>2. ~ \E t \in Threads : Closing(t)
      BY <2>1 DEF Closing
    <3> QED
      BY <1>1, <2>1, <2>4, <3>1, <3>2 DEF Accounts, Kept, Claimed
  <2>5. ASSUME NEW f \in Fds PROVE table[f] = Nobody
    BY <1>1, <2>4 DEF Ownership, ServerTypeOK, SocketsOK, Named
  <2> QED
    BY <2>1, <2>2, <2>3, <2>5
<1>2. Ownership /\ Accounts /\ Ending => CleanExit
  BY <1>1 DEF CleanExit
<1> QED
  BY <1>2, AlwaysAccounts, PTL
=============================================================================
