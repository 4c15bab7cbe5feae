------------------------------- MODULE EventLoop -------------------------------
(***************************************************************************)
(* class EventLoop of include/EventLoop.hpp: one thread that accepts       *)
(* connections, reads them, cuts complete messages out of their buffers    *)
(* and dispatches each to the pool; the worker's job sends the response.   *)
(*                                                                         *)
(* A client connects, sends its messages one by one, closes its sending    *)
(* side and reads on (`nc`).  The pool is a first-in first-out queue       *)
(* (JobQueue); what the job computes (FixSession, RiskValidator) is left   *)
(* out, what it does to the connection is not.  stop() runs on the loop's  *)
(* thread, in a signal handler that interrupts it between any two steps or *)
(* in the destructor: Server says when.  Meanwhile the workers go on.      *)
(***************************************************************************)
EXTENDS Connection

CONSTANT Script     \* client -> the sequence of messages it sends

ASSUME ScriptAssumption ==
    /\ \A k \in Clients : Script[k] \in Seq(Messages)
    /\ 0 \notin Fds

VARIABLES
    sent,           \* client -> how many of its messages it has sent
    client,         \* client -> "new", "connecting" or "accepted"
    hungUp,         \* client -> it has closed its sending side
    inbound,        \* client -> messages in its socket, not received yet
    connections,    \* connections_: fd -> the connection routed to
    recvBuffer,     \* client -> Connection::recvBuffer, as messages
    eof,            \* local peerClosed of handleReadable()
    events,         \* what epoll_wait() reported and is still to be handled
    lpc,            \* where run() is
    jobs,           \* the pool's queue: <<connection, message>>
    running,        \* running_
    listening,      \* listenFd_ >= 0
    polling,        \* epollFd_ >= 0
    spc,            \* where stop() is, "out" when it is not running
    todo            \* the fds stop()'s loop has still to visit

clientVars == <<sent, client, hungUp, inbound>>
stopVars   == <<running, listening, polling, spc, todo>>
loopVars   == <<connVars, clientVars, connections, recvBuffer, eof, events, lpc, jobs, stopVars>>

Listen == 0         \* listenFd_, as an event

LoopInit ==
    /\ ConnInit
    /\ sent        = [k \in Clients |-> 0]
    /\ client      = [k \in Clients |-> "new"]
    /\ hungUp      = [k \in Clients |-> FALSE]
    /\ inbound     = [k \in Clients |-> << >>]
    /\ connections = [f \in {} |-> Nobody]
    /\ recvBuffer  = [k \in Clients |-> << >>]
    /\ eof         = FALSE
    /\ events      = {}
    /\ lpc         = "socket"
    /\ jobs        = << >>
    /\ running     = FALSE
    /\ listening   = FALSE
    /\ polling     = FALSE
    /\ spc         = "out"
    /\ todo        = {}

-----------------------------------------------------------------------------
(* The clients (external)                                                  *)

ClientConnect(k) ==
    /\ client[k] = "new"
    /\ client' = [client EXCEPT ![k] = "connecting"]
    /\ UNCHANGED <<connVars, sent, hungUp, inbound, connections, recvBuffer, eof, events, lpc, jobs, stopVars>>

ClientSend(k) ==
    /\ client[k] # "new"
    /\ sent[k] < Len(Script[k])
    /\ sent' = [sent EXCEPT ![k] = @ + 1]
    /\ inbound' = [inbound EXCEPT ![k] = Append(@, Script[k][sent[k] + 1])]
    /\ UNCHANGED <<connVars, client, hungUp, connections, recvBuffer, eof, events, lpc, jobs, stopVars>>

\* The client has nothing more to send and says so.
ClientHangUp(k) ==
    /\ client[k] # "new"
    /\ ~hungUp[k]
    /\ sent[k] = Len(Script[k])
    /\ hungUp' = [hungUp EXCEPT ![k] = TRUE]
    /\ UNCHANGED <<connVars, sent, client, inbound, connections, recvBuffer, eof, events, lpc, jobs, stopVars>>

-----------------------------------------------------------------------------
(* run()                                                                   *)

\* setupListenSocket(), epoll_create1(), and the last steps before the loop.
SetupSocket ==
    /\ lpc = "socket"
    /\ listening' = TRUE
    /\ lpc' = "epoll"
    /\ UNCHANGED <<connVars, clientVars, connections, recvBuffer, eof, events, jobs, running, polling, spc, todo>>

SetupEpoll ==
    /\ lpc = "epoll"
    /\ polling' = TRUE
    /\ lpc' = "register"
    /\ UNCHANGED <<connVars, clientVars, connections, recvBuffer, eof, events, jobs, running, listening, spc, todo>>

StartRunning ==
    /\ lpc = "register"
    /\ running' = TRUE
    /\ lpc' = "wait"
    /\ UNCHANGED <<connVars, clientVars, connections, recvBuffer, eof, events, jobs, listening, polling, spc, todo>>

\* Mutant: for (;;)
RunReturns_Never == FALSE /\ UNCHANGED loopVars

\* while (running_) is over.
RunReturns ==
    /\ lpc = "wait"
    /\ ~running
    /\ lpc' = "returned"
    /\ UNCHANGED <<connVars, clientVars, connections, recvBuffer, eof, events, jobs, stopVars>>

\* What epoll reports: level-triggered readiness of the registered sockets.
Readable ==
    {f \in DOMAIN connections :
        LET k == table[f] IN k # Nobody /\ (inbound[k] # << >> \/ hungUp[k])}
    \cup (IF listening /\ \E k \in Clients : client[k] = "connecting" THEN {Listen} ELSE {})

\* A wait that times out, or fails once stop() has closed epollFd_, changes
\* nothing.
EpollWait ==
    /\ lpc = "wait"
    /\ running /\ polling
    /\ Readable # {}
    /\ events' = Readable
    /\ lpc' = "next"
    /\ UNCHANGED <<connVars, clientVars, connections, recvBuffer, eof, jobs, stopVars>>

\* The batch's next event: the listening socket, or a connection, which find()
\* misses only after stop() (see RoutesOpenSockets).
NextEvent ==
    /\ lpc = "next"
    /\ \E e \in events :
          /\ events' = events \ {e}
          /\ \/ e = Listen /\ lpc' = "accept" /\ UNCHANGED this
             \/ e \in DOMAIN connections /\ lpc' = "recv"
                /\ this' = [this EXCEPT ![Loop] = connections[e]]
             \/ e \notin DOMAIN connections \cup {Listen} /\ UNCHANGED <<lpc, this>>
    /\ UNCHANGED <<table, fd, flags, writeMutex, cpc, reply, received, dropped>>
    /\ UNCHANGED <<clientVars, connections, recvBuffer, eof, jobs, stopVars>>

BatchDone ==
    /\ lpc = "next"
    /\ events = {}
    /\ lpc' = "wait"
    /\ UNCHANGED <<connVars, clientVars, connections, recvBuffer, eof, events, jobs, stopVars>>

\* One round of acceptNewConnections(): the lowest free descriptor ...
Accept ==
    /\ lpc = "accept"
    /\ listening
    /\ \E k \in Clients, f \in Fds :
          /\ client[k] = "connecting"
          /\ table[f] = Nobody
          /\ \A g \in Fds : g < f => table[g] # Nobody
          /\ table' = [table EXCEPT ![f] = k]
          /\ fd' = [fd EXCEPT ![k] = f]
          /\ client' = [client EXCEPT ![k] = "accepted"]
          /\ this' = [this EXCEPT ![Loop] = k]
    /\ lpc' = "insert"
    /\ UNCHANGED <<flags, writeMutex, cpc, reply, received, dropped>>
    /\ UNCHANGED <<sent, hungUp, inbound, connections, recvBuffer, eof, events, jobs, stopVars>>

\* ... is registered and gets its Connection.
Insert ==
    /\ lpc = "insert"
    /\ connections' = [f \in DOMAIN connections \cup {fd[this[Loop]]} |->
                          IF f = fd[this[Loop]] THEN this[Loop] ELSE connections[f]]
    /\ this' = [this EXCEPT ![Loop] = Nobody]
    /\ lpc' = "accept"
    /\ UNCHANGED <<table, fd, flags, writeMutex, cpc, reply, received, dropped>>
    /\ UNCHANGED <<clientVars, recvBuffer, eof, events, jobs, stopVars>>

\* accept() has nothing more to offer (or no descriptor to give).
AcceptDone ==
    /\ lpc = "accept"
    /\ \/ ~listening
       \/ \A k \in Clients : client[k] # "connecting"
       \/ \A f \in Fds : table[f] # Nobody
    /\ lpc' = "next"
    /\ UNCHANGED <<connVars, clientVars, connections, recvBuffer, eof, events, jobs, stopVars>>

-----------------------------------------------------------------------------
(* handleReadable(): conn is this[Loop]                                    *)

Conn == this[Loop]
Sock == table[fd[Conn]]

\* recv() > 0: what has arrived is appended to the buffer, and read on.
Recv ==
    /\ lpc = "recv"
    /\ Sock # Nobody /\ inbound[Sock] # << >>
    /\ recvBuffer' = [recvBuffer EXCEPT ![Conn] = @ \o inbound[Sock]]
    /\ inbound' = [inbound EXCEPT ![Sock] = << >>]
    /\ UNCHANGED <<connVars, sent, client, hungUp, connections, eof, events, lpc, jobs, stopVars>>

\* recv() = 0 (the peer has closed) or < 0 (nothing more for now, or stop()
\* has closed the descriptor)
RecvEnd ==
    /\ lpc = "recv"
    /\ Sock # Nobody => inbound[Sock] = << >>
    /\ eof' = (Sock # Nobody /\ hungUp[Sock])
    /\ lpc' = IF eof' THEN "forget" ELSE "extract"
    /\ UNCHANGED <<connVars, clientVars, connections, recvBuffer, events, jobs, stopVars>>

\* peerClosed.store(true) ...
Forget ==
    /\ lpc = "forget"
    /\ peerClosed' = [peerClosed EXCEPT ![Conn] = TRUE]
    /\ lpc' = "erase"
    /\ UNCHANGED <<table, fd, alive, pendingJobs, fdClosed, writeMutex, cpc, this, reply,
                   received, dropped>>
    /\ UNCHANGED <<clientVars, connections, recvBuffer, eof, events, jobs, stopVars>>

\* Mutant: the fd is left in connections_.
Erased_KeepsRoute(f) == connections

Erased(f) == [g \in DOMAIN connections \ {f} |-> connections[g]]

\* ... then the fd leaves epoll and connections_.
Erase ==
    /\ lpc = "erase"
    /\ connections' = Erased(fd[Conn])
    /\ lpc' = "extract"
    /\ UNCHANGED <<connVars, clientVars, recvBuffer, eof, events, jobs, stopVars>>

\* tryExtractMessage() finds one; dispatchToWorker(): pendingJobs + 1
Dispatch ==
    /\ lpc = "extract"
    /\ recvBuffer[Conn] # << >>
    /\ pendingJobs' = [pendingJobs EXCEPT ![Conn] = @ + 1]
    /\ lpc' = "submit"
    /\ UNCHANGED <<table, fd, alive, peerClosed, fdClosed, writeMutex, cpc, this, reply,
                   received, dropped>>
    /\ UNCHANGED <<clientVars, connections, recvBuffer, eof, events, jobs, stopVars>>

\* pool_.submit()
Submit ==
    /\ lpc = "submit"
    /\ jobs' = Append(jobs, <<Conn, Head(recvBuffer[Conn])>>)
    /\ recvBuffer' = [recvBuffer EXCEPT ![Conn] = Tail(@)]
    /\ lpc' = "extract"
    /\ UNCHANGED <<connVars, clientVars, connections, eof, events, stopVars>>

\* handleReadable() goes on to tryFinalize() if the peer has closed.
AfterMessages ==
    /\ lpc = "extract"
    /\ IF eof
       THEN /\ lpc' = "finalize"
            /\ cpc' = [cpc EXCEPT ![Loop] = "peerClosed"]
            /\ UNCHANGED this
       ELSE /\ lpc' = "next"
            /\ this' = [this EXCEPT ![Loop] = Nobody]
            /\ UNCHANGED cpc
    /\ eof' = FALSE
    /\ UNCHANGED <<table, fd, flags, writeMutex, reply, received, dropped>>
    /\ UNCHANGED <<clientVars, connections, recvBuffer, events, jobs, stopVars>>

\* Mutant: messages may be left in the buffer until more data comes.
ExtractDone_Early == AfterMessages

\* No complete message is left.
ExtractDone ==
    /\ lpc = "extract"
    /\ recvBuffer[Conn] = << >>
    /\ AfterMessages

Finalized ==
    /\ lpc = "finalize"
    /\ cpc[Loop] = "out"
    /\ lpc' = "next"
    /\ UNCHANGED <<connVars, clientVars, connections, recvBuffer, eof, events, jobs, stopVars>>

-----------------------------------------------------------------------------
(* The job dispatchToWorker() submits                                      *)

StartJob(w) ==
    /\ cpc[w] = "out"
    /\ jobs # << >>
    /\ this' = [this EXCEPT ![w] = Head(jobs)[1]]
    /\ reply' = [reply EXCEPT ![w] = Head(jobs)[2]]
    /\ jobs' = Tail(jobs)
    /\ cpc' = [cpc EXCEPT ![w] = "lock"]
    /\ UNCHANGED <<table, fd, flags, writeMutex, received, dropped>>
    /\ UNCHANGED <<clientVars, connections, recvBuffer, eof, events, lpc, stopVars>>

\* Mutant: the job leaves the closing to the loop.
JobSent_NoFinalize(w) ==
    /\ Goto(w, "done", "out")
    /\ pendingJobs' = [pendingJobs EXCEPT ![this[w]] = @ - 1]
    /\ reply' = [reply EXCEPT ![w] = NoMessage]
    /\ UNCHANGED <<table, fd, alive, peerClosed, fdClosed, writeMutex, this, received, dropped>>
    /\ UNCHANGED <<clientVars, connections, recvBuffer, eof, events, lpc, jobs, stopVars>>

\* pendingJobs.fetch_sub(1), then tryFinalize()
JobSent(w) ==
    /\ Goto(w, "done", "peerClosed")
    /\ pendingJobs' = [pendingJobs EXCEPT ![this[w]] = @ - 1]
    /\ reply' = [reply EXCEPT ![w] = NoMessage]
    /\ UNCHANGED <<table, fd, alive, peerClosed, fdClosed, writeMutex, this, received, dropped>>
    /\ UNCHANGED <<clientVars, connections, recvBuffer, eof, events, lpc, jobs, stopVars>>

\* safeSend() and tryFinalize() change nothing of the loop's.
SendStepOf(w)  == SendStep(w) /\ UNCHANGED <<clientVars, connections, recvBuffer, eof, events, lpc, jobs, stopVars>>
FinalStepOf(t) == FinalStep(t) /\ UNCHANGED <<clientVars, connections, recvBuffer, eof, events, lpc, jobs, stopVars>>

-----------------------------------------------------------------------------
(* stop(): the flag and the two sockets, then every connection, then clear *)

\* Mutant: the listening socket stays open.
ListensAfterStop_Still == listening

ListensAfterStop == FALSE

StopBegin ==
    /\ spc = "out"
    /\ running'   = FALSE
    /\ listening' = ListensAfterStop
    /\ polling'   = FALSE
    /\ todo' = DOMAIN connections
    /\ spc'  = "kill"
    /\ UNCHANGED <<connVars, clientVars, connections, recvBuffer, eof, events, lpc, jobs>>

\* Where the iteration over connections_ is: the map has an order of its own.
NextFd == CHOOSE f \in todo : TRUE

StopKill ==
    /\ spc = "kill"
    /\ todo # {}
    /\ alive' = [alive EXCEPT ![connections[NextFd]] = FALSE]
    /\ spc' = "close"
    /\ UNCHANGED <<table, fd, pendingJobs, peerClosed, fdClosed, writeMutex, cpc, this, reply,
                   received, dropped>>
    /\ UNCHANGED <<clientVars, connections, recvBuffer, eof, events, lpc, jobs, running, listening, polling, todo>>

StopClose ==
    /\ spc = "close"
    /\ table' = [table EXCEPT ![NextFd] = Nobody]
    /\ todo' = todo \ {NextFd}
    /\ spc' = "kill"
    /\ UNCHANGED <<fd, flags, writeMutex, cpc, this, reply, received, dropped>>
    /\ UNCHANGED <<clientVars, connections, recvBuffer, eof, events, lpc, jobs, running, listening, polling>>

StopEnd ==
    /\ spc = "kill"
    /\ todo = {}
    /\ connections' = [f \in {} |-> Nobody]
    /\ spc' = "out"
    /\ UNCHANGED <<connVars, clientVars, recvBuffer, eof, events, lpc, jobs, running, listening, polling, todo>>

-----------------------------------------------------------------------------
ClientStep(k) == ClientConnect(k) \/ ClientSend(k) \/ ClientHangUp(k)

RunStep ==
    /\ spc = "out"
    /\ \/ SetupSocket \/ SetupEpoll \/ StartRunning \/ RunReturns
       \/ EpollWait \/ NextEvent \/ BatchDone \/ Accept \/ Insert \/ AcceptDone
       \/ Recv \/ RecvEnd \/ Forget \/ Erase \/ Dispatch \/ Submit \/ ExtractDone
       \/ FinalStepOf(Loop) \/ Finalized

StopStep == StopKill \/ StopClose

WorkerStep(w) == StartJob(w) \/ SendStepOf(w) \/ JobSent(w) \/ FinalStepOf(w)

-----------------------------------------------------------------------------
(* Properties                                                              *)

\* "guarded so it happens exactly once": as long as nobody calls stop(), a
\* connection's descriptor stays its own until the one close, whatever loop and
\* workers do at the same time.
ClosesOnlyItsOwn ==
    running =>
    /\ \A k \in Clients : client[k] = "accepted" /\ ~fdClosed[k] => table[fd[k]] = k
    /\ \A t \in Threads : cpc[t] \in {"kill", "close"} => table[fd[this[t]]] = this[t]

\* stop() closes descriptors without claiming fdClosed, so that tryFinalize()
\* may close one again; yet neither ever closes one that another client has.
ClosesNoOther ==
    /\ \A t \in Threads : cpc[t] \in {"kill", "close"} => table[fd[this[t]]] \in {this[t], Nobody}
    /\ spc # "out" => \A f \in todo : table[f] \in {connections[f], Nobody}

\* Until stop(), the loop routes an fd only to the connection whose socket it is, never a
\* descriptor that was closed under it or reused, and finds every fd that
\* epoll reported, although connections come and go within one batch.  The
\* exception is the connection being forgotten: once peerClosed is stored, a
\* worker still busy with an earlier message may close the socket before the
\* loop's epoll_ctl(DEL).
RoutesOpenSockets ==
    running =>
    /\ \A f \in DOMAIN connections :
           \/ table[f] = connections[f]
           \/ lpc = "erase" /\ f = fd[Conn] /\ table[f] = Nobody
    /\ events \subseteq DOMAIN connections \cup {Listen}

\* "must still get a response, not have it silently dropped just because EOF
\* arrived": no response is ever thrown away.
NoResponseDropped == dropped = {}
=============================================================================
